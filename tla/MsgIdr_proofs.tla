--------------------------- MODULE MsgIdr_proofs ---------------------------
(***************************************************************************)
(* Proofs about the entries of msg_idr, for any set of requests of each    *)
(* kind and any number of disconnects: references are exact, every request *)
(* is completed once, and the request layer implements RequestReply.       *)
(***************************************************************************)
EXTENDS MsgIdr, FiniteSetTheorems, TLAPS

PcOf(r) ==
  IF r \in Sync THEN {"idle", "alloc", "send", "sent", "fail_put", "fail_dec", "wait",
                      "take_ret", "wait_put", "done"}
  ELSE IF r \in Async THEN {"idle", "alloc", "send", "sent", "fire", "fired", "fail_put",
                            "fail_dec", "done"}
  ELSE {"idle", "alloc", "queue", "send", "sent", "put_sent", "cancel", "fail_dec", "done"}

Pcs == {"idle", "alloc", "queue", "send", "sent", "fire", "fired", "put_sent", "cancel",
        "fail_put", "fail_dec", "wait", "take_ret", "wait_put", "done"}
Outs == {None, "sent", "failed", "replied", "ETIME"}
Resps == {None, "remote", "found", "wake", "wake_buf", "cancelled", "put", "done"}

Types ==
  /\ idr \subseteq Reqs /\ offr \in Reqs \cup {None}
  /\ ref \in [Reqs -> Int] /\ cb \in [Reqs -> Int] /\ unlocks \in [Reqs -> Int]
  /\ pc \in [Reqs -> Pcs] /\ out \in [Reqs -> Outs]
  /\ valid \in [Reqs -> {None, "SEND", "END_RECV"}]
  /\ wret \in [Reqs -> {None, "replied", "ETIME"}] /\ mret \in [Reqs -> {None, "replied", "ETIME"}]
  /\ work \in [Reqs -> {None, "pending", "running", "done"}]
  /\ wfired \in [Reqs -> YesNo] /\ resp \in [Reqs -> Resps]

(* A request that has no entry yet has left no trace, and no response can  *)
(* come before it is sent.                                                 *)
Fresh(r) ==
  /\ pc[r] \in {"idle", "alloc", "queue", "send", "cancel"} => resp[r] = None
  /\ pc[r] \in {"idle", "alloc"} =>
       work[r] = None /\ wfired[r] = "no" /\ out[r] = None /\ mret[r] = None /\ offr # r

(* A waiter: who marks the entry END_RECV has stored a result before.      *)
SyncShape(r) ==
  /\ work[r] = None /\ resp[r] # "cancelled" /\ cb[r] = 0 /\ unlocks[r] = 0
  /\ valid[r] = "END_RECV" \/ resp[r] = "wake_buf" \/ pc[r] = "take_ret" => wret[r] # None
  /\ pc[r] \in {"send", "sent", "wait", "take_ret"} => out[r] = None
  /\ pc[r] \in {"fail_put", "fail_dec"} => out[r] = "failed"
  /\ out[r] # "sent"

(* A request with a callback: wfired says that there is a work to cancel,  *)
(* and a cancelled work is nobody's but the receive thread's.              *)
AsyncShape(r) ==
  /\ resp[r] \notin {"wake", "wake_buf"} /\ unlocks[r] = 0
  /\ pc[r] \in {"send", "fire", "fail_put", "fail_dec"} \/ out[r] = "failed" =>
       work[r] = None /\ wfired[r] = "no"
  /\ pc[r] \in {"send", "fire", "fired", "sent"} => out[r] = None
  /\ pc[r] = "fired" => wfired[r] = "no"
  /\ pc[r] \in {"fail_put", "fail_dec"} => out[r] = "failed"
  /\ resp[r] = "cancelled" => work[r] = None /\ wfired[r] = "yes"

(* A readpage: the response comes after the send, and its receive thread   *)
(* keeps a work it has cancelled.                                          *)
PageShape(r) ==
  /\ resp[r] \notin {"wake", "wake_buf"} /\ cb[r] = 0
  /\ pc[r] = "queue" => work[r] = None
  /\ resp[r] = "cancelled" => work[r] = None

Shape(r) ==
  /\ pc[r] \in PcOf(r) /\ Fresh(r)
  /\ r \in Sync => SyncShape(r)
  /\ r \in Async => AsyncShape(r)
  /\ r \in Page => PageShape(r)

Count(r) ==
  /\ ref[r] = One(RequesterHolds(r)) + One(WorkHolds(r)) + One(RecvBusy(r)) + One(offr = r)
  /\ r \in idr <=> ref[r] > 0

(* The callback has run, the page is unlocked, exactly when the request    *)
(* got that far and nobody holds the work any more.                        *)
Once(r) ==
  /\ r \in Async =>
       cb[r] = One(/\ out[r] # "failed" /\ pc[r] \notin {"idle", "alloc", "send", "fire"}
                   /\ ~WorkHolds(r))
  /\ r \in Page => unlocks[r] = One(pc[r] \notin {"idle", "alloc"} /\ ~WorkHolds(r))

Local(r) == Shape(r) /\ Count(r) /\ Once(r)

(* The disconnect has an entry in its hands exactly while it wakes it.     *)
Walk ==
  /\ offr = None <=> off \notin {"wake", "wake_buf", "put"}
  /\ off = "wake_buf" => offr \in Sync /\ wret[offr] # None

MInv == Types /\ Walk /\ \A r \in Reqs : Local(r)

-----------------------------------------------------------------------------
(* What the proof knows of a request that a step leaves alone.             *)
Same(q) ==
  /\ ref'[q] = ref[q] /\ pc'[q] = pc[q] /\ out'[q] = out[q] /\ valid'[q] = valid[q]
  /\ wret'[q] = wret[q] /\ work'[q] = work[q] /\ wfired'[q] = wfired[q] /\ mret'[q] = mret[q]
  /\ cb'[q] = cb[q] /\ unlocks'[q] = unlocks[q] /\ resp'[q] = resp[q]
  /\ q \in idr' <=> q \in idr
  /\ offr' = q <=> offr = q

(* A request that a step leaves alone stays as it should be.               *)
LEMMA SameLocal ==
  ASSUME NEW q \in Reqs, Local(q), Same(q)
  PROVE  Local(q)'
  BY DEF Local, Same, Shape, Fresh, SyncShape, AsyncShape, PageShape, Count, Once, PcOf,
         RequesterHolds, WorkHolds, RecvBusy, One, None

(* A step of one request keeps the invariant, if that request is as it     *)
(* should be afterwards.                                                   *)
LEMMA OneRequest ==
  ASSUME MInv, NEW r \in Reqs, Types', Walk', Local(r)', \A q \in Reqs \ {r} : Same(q)
  PROVE  MInv'
  BY SameLocal, Zenon DEF MInv

-----------------------------------------------------------------------------
(* The step of one request as its issuer sees it: it is issued, refused or *)
(* finished, or nothing happens.                                           *)
May(a, b) ==
  \/ a = b
  \/ a = "idle" /\ b \in {"issued", "failed"}
  \/ a = "issued" /\ b \in Promise!Outcomes

(* If the other requests stay as they are, that is a step of RequestReply. *)
LEMMA OneCall ==
  ASSUME NEW r \in Reqs, May(CallOf(r), CallOf(r)'),
         \A q \in Reqs \ {r} : CallOf(q)' = CallOf(q)
  PROVE  [Promise!Next]_Call
  <1>1. Call' = [Call EXCEPT ![r] = CallOf(r)']
    BY Zenon DEF Call
  <1>2. Call[r] = CallOf(r)
    BY Zenon DEF Call
  <1>3. CASE CallOf(r)' = CallOf(r)
    <2>1. Call' = Call
      BY <1>1, <1>2, <1>3, Zenon DEF Call
    <2> QED
      BY <2>1, Zenon
  <1>4. CASE CallOf(r) = "idle" /\ CallOf(r)' \in {"issued", "failed"}
    BY <1>1, <1>2, <1>4, Zenon DEF Promise!Next, Promise!Issue, Promise!Refuse
  <1>5. CASE CallOf(r) = "issued" /\ CallOf(r)' \in Promise!Outcomes
    BY <1>1, <1>2, <1>5, Zenon DEF Promise!Next, Promise!Finish
  <1> QED
    BY <1>3, <1>4, <1>5, Zenon DEF May

(* The step CheckOnline of a request. *)
LEMMA CheckOnlineStep ==
  ASSUME MInv, NEW r \in Reqs, CheckOnline(r)
  PROVE  MInv' /\ [Promise!Next]_Call
  <1>0. Types /\ Walk
    BY Zenon DEF MInv
  <1>1. Types' /\ Walk'
    <2>1. Types'
      BY <1>0, KindAssumption DEF CheckOnline, FailEarly, Return, Go, Types, Pcs, Outs,
             Resps, YesNo, entry, offv, None
    <2>2. Walk'
      BY <1>0, KindAssumption, Zenon DEF CheckOnline, FailEarly, Return, Go,
         Types, Walk, Reqs, entry, offv, None
    <2> QED BY <2>1, <2>2
  <1>2. \A q \in Reqs \ {r} : Same(q)
    BY <1>0 DEF CheckOnline, FailEarly, Return, Go, Types, Same, entry, offv, None
  <1>3. Local(r)
    BY Zenon DEF MInv
  <1>4. Shape(r)'
    BY <1>0, <1>3, KindAssumption DEF CheckOnline, FailEarly, Return, Go, Types, Local,
           Shape, Fresh, SyncShape, AsyncShape, PageShape, PcOf, Reqs, YesNo, entry,
           offv, None
  <1>5. Count(r)'
    BY <1>0, <1>3, KindAssumption, ZenonT(30) DEF CheckOnline, FailEarly,
       Return, Go, Types, Local, Shape, Fresh, SyncShape, AsyncShape, PageShape,
       PcOf, Count, RequesterHolds, WorkHolds, RecvBusy, One, Reqs, entry, offv,
       None
  <1>6. Once(r)'
    BY <1>0, <1>3, KindAssumption DEF CheckOnline, FailEarly, Return, Go, Types, Local,
           Shape, Fresh, SyncShape, AsyncShape, PageShape, PcOf, Once, WorkHolds, One,
           Reqs, entry, offv, None
  <1>7. \A q \in Reqs \ {r} : CallOf(q)' = CallOf(q)
    BY <1>0 DEF CheckOnline, FailEarly, Return, Go, Types, CallOf, entry, offv, None
  <1>8. May(CallOf(r), CallOf(r)')
    BY <1>0, <1>3, KindAssumption DEF CheckOnline, FailEarly, Return, Go, Types, Local,
           Shape, Fresh, SyncShape, AsyncShape, PageShape, PcOf, Once, WorkHolds, One,
           Reqs, CallOf, May, Promise!Outcomes, Outs, entry, offv, None
  <1> QED
    BY <1>1, <1>2, <1>4, <1>5, <1>6, <1>7, <1>8, OneRequest, OneCall, Zenon DEF
       Local

(* The step hmdfs_alloc_msg_idr of a request. *)
LEMMA Hmdfs_alloc_msg_idrStep ==
  ASSUME MInv, NEW r \in Reqs, hmdfs_alloc_msg_idr(r)
  PROVE  MInv' /\ [Promise!Next]_Call
  <1>0. Types /\ Walk
    BY Zenon DEF MInv
  <1>1. Types' /\ Walk'
    <2>1. Types'
      BY <1>0, KindAssumption DEF hmdfs_alloc_msg_idr, FailEarly, Return, Go, Types,
             Pcs, Outs, Resps, YesNo, entry, offv, None
    <2>2. Walk'
      BY <1>0, KindAssumption, Zenon DEF hmdfs_alloc_msg_idr, FailEarly, Return,
         Go, Types, Walk, Reqs, entry, offv, None
    <2> QED BY <2>1, <2>2
  <1>2. \A q \in Reqs \ {r} : Same(q)
    BY <1>0 DEF hmdfs_alloc_msg_idr, FailEarly, Return, Go, Types, Same, entry, offv,
           None
  <1>3. Local(r)
    BY Zenon DEF MInv
  <1>4. Shape(r)'
    BY <1>0, <1>3, KindAssumption DEF hmdfs_alloc_msg_idr, FailEarly, Return, Go,
           Types, Local, Shape, Fresh, SyncShape, AsyncShape, PageShape, PcOf, Reqs,
           YesNo, entry, offv, None
  <1>5. Count(r)'
    BY <1>0, <1>3, KindAssumption DEF hmdfs_alloc_msg_idr, FailEarly, Return, Go,
           Types, Local, Shape, Fresh, SyncShape, AsyncShape, PageShape, PcOf, Count,
           RequesterHolds, WorkHolds, RecvBusy, One, Reqs, entry, offv, None
  <1>6. Once(r)'
    BY <1>0, <1>3, KindAssumption DEF hmdfs_alloc_msg_idr, FailEarly, Return, Go,
           Types, Local, Shape, Fresh, SyncShape, AsyncShape, PageShape, PcOf, Once,
           WorkHolds, One, Reqs, entry, offv, None
  <1>7. \A q \in Reqs \ {r} : CallOf(q)' = CallOf(q)
    BY <1>0 DEF hmdfs_alloc_msg_idr, FailEarly, Return, Go, Types, CallOf, entry, offv,
           None
  <1>8. May(CallOf(r), CallOf(r)')
    BY <1>0, <1>3, KindAssumption DEF hmdfs_alloc_msg_idr, FailEarly, Return, Go,
           Types, Local, Shape, Fresh, SyncShape, AsyncShape, PageShape, PcOf, Once,
           WorkHolds, One, Reqs, CallOf, May, Promise!Outcomes, Outs, entry, offv, None
  <1> QED
    BY <1>1, <1>2, <1>4, <1>5, <1>6, <1>7, <1>8, OneRequest, OneCall, Zenon DEF
       Local

(* The step QueuePageTimeout of a request. *)
LEMMA QueuePageTimeoutStep ==
  ASSUME MInv, NEW r \in Reqs, QueuePageTimeout(r)
  PROVE  MInv' /\ [Promise!Next]_Call
  <1>0. Types /\ Walk
    BY Zenon DEF MInv
  <1>1. Types' /\ Walk'
    <2>1. Types'
      BY <1>0, KindAssumption, Zenon DEF QueuePageTimeout, Go, Types, Pcs, Outs,
         Resps, YesNo, entry, offv, None
    <2>2. Walk'
      BY <1>0, KindAssumption, Zenon DEF QueuePageTimeout, Go, Types, Walk,
         Reqs, entry, offv, None
    <2> QED BY <2>1, <2>2
  <1>2. \A q \in Reqs \ {r} : Same(q)
    BY <1>0, Zenon DEF QueuePageTimeout, Go, Types, Same, entry, offv, None
  <1>3. Local(r)
    BY Zenon DEF MInv
  <1>4. Shape(r)'
    BY <1>0, <1>3, KindAssumption, Zenon DEF QueuePageTimeout, Go, Types, Local,
       Shape, Fresh, SyncShape, AsyncShape, PageShape, PcOf, Reqs, YesNo, entry,
       offv, None
  <1>5. Count(r)'
    BY <1>0, <1>3, KindAssumption, Zenon DEF QueuePageTimeout, Go, Types, Local,
       Shape, Fresh, SyncShape, AsyncShape, PageShape, PcOf, Count, RequesterHolds,
       WorkHolds, RecvBusy, One, Reqs, entry, offv, None
  <1>6. Once(r)'
    BY <1>0, <1>3, KindAssumption, Zenon DEF QueuePageTimeout, Go, Types, Local,
       Shape, Fresh, SyncShape, AsyncShape, PageShape, PcOf, Once, WorkHolds, One,
       Reqs, entry, offv, None
  <1>7. \A q \in Reqs \ {r} : CallOf(q)' = CallOf(q)
    BY <1>0, Zenon DEF QueuePageTimeout, Go, Types, CallOf, entry, offv, None
  <1>8. May(CallOf(r), CallOf(r)')
    BY <1>0, <1>3, KindAssumption, ZenonT(30) DEF QueuePageTimeout, Go, Types,
       Local, Shape, Fresh, SyncShape, AsyncShape, PageShape, PcOf, Once,
       WorkHolds, One, Reqs, CallOf, May, Promise!Outcomes, Outs, entry, offv, None
  <1> QED
    BY <1>1, <1>2, <1>4, <1>5, <1>6, <1>7, <1>8, OneRequest, OneCall, Zenon DEF
       Local

(* The step SendOK of a request. *)
LEMMA SendOKStep ==
  ASSUME MInv, NEW r \in Reqs, SendOK(r)
  PROVE  MInv' /\ [Promise!Next]_Call
  <1>0. Types /\ Walk
    BY Zenon DEF MInv
  <1>1. Types' /\ Walk'
    <2>1. Types'
      BY <1>0, KindAssumption, Zenon DEF SendOK, Go, Types, Pcs, Outs, Resps,
         YesNo, entry, offv, None
    <2>2. Walk'
      BY <1>0, KindAssumption, Zenon DEF SendOK, Go, Types, Walk, Reqs, entry,
         offv, None
    <2> QED BY <2>1, <2>2
  <1>2. \A q \in Reqs \ {r} : Same(q)
    BY <1>0, Zenon DEF SendOK, Go, Types, Same, entry, offv, None
  <1>3. Local(r)
    BY Zenon DEF MInv
  <1>4. Shape(r)'
    BY <1>0, <1>3, KindAssumption, Zenon DEF SendOK, Go, Types, Local, Shape,
       Fresh, SyncShape, AsyncShape, PageShape, PcOf, Reqs, YesNo, entry, offv,
       None
  <1>5. Count(r)'
    BY <1>0, <1>3, KindAssumption, Zenon DEF SendOK, Go, Types, Local, Shape,
       Fresh, SyncShape, AsyncShape, PageShape, PcOf, Count, RequesterHolds,
       WorkHolds, RecvBusy, One, Reqs, entry, offv, None
  <1>6. Once(r)'
    BY <1>0, <1>3, KindAssumption, Zenon DEF SendOK, Go, Types, Local, Shape,
       Fresh, SyncShape, AsyncShape, PageShape, PcOf, Once, WorkHolds, One, Reqs,
       entry, offv, None
  <1>7. \A q \in Reqs \ {r} : CallOf(q)' = CallOf(q)
    BY <1>0, Zenon DEF SendOK, Go, Types, CallOf, entry, offv, None
  <1>8. May(CallOf(r), CallOf(r)')
    BY <1>0, <1>3, KindAssumption, ZenonT(30) DEF SendOK, Go, Types, Local,
       Shape, Fresh, SyncShape, AsyncShape, PageShape, PcOf, Once, WorkHolds, One,
       Reqs, CallOf, May, Promise!Outcomes, Outs, entry, offv, None
  <1> QED
    BY <1>1, <1>2, <1>4, <1>5, <1>6, <1>7, <1>8, OneRequest, OneCall, Zenon DEF
       Local

(* The step SendFails of a request. *)
LEMMA SendFailsStep ==
  ASSUME MInv, NEW r \in Reqs, SendFails(r)
  PROVE  MInv' /\ [Promise!Next]_Call
  <1>0. Types /\ Walk
    BY Zenon DEF MInv
  <1>1. Types' /\ Walk'
    <2>1. Types'
      BY <1>0, KindAssumption, Zenon DEF SendFails, Go, Types, Pcs, Outs, Resps,
         YesNo, entry, offv, None
    <2>2. Walk'
      BY <1>0, KindAssumption, Zenon DEF SendFails, Go, Types, Walk, Reqs,
         entry, offv, None
    <2> QED BY <2>1, <2>2
  <1>2. \A q \in Reqs \ {r} : Same(q)
    BY <1>0, Zenon DEF SendFails, Go, Types, Same, entry, offv, None
  <1>3. Local(r)
    BY Zenon DEF MInv
  <1>4. Shape(r)'
    BY <1>0, <1>3, KindAssumption, Zenon DEF SendFails, Go, Types, Local, Shape,
       Fresh, SyncShape, AsyncShape, PageShape, PcOf, Reqs, YesNo, entry, offv,
       None
  <1>5. Count(r)'
    BY <1>0, <1>3, KindAssumption, Zenon DEF SendFails, Go, Types, Local, Shape,
       Fresh, SyncShape, AsyncShape, PageShape, PcOf, Count, RequesterHolds,
       WorkHolds, RecvBusy, One, Reqs, entry, offv, None
  <1>6. Once(r)'
    BY <1>0, <1>3, KindAssumption, Zenon DEF SendFails, Go, Types, Local, Shape,
       Fresh, SyncShape, AsyncShape, PageShape, PcOf, Once, WorkHolds, One, Reqs,
       entry, offv, None
  <1>7. \A q \in Reqs \ {r} : CallOf(q)' = CallOf(q)
    BY <1>0, Zenon DEF SendFails, Go, Types, CallOf, entry, offv, None
  <1>8. May(CallOf(r), CallOf(r)')
    BY <1>0, <1>3, KindAssumption DEF SendFails, Go, Types, Local, Shape, Fresh,
           SyncShape, AsyncShape, PageShape, PcOf, Once, WorkHolds, One, Reqs, CallOf,
           May, Promise!Outcomes, Outs, entry, offv, None
  <1> QED
    BY <1>1, <1>2, <1>4, <1>5, <1>6, <1>7, <1>8, OneRequest, OneCall, Zenon DEF
       Local

(* The step QueueAsyncTimeout of a request. *)
LEMMA QueueAsyncTimeoutStep ==
  ASSUME MInv, NEW r \in Reqs, QueueAsyncTimeout(r)
  PROVE  MInv' /\ [Promise!Next]_Call
  <1>0. Types /\ Walk
    BY Zenon DEF MInv
  <1>1. Types' /\ Walk'
    <2>1. Types'
      BY <1>0, KindAssumption, Zenon DEF QueueAsyncTimeout, Go, Types, Pcs,
         Outs, Resps, YesNo, entry, offv, None
    <2>2. Walk'
      BY <1>0, KindAssumption, Zenon DEF QueueAsyncTimeout, Go, Types, Walk,
         Reqs, entry, offv, None
    <2> QED BY <2>1, <2>2
  <1>2. \A q \in Reqs \ {r} : Same(q)
    BY <1>0, Zenon DEF QueueAsyncTimeout, Go, Types, Same, entry, offv, None
  <1>3. Local(r)
    BY Zenon DEF MInv
  <1>4. Shape(r)'
    BY <1>0, <1>3, KindAssumption, Zenon DEF QueueAsyncTimeout, Go, Types,
       Local, Shape, Fresh, SyncShape, AsyncShape, PageShape, PcOf, Reqs, YesNo,
       entry, offv, None
  <1>5. Count(r)'
    BY <1>0, <1>3, KindAssumption DEF QueueAsyncTimeout, Go, Types, Local, Shape,
           Fresh, SyncShape, AsyncShape, PageShape, PcOf, Count, RequesterHolds,
           WorkHolds, RecvBusy, One, Reqs, entry, offv, None
  <1>6. Once(r)'
    BY <1>0, <1>3, KindAssumption, Zenon DEF QueueAsyncTimeout, Go, Types,
       Local, Shape, Fresh, SyncShape, AsyncShape, PageShape, PcOf, Once,
       WorkHolds, One, Reqs, entry, offv, None
  <1>7. \A q \in Reqs \ {r} : CallOf(q)' = CallOf(q)
    BY <1>0, Zenon DEF QueueAsyncTimeout, Go, Types, CallOf, entry, offv, None
  <1>8. May(CallOf(r), CallOf(r)')
    BY <1>0, <1>3, KindAssumption, Zenon DEF QueueAsyncTimeout, Go, Types,
       Local, Shape, Fresh, SyncShape, AsyncShape, PageShape, PcOf, Once,
       WorkHolds, One, Reqs, CallOf, May, Promise!Outcomes, Outs, entry, offv, None
  <1> QED
    BY <1>1, <1>2, <1>4, <1>5, <1>6, <1>7, <1>8, OneRequest, OneCall, Zenon DEF
       Local

(* The step StoreWfired of a request. *)
LEMMA StoreWfiredStep ==
  ASSUME MInv, NEW r \in Reqs, StoreWfired(r)
  PROVE  MInv' /\ [Promise!Next]_Call
  <1>0. Types /\ Walk
    BY Zenon DEF MInv
  <1>1. Types' /\ Walk'
    <2>1. Types'
      BY <1>0, KindAssumption, Zenon DEF StoreWfired, Go, Types, Pcs, Outs,
         Resps, YesNo, entry, offv, None
    <2>2. Walk'
      BY <1>0, KindAssumption, Zenon DEF StoreWfired, Go, Types, Walk, Reqs,
         entry, offv, None
    <2> QED BY <2>1, <2>2
  <1>2. \A q \in Reqs \ {r} : Same(q)
    BY <1>0, Zenon DEF StoreWfired, Go, Types, Same, entry, offv, None
  <1>3. Local(r)
    BY Zenon DEF MInv
  <1>4. Shape(r)'
    BY <1>0, <1>3, KindAssumption, Zenon DEF StoreWfired, Go, Types, Local,
       Shape, Fresh, SyncShape, AsyncShape, PageShape, PcOf, Reqs, YesNo, entry,
       offv, None
  <1>5. Count(r)'
    BY <1>0, <1>3, KindAssumption, Zenon DEF StoreWfired, Go, Types, Local,
       Shape, Fresh, SyncShape, AsyncShape, PageShape, PcOf, Count, RequesterHolds,
       WorkHolds, RecvBusy, One, Reqs, entry, offv, None
  <1>6. Once(r)'
    BY <1>0, <1>3, KindAssumption, Zenon DEF StoreWfired, Go, Types, Local,
       Shape, Fresh, SyncShape, AsyncShape, PageShape, PcOf, Once, WorkHolds, One,
       Reqs, entry, offv, None
  <1>7. \A q \in Reqs \ {r} : CallOf(q)' = CallOf(q)
    BY <1>0, Zenon DEF StoreWfired, Go, Types, CallOf, entry, offv, None
  <1>8. May(CallOf(r), CallOf(r)')
    BY <1>0, <1>3, KindAssumption, ZenonT(30) DEF StoreWfired, Go, Types, Local,
       Shape, Fresh, SyncShape, AsyncShape, PageShape, PcOf, Once, WorkHolds, One,
       Reqs, CallOf, May, Promise!Outcomes, Outs, entry, offv, None
  <1> QED
    BY <1>1, <1>2, <1>4, <1>5, <1>6, <1>7, <1>8, OneRequest, OneCall, Zenon DEF
       Local

(* The step DecProcess of a request. *)
LEMMA DecProcessStep ==
  ASSUME MInv, NEW r \in Reqs, DecProcess(r)
  PROVE  MInv' /\ [Promise!Next]_Call
  <1>0. Types /\ Walk
    BY Zenon DEF MInv
  <1>1. Types' /\ Walk'
    <2>1. Types'
      BY <1>0, KindAssumption DEF DecProcess, Go, Return, Types, Pcs, Outs, Resps,
             YesNo, entry, offv, None
    <2>2. Walk'
      BY <1>0, KindAssumption, Zenon DEF DecProcess, Go, Return, Types, Walk,
         Reqs, entry, offv, None
    <2> QED BY <2>1, <2>2
  <1>2. \A q \in Reqs \ {r} : Same(q)
    BY <1>0, ZenonT(30) DEF DecProcess, Go, Return, Types, Same, entry, offv,
       None
  <1>3. Local(r)
    BY Zenon DEF MInv
  <1>4. Shape(r)'
    BY <1>0, <1>3, KindAssumption DEF DecProcess, Go, Return, Types, Local, Shape,
           Fresh, SyncShape, AsyncShape, PageShape, PcOf, Reqs, YesNo, entry, offv,
           None
  <1>5. Count(r)'
    BY <1>0, <1>3, KindAssumption DEF DecProcess, Go, Return, Types, Local, Shape,
           Fresh, SyncShape, AsyncShape, PageShape, PcOf, Count, RequesterHolds,
           WorkHolds, RecvBusy, One, Reqs, entry, offv, None
  <1>6. Once(r)'
    BY <1>0, <1>3, KindAssumption, Zenon DEF DecProcess, Go, Return, Types,
       Local, Shape, Fresh, SyncShape, AsyncShape, PageShape, PcOf, Once,
       WorkHolds, One, Reqs, entry, offv, None
  <1>7. \A q \in Reqs \ {r} : CallOf(q)' = CallOf(q)
    BY <1>0 DEF DecProcess, Go, Return, Types, CallOf, entry, offv, None
  <1>8. May(CallOf(r), CallOf(r)')
    BY <1>0, <1>3, KindAssumption, Zenon DEF DecProcess, Go, Return, Types,
       Local, Shape, Fresh, SyncShape, AsyncShape, PageShape, PcOf, Once,
       WorkHolds, One, Reqs, CallOf, May, Promise!Outcomes, Outs, entry, offv, None
  <1> QED
    BY <1>1, <1>2, <1>4, <1>5, <1>6, <1>7, <1>8, OneRequest, OneCall, Zenon DEF
       Local

(* The step PutAfterSend of a request. *)
LEMMA PutAfterSendStep ==
  ASSUME MInv, NEW r \in Reqs, PutAfterSend(r)
  PROVE  MInv' /\ [Promise!Next]_Call
  <1>0. Types /\ Walk
    BY Zenon DEF MInv
  <1>1. Types' /\ Walk'
    <2>1. Types'
      BY <1>0, KindAssumption DEF PutAfterSend, Go, put, PutN, Types, Pcs, Outs, Resps,
             YesNo, entry, offv, None
    <2>2. Walk'
      BY <1>0, KindAssumption, Zenon DEF PutAfterSend, Go, put, PutN, Types,
         Walk, Reqs, entry, offv, None
    <2> QED BY <2>1, <2>2
  <1>2. \A q \in Reqs \ {r} : Same(q)
    BY <1>0, Zenon DEF PutAfterSend, Go, put, PutN, Types, Same, entry, offv,
       None
  <1>3. Local(r)
    BY Zenon DEF MInv
  <1>4. Shape(r)'
    BY <1>0, <1>3, KindAssumption, Zenon DEF PutAfterSend, Go, put, PutN, Types,
       Local, Shape, Fresh, SyncShape, AsyncShape, PageShape, PcOf, Reqs, YesNo,
       entry, offv, None
  <1>5. Count(r)'
    <2>1. /\ RequesterHolds(r) /\ ~RequesterHolds(r)'
          /\ WorkHolds(r)' <=> WorkHolds(r)
          /\ RecvBusy(r)' <=> RecvBusy(r)
      BY <1>0, <1>3, KindAssumption, Zenon DEF PutAfterSend, Go, RecvBusy,
         RequesterHolds, WorkHolds, Types, Local, Shape, Fresh, SyncShape,
         AsyncShape, PageShape, PcOf, Reqs, entry, offv, None
    <2> QED
      BY <1>0, <1>3, <2>1 DEF PutAfterSend, put, PutN, Local, Count, One, Types, entry,
             offv
  <1>6. Once(r)'
    BY <1>0, <1>3, KindAssumption, Zenon DEF PutAfterSend, Go, put, PutN, Types,
       Local, Shape, Fresh, SyncShape, AsyncShape, PageShape, PcOf, Once,
       WorkHolds, One, Reqs, entry, offv, None
  <1>7. \A q \in Reqs \ {r} : CallOf(q)' = CallOf(q)
    BY <1>0, Zenon DEF PutAfterSend, Go, put, PutN, Types, CallOf, entry, offv,
       None
  <1>8. May(CallOf(r), CallOf(r)')
    BY <1>0, <1>3, KindAssumption, Zenon DEF PutAfterSend, Go, put, PutN, Types,
       Local, Shape, Fresh, SyncShape, AsyncShape, PageShape, PcOf, Once,
       WorkHolds, One, Reqs, CallOf, May, Promise!Outcomes, Outs, entry, offv, None
  <1> QED
    BY <1>1, <1>2, <1>4, <1>5, <1>6, <1>7, <1>8, OneRequest, OneCall, Zenon DEF
       Local

(* The step CancelPage of a request. *)
LEMMA CancelPageStep ==
  ASSUME MInv, NEW r \in Reqs, CancelPage(r)
  PROVE  MInv' /\ [Promise!Next]_Call
  <1>0. Types /\ Walk
    BY Zenon DEF MInv
  <1>1. Types' /\ Walk'
    <2>1. Types'
      BY <1>0, KindAssumption DEF CancelPage, Go, put, PutN, Pending, Types, Pcs, Outs,
             Resps, YesNo, entry, offv, None
    <2>2. Walk'
      BY <1>0, KindAssumption, Zenon DEF CancelPage, Go, put, PutN, Pending,
         Types, Walk, Reqs, entry, offv, None
    <2> QED BY <2>1, <2>2
  <1>2. \A q \in Reqs \ {r} : Same(q)
    BY <1>0, ZenonT(30) DEF CancelPage, Go, put, PutN, Pending, Types, Same,
       entry, offv, None
  <1>3. Local(r)
    BY Zenon DEF MInv
  <1>4. Shape(r)'
    BY <1>0, <1>3, KindAssumption, Zenon DEF CancelPage, Go, put, PutN, Pending,
       Types, Local, Shape, Fresh, SyncShape, AsyncShape, PageShape, PcOf, Reqs,
       YesNo, entry, offv, None
  <1>5. Count(r)'
    BY <1>0, <1>3, KindAssumption DEF CancelPage, Go, put, PutN, Pending, Types, Local,
           Shape, Fresh, SyncShape, AsyncShape, PageShape, PcOf, Count, RequesterHolds,
           WorkHolds, RecvBusy, One, Reqs, entry, offv, None
  <1>6. Once(r)'
    BY <1>0, <1>3, KindAssumption DEF CancelPage, Go, put, PutN, Pending, Types, Local,
           Shape, Fresh, SyncShape, AsyncShape, PageShape, PcOf, Once, WorkHolds, One,
           Reqs, entry, offv, None
  <1>7. \A q \in Reqs \ {r} : CallOf(q)' = CallOf(q)
    BY <1>0, Zenon DEF CancelPage, Go, put, PutN, Pending, Types, CallOf, entry,
       offv, None
  <1>8. May(CallOf(r), CallOf(r)')
    BY <1>0, <1>3, KindAssumption DEF CancelPage, Go, put, PutN, Pending, Types, Local,
           Shape, Fresh, SyncShape, AsyncShape, PageShape, PcOf, Once, WorkHolds, One,
           Reqs, CallOf, May, Promise!Outcomes, Outs, entry, offv, None
  <1> QED
    BY <1>1, <1>2, <1>4, <1>5, <1>6, <1>7, <1>8, OneRequest, OneCall, Zenon DEF
       Local

(* The step WaitAnswered of a request. *)
LEMMA WaitAnsweredStep ==
  ASSUME MInv, NEW r \in Reqs, WaitAnswered(r)
  PROVE  MInv' /\ [Promise!Next]_Call
  <1>0. Types /\ Walk
    BY Zenon DEF MInv
  <1>1. Types' /\ Walk'
    <2>1. Types'
      BY <1>0, KindAssumption, Zenon DEF WaitAnswered, Go, Types, Pcs, Outs,
         Resps, YesNo, entry, offv, None
    <2>2. Walk'
      BY <1>0, KindAssumption, Zenon DEF WaitAnswered, Go, Types, Walk, Reqs,
         entry, offv, None
    <2> QED BY <2>1, <2>2
  <1>2. \A q \in Reqs \ {r} : Same(q)
    BY <1>0, Zenon DEF WaitAnswered, Go, Types, Same, entry, offv, None
  <1>3. Local(r)
    BY Zenon DEF MInv
  <1>4. Shape(r)'
    BY <1>0, <1>3, KindAssumption, Zenon DEF WaitAnswered, Go, Types, Local,
       Shape, Fresh, SyncShape, AsyncShape, PageShape, PcOf, Reqs, YesNo, entry,
       offv, None
  <1>5. Count(r)'
    BY <1>0, <1>3, KindAssumption, Zenon DEF WaitAnswered, Go, Types, Local,
       Shape, Fresh, SyncShape, AsyncShape, PageShape, PcOf, Count, RequesterHolds,
       WorkHolds, RecvBusy, One, Reqs, entry, offv, None
  <1>6. Once(r)'
    BY <1>0, <1>3, KindAssumption, Zenon DEF WaitAnswered, Go, Types, Local,
       Shape, Fresh, SyncShape, AsyncShape, PageShape, PcOf, Once, WorkHolds, One,
       Reqs, entry, offv, None
  <1>7. \A q \in Reqs \ {r} : CallOf(q)' = CallOf(q)
    BY <1>0, Zenon DEF WaitAnswered, Go, Types, CallOf, entry, offv, None
  <1>8. May(CallOf(r), CallOf(r)')
    BY <1>0, <1>3, KindAssumption, ZenonT(30) DEF WaitAnswered, Go, Types,
       Local, Shape, Fresh, SyncShape, AsyncShape, PageShape, PcOf, Once,
       WorkHolds, One, Reqs, CallOf, May, Promise!Outcomes, Outs, entry, offv, None
  <1> QED
    BY <1>1, <1>2, <1>4, <1>5, <1>6, <1>7, <1>8, OneRequest, OneCall, Zenon DEF
       Local

(* The step TakeRet of a request. *)
LEMMA TakeRetStep ==
  ASSUME MInv, NEW r \in Reqs, TakeRet(r)
  PROVE  MInv' /\ [Promise!Next]_Call
  <1>0. Types /\ Walk
    BY Zenon DEF MInv
  <1>1. Types' /\ Walk'
    <2>1. Types'
      BY <1>0, KindAssumption, Zenon DEF TakeRet, Go, Types, Pcs, Outs, Resps,
         YesNo, entry, offv, None
    <2>2. Walk'
      BY <1>0, KindAssumption, Zenon DEF TakeRet, Go, Types, Walk, Reqs, entry,
         offv, None
    <2> QED BY <2>1, <2>2
  <1>2. \A q \in Reqs \ {r} : Same(q)
    BY <1>0, Zenon DEF TakeRet, Go, Types, Same, entry, offv, None
  <1>3. Local(r)
    BY Zenon DEF MInv
  <1>4. Shape(r)'
    BY <1>0, <1>3, KindAssumption, Zenon DEF TakeRet, Go, Types, Local, Shape,
       Fresh, SyncShape, AsyncShape, PageShape, PcOf, Reqs, YesNo, entry, offv,
       None
  <1>5. Count(r)'
    BY <1>0, <1>3, KindAssumption, Zenon DEF TakeRet, Go, Types, Local, Shape,
       Fresh, SyncShape, AsyncShape, PageShape, PcOf, Count, RequesterHolds,
       WorkHolds, RecvBusy, One, Reqs, entry, offv, None
  <1>6. Once(r)'
    BY <1>0, <1>3, KindAssumption, Zenon DEF TakeRet, Go, Types, Local, Shape,
       Fresh, SyncShape, AsyncShape, PageShape, PcOf, Once, WorkHolds, One, Reqs,
       entry, offv, None
  <1>7. \A q \in Reqs \ {r} : CallOf(q)' = CallOf(q)
    BY <1>0, Zenon DEF TakeRet, Go, Types, CallOf, entry, offv, None
  <1>8. May(CallOf(r), CallOf(r)')
    BY <1>0, <1>3, KindAssumption, ZenonT(30) DEF TakeRet, Go, Types, Local,
       Shape, Fresh, SyncShape, AsyncShape, PageShape, PcOf, Once, WorkHolds, One,
       Reqs, CallOf, May, Promise!Outcomes, Outs, entry, offv, None
  <1> QED
    BY <1>1, <1>2, <1>4, <1>5, <1>6, <1>7, <1>8, OneRequest, OneCall, Zenon DEF
       Local

(* The step WaitTimeout of a request. *)
LEMMA WaitTimeoutStep ==
  ASSUME MInv, NEW r \in Reqs, WaitTimeout(r)
  PROVE  MInv' /\ [Promise!Next]_Call
  <1>0. Types /\ Walk
    BY Zenon DEF MInv
  <1>1. Types' /\ Walk'
    <2>1. Types'
      BY <1>0, KindAssumption, Zenon DEF WaitTimeout, Go, Types, Pcs, Outs,
         Resps, YesNo, entry, offv, None
    <2>2. Walk'
      BY <1>0, KindAssumption, Zenon DEF WaitTimeout, Go, Types, Walk, Reqs,
         entry, offv, None
    <2> QED BY <2>1, <2>2
  <1>2. \A q \in Reqs \ {r} : Same(q)
    BY <1>0, Zenon DEF WaitTimeout, Go, Types, Same, entry, offv, None
  <1>3. Local(r)
    BY Zenon DEF MInv
  <1>4. Shape(r)'
    BY <1>0, <1>3, KindAssumption, Zenon DEF WaitTimeout, Go, Types, Local,
       Shape, Fresh, SyncShape, AsyncShape, PageShape, PcOf, Reqs, YesNo, entry,
       offv, None
  <1>5. Count(r)'
    BY <1>0, <1>3, KindAssumption, Zenon DEF WaitTimeout, Go, Types, Local,
       Shape, Fresh, SyncShape, AsyncShape, PageShape, PcOf, Count, RequesterHolds,
       WorkHolds, RecvBusy, One, Reqs, entry, offv, None
  <1>6. Once(r)'
    BY <1>0, <1>3, KindAssumption, Zenon DEF WaitTimeout, Go, Types, Local,
       Shape, Fresh, SyncShape, AsyncShape, PageShape, PcOf, Once, WorkHolds, One,
       Reqs, entry, offv, None
  <1>7. \A q \in Reqs \ {r} : CallOf(q)' = CallOf(q)
    BY <1>0, Zenon DEF WaitTimeout, Go, Types, CallOf, entry, offv, None
  <1>8. May(CallOf(r), CallOf(r)')
    BY <1>0, <1>3, KindAssumption, ZenonT(30) DEF WaitTimeout, Go, Types, Local,
       Shape, Fresh, SyncShape, AsyncShape, PageShape, PcOf, Once, WorkHolds, One,
       Reqs, CallOf, May, Promise!Outcomes, Outs, entry, offv, None
  <1> QED
    BY <1>1, <1>2, <1>4, <1>5, <1>6, <1>7, <1>8, OneRequest, OneCall, Zenon DEF
       Local

(* The step PutAfterWait of a request. *)
LEMMA PutAfterWaitStep ==
  ASSUME MInv, NEW r \in Reqs, PutAfterWait(r)
  PROVE  MInv' /\ [Promise!Next]_Call
  <1>0. Types /\ Walk
    BY Zenon DEF MInv
  <1>1. Types' /\ Walk'
    <2>1. Types'
      BY <1>0, KindAssumption DEF PutAfterWait, Go, put, PutN, Types, Pcs, Outs, Resps,
             YesNo, entry, offv, None
    <2>2. Walk'
      BY <1>0, KindAssumption, Zenon DEF PutAfterWait, Go, put, PutN, Types,
         Walk, Reqs, entry, offv, None
    <2> QED BY <2>1, <2>2
  <1>2. \A q \in Reqs \ {r} : Same(q)
    BY <1>0, Zenon DEF PutAfterWait, Go, put, PutN, Types, Same, entry, offv,
       None
  <1>3. Local(r)
    BY Zenon DEF MInv
  <1>4. Shape(r)'
    BY <1>0, <1>3, KindAssumption, Zenon DEF PutAfterWait, Go, put, PutN, Types,
       Local, Shape, Fresh, SyncShape, AsyncShape, PageShape, PcOf, Reqs, YesNo,
       entry, offv, None
  <1>5. Count(r)'
    <2>1. /\ RequesterHolds(r) /\ ~RequesterHolds(r)'
          /\ WorkHolds(r)' <=> WorkHolds(r)
          /\ RecvBusy(r)' <=> RecvBusy(r)
      BY <1>0, <1>3, KindAssumption, Zenon DEF PutAfterWait, Go, RecvBusy,
         RequesterHolds, WorkHolds, Types, Local, Shape, Fresh, SyncShape,
         AsyncShape, PageShape, PcOf, Reqs, entry, offv, None
    <2> QED
      BY <1>0, <1>3, <2>1 DEF PutAfterWait, put, PutN, Local, Count, One, Types, entry,
             offv
  <1>6. Once(r)'
    BY <1>0, <1>3, KindAssumption, Zenon DEF PutAfterWait, Go, put, PutN, Types,
       Local, Shape, Fresh, SyncShape, AsyncShape, PageShape, PcOf, Once,
       WorkHolds, One, Reqs, entry, offv, None
  <1>7. \A q \in Reqs \ {r} : CallOf(q)' = CallOf(q)
    BY <1>0, Zenon DEF PutAfterWait, Go, put, PutN, Types, CallOf, entry, offv,
       None
  <1>8. May(CallOf(r), CallOf(r)')
    BY <1>0, <1>3, KindAssumption, ZenonT(30) DEF PutAfterWait, Go, put, PutN,
       Types, Local, Shape, Fresh, SyncShape, AsyncShape, PageShape, PcOf, Once,
       WorkHolds, One, Reqs, CallOf, May, Promise!Outcomes, Outs, entry, offv, None
  <1> QED
    BY <1>1, <1>2, <1>4, <1>5, <1>6, <1>7, <1>8, OneRequest, OneCall, Zenon DEF
       Local

(* The step StartWork of a request. *)
LEMMA StartWorkStep ==
  ASSUME MInv, NEW r \in Reqs, StartWork(r)
  PROVE  MInv' /\ [Promise!Next]_Call
  <1>0. Types /\ Walk
    BY Zenon DEF MInv
  <1>1. Types' /\ Walk'
    <2>1. Types'
      BY <1>0, KindAssumption, Zenon DEF StartWork, Pending, Types, Pcs, Outs,
         Resps, YesNo, entry, offv, None
    <2>2. Walk'
      BY <1>0, KindAssumption, Zenon DEF StartWork, Pending, Types, Walk, Reqs,
         entry, offv, None
    <2> QED BY <2>1, <2>2
  <1>2. \A q \in Reqs \ {r} : Same(q)
    BY <1>0, Zenon DEF StartWork, Pending, Types, Same, entry, offv, None
  <1>3. Local(r)
    BY Zenon DEF MInv
  <1>4. Shape(r)'
    BY <1>0, <1>3, KindAssumption, Zenon DEF StartWork, Pending, Types, Local,
       Shape, Fresh, SyncShape, AsyncShape, PageShape, PcOf, Reqs, YesNo, entry,
       offv, None
  <1>5. Count(r)'
    BY <1>0, <1>3, KindAssumption, Zenon DEF StartWork, Pending, Types, Local,
       Shape, Fresh, SyncShape, AsyncShape, PageShape, PcOf, Count, RequesterHolds,
       WorkHolds, RecvBusy, One, Reqs, entry, offv, None
  <1>6. Once(r)'
    BY <1>0, <1>3, KindAssumption, Zenon DEF StartWork, Pending, Types, Local,
       Shape, Fresh, SyncShape, AsyncShape, PageShape, PcOf, Once, WorkHolds, One,
       Reqs, entry, offv, None
  <1>7. \A q \in Reqs \ {r} : CallOf(q)' = CallOf(q)
    BY <1>0, Zenon DEF StartWork, Pending, Types, CallOf, entry, offv, None
  <1>8. May(CallOf(r), CallOf(r)')
    BY <1>0, <1>3, KindAssumption, ZenonT(30) DEF StartWork, Pending, Types,
       Local, Shape, Fresh, SyncShape, AsyncShape, PageShape, PcOf, Once,
       WorkHolds, One, Reqs, CallOf, May, Promise!Outcomes, Outs, entry, offv, None
  <1> QED
    BY <1>1, <1>2, <1>4, <1>5, <1>6, <1>7, <1>8, OneRequest, OneCall, Zenon DEF
       Local

(* The step RunWork of a request. *)
LEMMA RunWorkStep ==
  ASSUME MInv, NEW r \in Reqs, RunWork(r)
  PROVE  MInv' /\ [Promise!Next]_Call
  <1>0. Types /\ Walk
    BY Zenon DEF MInv
  <1>1. Types' /\ Walk'
    <2>1. Types'
      BY <1>0, KindAssumption DEF RunWork, Finish, PutN, Types, Pcs, Outs, Resps,
             YesNo, entry, offv, None
    <2>2. Walk'
      BY <1>0, KindAssumption, Zenon DEF RunWork, Finish, PutN, Types, Walk,
         Reqs, entry, offv, None
    <2> QED BY <2>1, <2>2
  <1>2. \A q \in Reqs \ {r} : Same(q)
    BY <1>0, Zenon DEF RunWork, Finish, PutN, Types, Same, entry, offv, None
  <1>3. Local(r)
    BY Zenon DEF MInv
  <1>4. Shape(r)'
    BY <1>0, <1>3, KindAssumption, Zenon DEF RunWork, Finish, PutN, Types,
       Local, Shape, Fresh, SyncShape, AsyncShape, PageShape, PcOf, Reqs, YesNo,
       entry, offv, None
  <1>5. Count(r)'
    <2>1. /\ RequesterHolds(r)' <=> RequesterHolds(r)
          /\ WorkHolds(r) /\ ~WorkHolds(r)'
          /\ RecvBusy(r)' <=> RecvBusy(r)
      BY <1>0, <1>3, KindAssumption, Zenon DEF RunWork, Finish, RecvBusy,
         RequesterHolds, WorkHolds, Types, Local, Shape, Fresh, SyncShape,
         AsyncShape, PageShape, PcOf, Reqs, entry, offv, None
    <2> QED
      BY <1>0, <1>3, <2>1 DEF RunWork, Finish, PutN, Local, Count, One, Types, entry,
             offv
  <1>6. Once(r)'
    BY <1>0, <1>3, KindAssumption DEF RunWork, Finish, PutN, Types, Local, Shape,
           Fresh, SyncShape, AsyncShape, PageShape, PcOf, Once, WorkHolds, One, Reqs,
           entry, offv, None
  <1>7. \A q \in Reqs \ {r} : CallOf(q)' = CallOf(q)
    BY <1>0, Zenon DEF RunWork, Finish, PutN, Types, CallOf, entry, offv, None
  <1>8. May(CallOf(r), CallOf(r)')
    BY <1>0, <1>3, KindAssumption DEF RunWork, Finish, PutN, Types, Local, Shape,
           Fresh, SyncShape, AsyncShape, PageShape, PcOf, Once, WorkHolds, One, Reqs,
           CallOf, May, Promise!Outcomes, Outs, entry, offv, None
  <1> QED
    BY <1>1, <1>2, <1>4, <1>5, <1>6, <1>7, <1>8, OneRequest, OneCall, Zenon DEF
       Local

(* The step hmdfs_find_msg_head of a request. *)
LEMMA Hmdfs_find_msg_headStep ==
  ASSUME MInv, NEW r \in Reqs, hmdfs_find_msg_head(r)
  PROVE  MInv' /\ [Promise!Next]_Call
  <1>0. Types /\ Walk
    BY Zenon DEF MInv
  <1>1. Types' /\ Walk'
    <2>1. Types'
      BY <1>0, KindAssumption DEF hmdfs_find_msg_head, Recv, Types, Pcs, Outs, Resps,
             YesNo, entry, offv, None
    <2>2. Walk'
      BY <1>0, KindAssumption, Zenon DEF hmdfs_find_msg_head, Recv, Types, Walk,
         Reqs, entry, offv, None
    <2> QED BY <2>1, <2>2
  <1>2. \A q \in Reqs \ {r} : Same(q)
    BY <1>0, ZenonT(30) DEF hmdfs_find_msg_head, Recv, Types, Same, entry, offv,
       None
  <1>3. Local(r)
    BY Zenon DEF MInv
  <1>4. Shape(r)'
    BY <1>0, <1>3, KindAssumption, Zenon DEF hmdfs_find_msg_head, Recv, Types,
       Local, Shape, Fresh, SyncShape, AsyncShape, PageShape, PcOf, Reqs, YesNo,
       entry, offv, None
  <1>5. Count(r)'
    <2>1. /\ RequesterHolds(r)' <=> RequesterHolds(r)
          /\ WorkHolds(r)' <=> WorkHolds(r)
          /\ ~RecvBusy(r) /\ (RecvBusy(r)' <=> r \in idr)
      BY <1>0, <1>3, KindAssumption, ZenonT(30) DEF hmdfs_find_msg_head, Recv,
         RecvBusy, RequesterHolds, WorkHolds, Types, Local, Shape, Fresh,
         SyncShape, AsyncShape, PageShape, PcOf, Reqs, entry, offv, None
    <2> QED
      BY <1>0, <1>3, <2>1 DEF hmdfs_find_msg_head, Recv, Local, Count, One, Types,
             entry, offv
  <1>6. Once(r)'
    BY <1>0, <1>3, KindAssumption, Zenon DEF hmdfs_find_msg_head, Recv, Types,
       Local, Shape, Fresh, SyncShape, AsyncShape, PageShape, PcOf, Once,
       WorkHolds, One, Reqs, entry, offv, None
  <1>7. \A q \in Reqs \ {r} : CallOf(q)' = CallOf(q)
    BY <1>0, Zenon DEF hmdfs_find_msg_head, Recv, Types, CallOf, entry, offv,
       None
  <1>8. May(CallOf(r), CallOf(r)')
    BY <1>0, <1>3, KindAssumption, ZenonT(30) DEF hmdfs_find_msg_head, Recv,
       Types, Local, Shape, Fresh, SyncShape, AsyncShape, PageShape, PcOf, Once,
       WorkHolds, One, Reqs, CallOf, May, Promise!Outcomes, Outs, entry, offv, None
  <1> QED
    BY <1>1, <1>2, <1>4, <1>5, <1>6, <1>7, <1>8, OneRequest, OneCall, Zenon DEF
       Local

(* The step CheckValid of a request. *)
LEMMA CheckValidStep ==
  ASSUME MInv, NEW r \in Reqs, CheckValid(r)
  PROVE  MInv' /\ [Promise!Next]_Call
  <1>0. Types /\ Walk
    BY Zenon DEF MInv
  <1>1. Types' /\ Walk'
    <2>1. Types'
      BY <1>0, KindAssumption, ZenonT(30) DEF CheckValid, Recv, Types, Pcs,
         Outs, Resps, YesNo, entry, offv, None
    <2>2. Walk'
      BY <1>0, KindAssumption, Zenon DEF CheckValid, Recv, Types, Walk, Reqs,
         entry, offv, None
    <2> QED BY <2>1, <2>2
  <1>2. \A q \in Reqs \ {r} : Same(q)
    BY <1>0, ZenonT(30) DEF CheckValid, Recv, Types, Same, entry, offv, None
  <1>3. Local(r)
    BY Zenon DEF MInv
  <1>4. Shape(r)'
    BY <1>0, <1>3, KindAssumption, Zenon DEF CheckValid, Recv, Types, Local,
       Shape, Fresh, SyncShape, AsyncShape, PageShape, PcOf, Reqs, YesNo, entry,
       offv, None
  <1>5. Count(r)'
    BY <1>0, <1>3, KindAssumption, Zenon DEF CheckValid, Recv, Types, Local,
       Shape, Fresh, SyncShape, AsyncShape, PageShape, PcOf, Count, RequesterHolds,
       WorkHolds, RecvBusy, One, Reqs, entry, offv, None
  <1>6. Once(r)'
    BY <1>0, <1>3, KindAssumption, Zenon DEF CheckValid, Recv, Types, Local,
       Shape, Fresh, SyncShape, AsyncShape, PageShape, PcOf, Once, WorkHolds, One,
       Reqs, entry, offv, None
  <1>7. \A q \in Reqs \ {r} : CallOf(q)' = CallOf(q)
    BY <1>0, Zenon DEF CheckValid, Recv, Types, CallOf, entry, offv, None
  <1>8. May(CallOf(r), CallOf(r)')
    BY <1>0, <1>3, KindAssumption, ZenonT(30) DEF CheckValid, Recv, Types,
       Local, Shape, Fresh, SyncShape, AsyncShape, PageShape, PcOf, Once,
       WorkHolds, One, Reqs, CallOf, May, Promise!Outcomes, Outs, entry, offv, None
  <1> QED
    BY <1>1, <1>2, <1>4, <1>5, <1>6, <1>7, <1>8, OneRequest, OneCall, Zenon DEF
       Local

(* The step RecvWakes of a request. *)
LEMMA RecvWakesStep ==
  ASSUME MInv, NEW r \in Reqs, RecvWakes(r)
  PROVE  MInv' /\ [Promise!Next]_Call
  <1>0. Types /\ Walk
    BY Zenon DEF MInv
  <1>1. Types' /\ Walk'
    <2>1. Types'
      BY <1>0, KindAssumption DEF RecvWakes, Recv, WakeupRet, WakeupBuf, Types, Pcs,
             Outs, Resps, YesNo, entry, offv, None
    <2>2. Walk'
      BY <1>0, KindAssumption, Zenon DEF RecvWakes, Recv, WakeupRet, WakeupBuf,
         Types, Walk, Reqs, entry, offv, None
    <2> QED BY <2>1, <2>2
  <1>2. \A q \in Reqs \ {r} : Same(q)
    BY <1>0 DEF RecvWakes, Recv, WakeupRet, WakeupBuf, Types, Same, entry, offv, None
  <1>3. Local(r)
    BY Zenon DEF MInv
  <1>4. Shape(r)'
    <2>1. CASE resp[r] = "wake"
      BY <2>1, <1>0, <1>3, KindAssumption, Zenon DEF RecvWakes, Recv, WakeupRet,
         Types, Local, Shape, Fresh, SyncShape, AsyncShape, PageShape, PcOf, Reqs,
         entry, offv, None
    <2>2. CASE resp[r] = "wake_buf"
      BY <2>2, <1>0, <1>3, KindAssumption, Zenon DEF RecvWakes, Recv, WakeupBuf,
         Types, Local, Shape, Fresh, SyncShape, AsyncShape, PageShape, PcOf, Reqs,
         entry, offv, None
    <2> QED
      BY <2>1, <2>2, Zenon DEF RecvWakes
  <1>5. Count(r)'
    BY <1>0, <1>3, KindAssumption, Zenon DEF RecvWakes, Recv, WakeupRet,
       WakeupBuf, Types, Local, Shape, Fresh, SyncShape, AsyncShape, PageShape,
       PcOf, Count, RequesterHolds, WorkHolds, RecvBusy, One, Reqs, entry, offv,
       None
  <1>6. Once(r)'
    BY <1>0, <1>3, KindAssumption, Zenon DEF RecvWakes, Recv, WakeupRet,
       WakeupBuf, Types, Local, Shape, Fresh, SyncShape, AsyncShape, PageShape,
       PcOf, Once, WorkHolds, One, Reqs, entry, offv, None
  <1>7. \A q \in Reqs \ {r} : CallOf(q)' = CallOf(q)
    BY <1>0, Zenon DEF RecvWakes, Recv, WakeupRet, WakeupBuf, Types, CallOf,
       entry, offv, None
  <1>8. May(CallOf(r), CallOf(r)')
    BY <1>0, <1>3, KindAssumption, ZenonT(30) DEF RecvWakes, Recv, WakeupRet,
       WakeupBuf, Types, Local, Shape, Fresh, SyncShape, AsyncShape, PageShape,
       PcOf, Once, WorkHolds, One, Reqs, CallOf, May, Promise!Outcomes, Outs,
       entry, offv, None
  <1> QED
    BY <1>1, <1>2, <1>4, <1>5, <1>6, <1>7, <1>8, OneRequest, OneCall, Zenon DEF
       Local

(* The step RecvCancels of a request. *)
LEMMA RecvCancelsStep ==
  ASSUME MInv, NEW r \in Reqs, RecvCancels(r)
  PROVE  MInv' /\ [Promise!Next]_Call
  <1>0. Types /\ Walk
    BY Zenon DEF MInv
  <1>1. Types' /\ Walk'
    <2>1. Types'
      BY <1>0, KindAssumption DEF RecvCancels, Recv, Pending, Types, Pcs, Outs, Resps,
             YesNo, entry, offv, None
    <2>2. Walk'
      BY <1>0, KindAssumption, Zenon DEF RecvCancels, Recv, Pending, Types,
         Walk, Reqs, entry, offv, None
    <2> QED BY <2>1, <2>2
  <1>2. \A q \in Reqs \ {r} : Same(q)
    BY <1>0 DEF RecvCancels, Recv, Pending, Types, Same, entry, offv, None
  <1>3. Local(r)
    BY Zenon DEF MInv
  <1>4. Shape(r)'
    BY <1>0, <1>3, KindAssumption, ZenonT(30) DEF RecvCancels, Recv, Pending,
       Types, Local, Shape, Fresh, SyncShape, AsyncShape, PageShape, PcOf, Reqs,
       YesNo, entry, offv, None
  <1>5. Count(r)'
    BY <1>0, <1>3, KindAssumption, Zenon DEF RecvCancels, Recv, Pending, Types,
       Local, Shape, Fresh, SyncShape, AsyncShape, PageShape, PcOf, Count,
       RequesterHolds, WorkHolds, RecvBusy, One, Reqs, entry, offv, None
  <1>6. Once(r)'
    BY <1>0, <1>3, KindAssumption, Zenon DEF RecvCancels, Recv, Pending, Types,
       Local, Shape, Fresh, SyncShape, AsyncShape, PageShape, PcOf, Once,
       WorkHolds, One, Reqs, entry, offv, None
  <1>7. \A q \in Reqs \ {r} : CallOf(q)' = CallOf(q)
    BY <1>0, Zenon DEF RecvCancels, Recv, Pending, Types, CallOf, entry, offv,
       None
  <1>8. May(CallOf(r), CallOf(r)')
    BY <1>0, <1>3, KindAssumption, ZenonT(30) DEF RecvCancels, Recv, Pending,
       Types, Local, Shape, Fresh, SyncShape, AsyncShape, PageShape, PcOf, Once,
       WorkHolds, One, Reqs, CallOf, May, Promise!Outcomes, Outs, entry, offv, None
  <1> QED
    BY <1>1, <1>2, <1>4, <1>5, <1>6, <1>7, <1>8, OneRequest, OneCall, Zenon DEF
       Local

(* The step RecvRequeues of a request. *)
LEMMA RecvRequeuesStep ==
  ASSUME MInv, NEW r \in Reqs, RecvRequeues(r)
  PROVE  MInv' /\ [Promise!Next]_Call
  <1>0. Types /\ Walk
    BY Zenon DEF MInv
  <1>1. Types' /\ Walk'
    <2>1. Types'
      BY <1>0, KindAssumption, Zenon DEF RecvRequeues, Recv, Types, Pcs, Outs,
         Resps, YesNo, entry, offv, None
    <2>2. Walk'
      BY <1>0, KindAssumption, Zenon DEF RecvRequeues, Recv, Types, Walk, Reqs,
         entry, offv, None
    <2> QED BY <2>1, <2>2
  <1>2. \A q \in Reqs \ {r} : Same(q)
    BY <1>0, Zenon DEF RecvRequeues, Recv, Types, Same, entry, offv, None
  <1>3. Local(r)
    BY Zenon DEF MInv
  <1>4. Shape(r)'
    BY <1>0, <1>3, KindAssumption, Zenon DEF RecvRequeues, Recv, Types, Local,
       Shape, Fresh, SyncShape, AsyncShape, PageShape, PcOf, Reqs, YesNo, entry,
       offv, None
  <1>5. Count(r)'
    BY <1>0, <1>3, KindAssumption, Zenon DEF RecvRequeues, Recv, Types, Local,
       Shape, Fresh, SyncShape, AsyncShape, PageShape, PcOf, Count, RequesterHolds,
       WorkHolds, RecvBusy, One, Reqs, entry, offv, None
  <1>6. Once(r)'
    BY <1>0, <1>3, KindAssumption, Zenon DEF RecvRequeues, Recv, Types, Local,
       Shape, Fresh, SyncShape, AsyncShape, PageShape, PcOf, Once, WorkHolds, One,
       Reqs, entry, offv, None
  <1>7. \A q \in Reqs \ {r} : CallOf(q)' = CallOf(q)
    BY <1>0, Zenon DEF RecvRequeues, Recv, Types, CallOf, entry, offv, None
  <1>8. May(CallOf(r), CallOf(r)')
    BY <1>0, <1>3, KindAssumption DEF RecvRequeues, Recv, Types, Local, Shape, Fresh,
           SyncShape, AsyncShape, PageShape, PcOf, Once, WorkHolds, One, Reqs, CallOf,
           May, Promise!Outcomes, Outs, entry, offv, None
  <1> QED
    BY <1>1, <1>2, <1>4, <1>5, <1>6, <1>7, <1>8, OneRequest, OneCall, Zenon DEF
       Local

(* The step RecvFillsPage of a request. *)
LEMMA RecvFillsPageStep ==
  ASSUME MInv, NEW r \in Reqs, RecvFillsPage(r)
  PROVE  MInv' /\ [Promise!Next]_Call
  <1>0. Types /\ Walk
    BY Zenon DEF MInv
  <1>1. Types' /\ Walk'
    <2>1. Types'
      BY <1>0, KindAssumption DEF RecvFillsPage, Recv, Types, Pcs, Outs, Resps, YesNo,
             entry, offv, None
    <2>2. Walk'
      BY <1>0, KindAssumption, Zenon DEF RecvFillsPage, Recv, Types, Walk, Reqs,
         entry, offv, None
    <2> QED BY <2>1, <2>2
  <1>2. \A q \in Reqs \ {r} : Same(q)
    BY <1>0, ZenonT(30) DEF RecvFillsPage, Recv, Types, Same, entry, offv, None
  <1>3. Local(r)
    BY Zenon DEF MInv
  <1>4. Shape(r)'
    BY <1>0, <1>3, KindAssumption, Zenon DEF RecvFillsPage, Recv, Types, Local,
       Shape, Fresh, SyncShape, AsyncShape, PageShape, PcOf, Reqs, YesNo, entry,
       offv, None
  <1>5. Count(r)'
    <2>1. /\ RecvBusy(r) /\ ~RecvBusy(r)' /\ WorkHolds(r) /\ ~WorkHolds(r)'
          /\ RequesterHolds(r)' <=> RequesterHolds(r)
      BY <1>0, <1>3, KindAssumption, Zenon DEF RecvFillsPage, Recv, RecvBusy,
         RequesterHolds, WorkHolds, Types, Local, Shape, Fresh, SyncShape,
         AsyncShape, PageShape, PcOf, Reqs, entry, offv, None
    <2> QED
      BY <1>0, <1>3, <2>1 DEF RecvFillsPage, Local, Count, One, Types, offv
  <1>6. Once(r)'
    <2>1. /\ WorkHolds(r) /\ ~WorkHolds(r)' /\ r \notin Async
          /\ pc[r] \notin {"idle", "alloc"}
      BY <1>0, <1>3, KindAssumption, Zenon DEF RecvFillsPage, Recv, WorkHolds,
         Types, Local, Shape, Fresh, SyncShape, AsyncShape, PageShape, PcOf, Reqs,
         entry, offv, None
    <2> QED
      BY <1>0, <1>3, <2>1 DEF RecvFillsPage, Local, Once, One, Types, offv
  <1>7. \A q \in Reqs \ {r} : CallOf(q)' = CallOf(q)
    BY <1>0, Zenon DEF RecvFillsPage, Recv, Types, CallOf, entry, offv, None
  <1>8. May(CallOf(r), CallOf(r)')
    BY <1>0, <1>3, KindAssumption DEF RecvFillsPage, Recv, Types, Local, Shape, Fresh,
           SyncShape, AsyncShape, PageShape, PcOf, Once, WorkHolds, One, Reqs, CallOf,
           May, Promise!Outcomes, Outs, entry, offv, None
  <1> QED
    BY <1>1, <1>2, <1>4, <1>5, <1>6, <1>7, <1>8, OneRequest, OneCall, Zenon DEF
       Local

(* The step RecvPut of a request. *)
LEMMA RecvPutStep ==
  ASSUME MInv, NEW r \in Reqs, RecvPut(r)
  PROVE  MInv' /\ [Promise!Next]_Call
  <1>0. Types /\ Walk
    BY Zenon DEF MInv
  <1>1. Types' /\ Walk'
    <2>1. Types'
      BY <1>0, KindAssumption DEF RecvPut, Recv, put, PutN, Types, Pcs, Outs, Resps,
             YesNo, entry, offv, None
    <2>2. Walk'
      BY <1>0, KindAssumption, Zenon DEF RecvPut, Recv, put, PutN, Types, Walk,
         Reqs, entry, offv, None
    <2> QED BY <2>1, <2>2
  <1>2. \A q \in Reqs \ {r} : Same(q)
    BY <1>0, Zenon DEF RecvPut, Recv, put, PutN, Types, Same, entry, offv, None
  <1>3. Local(r)
    BY Zenon DEF MInv
  <1>4. Shape(r)'
    BY <1>0, <1>3, KindAssumption, Zenon DEF RecvPut, Recv, put, PutN, Types,
       Local, Shape, Fresh, SyncShape, AsyncShape, PageShape, PcOf, Reqs, YesNo,
       entry, offv, None
  <1>5. Count(r)'
    <2>1. /\ RecvBusy(r) /\ ~RecvBusy(r)'
          /\ RequesterHolds(r)' <=> RequesterHolds(r)
          /\ WorkHolds(r)' <=> WorkHolds(r)
      BY <1>0, <1>3, KindAssumption, Zenon DEF RecvPut, Recv, RecvBusy,
         RequesterHolds, WorkHolds, Types, None, offv
    <2> QED
      BY <1>0, <1>3, <2>1 DEF RecvPut, put, PutN, Local, Count, One, Types, offv
  <1>6. Once(r)'
    BY <1>0, <1>3, KindAssumption, Zenon DEF RecvPut, Recv, put, PutN, Types,
       Local, Shape, Fresh, SyncShape, AsyncShape, PageShape, PcOf, Once,
       WorkHolds, One, Reqs, entry, offv, None
  <1>7. \A q \in Reqs \ {r} : CallOf(q)' = CallOf(q)
    BY <1>0, Zenon DEF RecvPut, Recv, put, PutN, Types, CallOf, entry, offv,
       None
  <1>8. May(CallOf(r), CallOf(r)')
    BY <1>0, <1>3, KindAssumption, Zenon DEF RecvPut, Recv, put, PutN, Types,
       Local, Shape, Fresh, SyncShape, AsyncShape, PageShape, PcOf, Once,
       WorkHolds, One, Reqs, CallOf, May, Promise!Outcomes, Outs, entry, offv, None
  <1> QED
    BY <1>1, <1>2, <1>4, <1>5, <1>6, <1>7, <1>8, OneRequest, OneCall, Zenon DEF
       Local

-----------------------------------------------------------------------------
(* The disconnect takes the next entry (hmdfs_get_msg_next).                 *)
LEMMA GetMsgNextStep ==
  ASSUME MInv, NEW r \in Reqs, hmdfs_get_msg_next(r)
  PROVE  MInv' /\ [Promise!Next]_Call
  <1>0. Types /\ Walk
    BY Zenon DEF MInv
  <1>1. r \in Reqs /\ r # None
    BY <1>0, KindAssumption, Zenon DEF hmdfs_get_msg_next, Types, Walk, None,
       Reqs
  <1>2. Local(r)
    BY <1>1, Zenon DEF MInv
  <1>3. Types'
    BY <1>0, <1>1 DEF hmdfs_get_msg_next, Types, Pcs, Outs, Resps, YesNo, entry, offv,
           None
  <1>4. Walk'
    BY <1>0, <1>1, KindAssumption, Zenon DEF hmdfs_get_msg_next, Types, Walk,
       Reqs, entry, offv, None
  <1>5. \A q \in Reqs \ {r} : Same(q) /\ CallOf(q)' = CallOf(q)
    BY <1>0, <1>1, KindAssumption, Zenon DEF hmdfs_get_msg_next, Types, Walk,
       Same, CallOf, entry, offv, None
  <1>6. \A q \in Reqs \ {r} : Local(q)'
    BY <1>5, SameLocal, Zenon DEF MInv
  <1>7. Local(r)'
    <2>a. offr = None
      BY <1>0, Zenon DEF hmdfs_get_msg_next, Walk
    <2>b. ASSUME pc[r] \in {"idle", "alloc"} PROVE FALSE
      <3>1. ~RequesterHolds(r) /\ ~WorkHolds(r) /\ ~RecvBusy(r)
        BY <1>0, <1>1, <1>2, <2>b, Zenon DEF RequesterHolds, WorkHolds,
           RecvBusy, Local, Shape, Fresh, None
      <3>2. ref[r] = 0
        BY <1>1, <1>2, <2>a, <3>1 DEF Local, Count, One
      <3> QED
        BY <1>2, <3>2 DEF Local, Count, hmdfs_get_msg_next
    <2>1. Shape(r)'
      BY <1>0, <1>1, <1>2, <2>a, <2>b, KindAssumption, Zenon DEF
         hmdfs_get_msg_next, Walk, Types, Local, Shape, Fresh, SyncShape,
         AsyncShape, PageShape, PcOf, Reqs, YesNo, entry, offv, None
    <2>2. /\ RequesterHolds(r)' <=> RequesterHolds(r)
          /\ WorkHolds(r)' <=> WorkHolds(r)
          /\ RecvBusy(r)' <=> RecvBusy(r)
      BY <1>0, <1>1, <1>2, <2>a, <2>b, KindAssumption, Zenon DEF
         hmdfs_get_msg_next, RecvBusy, RequesterHolds, WorkHolds, Types, Local,
         Shape, Fresh, SyncShape, AsyncShape, PageShape, PcOf, Reqs, YesNo, entry,
         offv, None
    <2>3. Count(r)'
      <3>1. /\ ref[r] \in Int /\ ref'[r] = ref[r] + 1
            /\ r \in idr /\ idr' = idr
            /\ offr # r /\ offr' = r
        BY <1>0, <1>1, <2>a, Zenon DEF hmdfs_get_msg_next, Types
      <3>2. /\ One(RequesterHolds(r)') = One(RequesterHolds(r))
            /\ One(RecvBusy(r)') = One(RecvBusy(r))
            /\ One(WorkHolds(r)') = One(WorkHolds(r))
            /\ One(RequesterHolds(r)) \in {0, 1} /\ One(RecvBusy(r)) \in {0, 1}
            /\ One(WorkHolds(r)) \in {0, 1}
        BY <2>2, Zenon DEF One
      <3>3. One(offr = r) = 0 /\ One((offr = r)') = 1
        BY <1>1, <3>1, Zenon DEF One
      <3>4. Count(r)
        BY <1>2, Zenon DEF Local
      <3>5. ref'[r] = One(RequesterHolds(r)') + One(WorkHolds(r)') + One(RecvBusy(r)')
                        + One((offr = r)')
        BY <3>1, <3>2, <3>3, <3>4 DEF Count
      <3>6. r \in idr' <=> ref'[r] > 0
        BY <3>1, <3>2, <3>3, <3>4 DEF Count
      <3> QED
        BY <3>5, <3>6, Zenon DEF Count
    <2>4. Once(r)'
      BY <1>0, <1>1, <1>2, <2>2, <2>a, <2>b, KindAssumption, Zenon DEF
         hmdfs_get_msg_next, Local, Once, One, Types, entry, offv, Reqs, None
    <2> QED
      BY <2>1, <2>3, <2>4, Zenon DEF Local
  <1>8. May(CallOf(r), CallOf(r)')
    BY <1>0, <1>1, <1>2, KindAssumption, Zenon DEF hmdfs_get_msg_next, Types,
       Local, Shape, Fresh, SyncShape, AsyncShape, PageShape, PcOf, Once,
       WorkHolds, One, Reqs, CallOf, May, Promise!Outcomes, Outs, entry, offv, None
  <1>9. [Promise!Next]_Call
    BY <1>1, <1>5, <1>8, OneCall, Zenon
  <1> QED
    BY <1>1, <1>3, <1>4, <1>6, <1>7, <1>9, Zenon DEF MInv

(* It wakes a waiter.                                                        *)
LEMMA OffWakesSyncStep ==
  ASSUME MInv, NEW r, r = offr, OffWakesSync
  PROVE  MInv' /\ [Promise!Next]_Call
  <1>0. Types /\ Walk
    BY Zenon DEF MInv
  <1>1. r \in Reqs /\ r # None
    BY <1>0, KindAssumption, Zenon DEF OffWakesSync, WakeupRet, WakeupBuf,
       Types, Walk, None, Reqs
  <1>2. Local(r)
    BY <1>1, Zenon DEF MInv
  <1>3. Types'
    BY <1>0, <1>1 DEF OffWakesSync, WakeupRet, WakeupBuf, Types, Pcs, Outs, Resps,
           YesNo, entry, offv, None
  <1>4. Walk'
    BY <1>0, <1>1, KindAssumption, Zenon DEF OffWakesSync, WakeupRet, WakeupBuf,
       Types, Walk, Reqs, entry, offv, None
  <1>5. \A q \in Reqs \ {r} : Same(q) /\ CallOf(q)' = CallOf(q)
    BY <1>0, <1>1, KindAssumption, ZenonT(30) DEF OffWakesSync, WakeupRet,
       WakeupBuf, Types, Walk, Same, CallOf, entry, offv, None
  <1>6. \A q \in Reqs \ {r} : Local(q)'
    BY <1>5, SameLocal, Zenon DEF MInv
  <1>7. Local(r)'
    <2>1. Shape(r)'
      BY <1>0, <1>1, <1>2, KindAssumption, ZenonT(30) DEF OffWakesSync,
         WakeupRet, WakeupBuf, Walk, Types, Local, Shape, Fresh, SyncShape,
         AsyncShape, PageShape, PcOf, Reqs, YesNo, entry, offv, None
    <2>2. /\ RequesterHolds(r)' <=> RequesterHolds(r)
          /\ WorkHolds(r)' <=> WorkHolds(r)
          /\ RecvBusy(r)' <=> RecvBusy(r)
      BY <1>0, <1>1, <1>2, KindAssumption, Zenon DEF OffWakesSync, RecvBusy,
         RequesterHolds, WorkHolds, Types, Local, Shape, Fresh, SyncShape,
         AsyncShape, PageShape, PcOf, Reqs, YesNo, entry, offv, None
    <2>3. Count(r)'
      BY <1>0, <1>1, <1>2, <2>2, KindAssumption, Zenon DEF OffWakesSync, Walk,
         Local, Count, One, Types, entry, offv, Reqs
    <2>4. Once(r)'
      BY <1>0, <1>1, <1>2, <2>2, KindAssumption, Zenon DEF OffWakesSync,
         WakeupRet, WakeupBuf, Local, Once, One, Types, entry, offv, Reqs, None
    <2> QED
      BY <2>1, <2>3, <2>4, Zenon DEF Local
  <1>8. May(CallOf(r), CallOf(r)')
    BY <1>0, <1>1, <1>2, KindAssumption, ZenonT(30) DEF OffWakesSync, WakeupRet,
       WakeupBuf, Types, Local, Shape, Fresh, SyncShape, AsyncShape, PageShape,
       PcOf, Once, WorkHolds, One, Reqs, CallOf, May, Promise!Outcomes, Outs,
       entry, offv, None
  <1>9. [Promise!Next]_Call
    BY <1>1, <1>5, <1>8, OneCall, Zenon
  <1> QED
    BY <1>1, <1>3, <1>4, <1>6, <1>7, <1>9, Zenon DEF MInv

(* It runs the work of a request, if it can cancel it.                       *)
LEMMA OffRunsWorkStep ==
  ASSUME MInv, NEW r, r = offr, OffRunsWork
  PROVE  MInv' /\ [Promise!Next]_Call
  <1>0. Types /\ Walk
    BY Zenon DEF MInv
  <1>1. r \in Reqs /\ r # None
    BY <1>0, KindAssumption, Zenon DEF OffRunsWork, Finish, PutN, Pending,
       Types, Walk, None, Reqs
  <1>2. Local(r)
    BY <1>1, Zenon DEF MInv
  <1>3. Types'
    BY <1>0, <1>1 DEF OffRunsWork, Finish, PutN, Pending, Types, Pcs, Outs, Resps,
           YesNo, entry, offv, None
  <1>4. Walk'
    BY <1>0, <1>1, KindAssumption, Zenon DEF OffRunsWork, Finish, PutN, Pending,
       Types, Walk, Reqs, entry, offv, None
  <1>5. \A q \in Reqs \ {r} : Same(q) /\ CallOf(q)' = CallOf(q)
    BY <1>0, <1>1, KindAssumption DEF OffRunsWork, Finish, PutN, Pending, Types, Walk,
           Same, CallOf, entry, offv, None
  <1>6. \A q \in Reqs \ {r} : Local(q)'
    BY <1>5, SameLocal, Zenon DEF MInv
  <1>7. Local(r)'
    <2>1. Shape(r)'
      BY <1>0, <1>1, <1>2, KindAssumption, Zenon DEF OffRunsWork, Finish, PutN,
         Pending, Walk, Types, Local, Shape, Fresh, SyncShape, AsyncShape,
         PageShape, PcOf, Reqs, YesNo, entry, offv, None
    <2>2. /\ RequesterHolds(r)' <=> RequesterHolds(r)
          /\ RecvBusy(r)' <=> RecvBusy(r)
          /\ IF Pending(r) THEN WorkHolds(r) /\ ~WorkHolds(r)'
             ELSE WorkHolds(r)' <=> WorkHolds(r)
      BY <1>0, <1>1, <1>2, KindAssumption, ZenonT(30) DEF OffRunsWork, Pending,
         RecvBusy, RequesterHolds, WorkHolds, Types, Local, Shape, Fresh,
         SyncShape, AsyncShape, PageShape, PcOf, Reqs, YesNo, entry, offv, None
    <2>3. Count(r)'
      <3>1. /\ ref[r] \in Int /\ offr' = offr
            /\ IF Pending(r)
               THEN /\ ref'[r] = ref[r] - 1
                    /\ idr' = IF ref[r] = 1 THEN idr \ {r} ELSE idr
               ELSE ref' = ref /\ idr' = idr
        BY <1>0, <1>1, Zenon DEF OffRunsWork, Finish, PutN, Types
      <3>2. /\ One(RequesterHolds(r)') = One(RequesterHolds(r))
            /\ One(RecvBusy(r)') = One(RecvBusy(r))
            /\ One(WorkHolds(r)') = IF Pending(r) THEN One(WorkHolds(r)) - 1
                                     ELSE One(WorkHolds(r))
            /\ One(RequesterHolds(r)) \in {0, 1} /\ One(RecvBusy(r)) \in {0, 1}
            /\ One(WorkHolds(r)) \in {0, 1}
        BY <2>2 DEF One
      <3>3. One((offr = r)') = One(offr = r) /\ One(offr = r) \in {0, 1}
        BY <1>1, <3>1, Zenon DEF One
      <3>4. Count(r)
        BY <1>2, Zenon DEF Local
      <3>5. ref'[r] = One(RequesterHolds(r)') + One(WorkHolds(r)') + One(RecvBusy(r)')
                        + One((offr = r)')
        BY <3>1, <3>2, <3>3, <3>4 DEF Count
      <3>6. r \in idr' <=> ref'[r] > 0
        BY <3>1, <3>2, <3>3, <3>4 DEF Count
      <3> QED
        BY <3>5, <3>6, Zenon DEF Count
    <2>4. Once(r)'
      <3>1. CASE Pending(r)
        <4>1. /\ r \in Async => /\ out[r] # "failed"
                               /\ pc[r] \notin {"idle", "alloc", "send", "fire"}
              /\ r \in Page => pc[r] \notin {"idle", "alloc"}
          BY <1>1, <1>2, <3>1, KindAssumption, Zenon DEF OffRunsWork, Pending,
             Local, Shape, Fresh, AsyncShape, PageShape, PcOf, Reqs, None
        <4>2. /\ pc' = pc /\ out' = out
              /\ r \in Async => cb'[r] = cb[r] + 1
              /\ r \in Page => unlocks'[r] = unlocks[r] + 1
          BY <1>0, <1>1, <3>1 DEF OffRunsWork, Finish, Types
        <4>3. /\ r \in Async => cb[r] = 0
              /\ r \in Page => unlocks[r] = 0
          BY <1>2, <2>2, <3>1, Zenon DEF Local, Once, One
        <4> QED
          BY <2>2, <3>1, <4>1, <4>2, <4>3 DEF Once, One
      <3>2. CASE ~Pending(r)
        BY <1>2, <2>2, <3>2, Zenon DEF OffRunsWork, Local, Once, One
      <3> QED
        BY <3>1, <3>2, Zenon
    <2> QED
      BY <2>1, <2>3, <2>4, Zenon DEF Local
  <1>8. May(CallOf(r), CallOf(r)')
    BY <1>0, <1>1, <1>2, KindAssumption DEF OffRunsWork, Finish, PutN, Pending, Types,
           Local, Shape, Fresh, SyncShape, AsyncShape, PageShape, PcOf, Once,
           WorkHolds, One, Reqs, CallOf, May, Promise!Outcomes, Outs, entry, offv, None
  <1>9. [Promise!Next]_Call
    BY <1>1, <1>5, <1>8, OneCall, Zenon
  <1> QED
    BY <1>1, <1>3, <1>4, <1>6, <1>7, <1>9, Zenon DEF MInv

(* It puts the entry back.                                                   *)
LEMMA OffPutStep ==
  ASSUME MInv, NEW r, r = offr, OffPut
  PROVE  MInv' /\ [Promise!Next]_Call
  <1>0. Types /\ Walk
    BY Zenon DEF MInv
  <1>1. r \in Reqs /\ r # None
    BY <1>0, KindAssumption, Zenon DEF OffPut, put, PutN, Types, Walk, None,
       Reqs
  <1>2. Local(r)
    BY <1>1, Zenon DEF MInv
  <1>3. Types'
    BY <1>0, <1>1 DEF OffPut, put, PutN, Types, Pcs, Outs, Resps, YesNo, entry, offv,
           None
  <1>4. Walk'
    BY <1>0, <1>1, KindAssumption, Zenon DEF OffPut, put, PutN, Types, Walk,
       Reqs, entry, offv, None
  <1>5. \A q \in Reqs \ {r} : Same(q) /\ CallOf(q)' = CallOf(q)
    BY <1>0, <1>1, KindAssumption, Zenon DEF OffPut, put, PutN, Types, Walk,
       Same, CallOf, entry, offv, None
  <1>6. \A q \in Reqs \ {r} : Local(q)'
    BY <1>5, SameLocal, Zenon DEF MInv
  <1>7. Local(r)'
    <2>1. Shape(r)'
      BY <1>0, <1>1, <1>2, KindAssumption, Zenon DEF OffPut, put, PutN, Walk,
         Types, Local, Shape, Fresh, SyncShape, AsyncShape, PageShape, PcOf, Reqs,
         YesNo, entry, offv, None
    <2>2. /\ RequesterHolds(r)' <=> RequesterHolds(r)
          /\ WorkHolds(r)' <=> WorkHolds(r)
          /\ RecvBusy(r)' <=> RecvBusy(r)
      BY <1>0, <1>1, <1>2, KindAssumption, Zenon DEF OffPut, RecvBusy,
         RequesterHolds, WorkHolds, Types, Local, Shape, Fresh, SyncShape,
         AsyncShape, PageShape, PcOf, Reqs, YesNo, entry, offv, None
    <2>3. Count(r)'
      <3>1. /\ ref[r] \in Int /\ ref'[r] = ref[r] - 1
            /\ idr' = IF ref[r] = 1 THEN idr \ {r} ELSE idr
            /\ offr = r /\ offr' # r
        BY <1>0, <1>1, Zenon DEF OffPut, put, PutN, Types
      <3>2. /\ One(RequesterHolds(r)') = One(RequesterHolds(r))
            /\ One(RecvBusy(r)') = One(RecvBusy(r))
            /\ One(WorkHolds(r)') = One(WorkHolds(r))
            /\ One(RequesterHolds(r)) \in {0, 1} /\ One(RecvBusy(r)) \in {0, 1}
            /\ One(WorkHolds(r)) \in {0, 1}
        BY <2>2, Zenon DEF One
      <3>3. One(offr = r) = 1 /\ One((offr = r)') = 0
        BY <1>1, <3>1, Zenon DEF One
      <3>4. Count(r)
        BY <1>2, Zenon DEF Local
      <3>5. ref'[r] = One(RequesterHolds(r)') + One(WorkHolds(r)') + One(RecvBusy(r)')
                        + One((offr = r)')
        BY <3>1, <3>2, <3>3, <3>4 DEF Count
      <3>6. r \in idr' <=> ref'[r] > 0
        BY <3>1, <3>2, <3>3, <3>4 DEF Count
      <3> QED
        BY <3>5, <3>6, Zenon DEF Count
    <2>4. Once(r)'
      BY <1>0, <1>1, <1>2, <2>2, KindAssumption, Zenon DEF OffPut, put, PutN,
         Local, Once, One, Types, entry, offv, Reqs, None
    <2> QED
      BY <2>1, <2>3, <2>4, Zenon DEF Local
  <1>8. May(CallOf(r), CallOf(r)')
    BY <1>0, <1>1, <1>2, KindAssumption, ZenonT(30) DEF OffPut, put, PutN,
       Types, Local, Shape, Fresh, SyncShape, AsyncShape, PageShape, PcOf, Once,
       WorkHolds, One, Reqs, CallOf, May, Promise!Outcomes, Outs, entry, offv, None
  <1>9. [Promise!Next]_Call
    BY <1>1, <1>5, <1>8, OneCall, Zenon
  <1> QED
    BY <1>1, <1>3, <1>4, <1>6, <1>7, <1>9, Zenon DEF MInv

-----------------------------------------------------------------------------
(* A step that touches no request keeps the invariant.                     *)
LEMMA QuietStep ==
  ASSUME MInv, UNCHANGED <<entry, pc, out, resp, offr>>,
         off \notin {"wake", "wake_buf", "put"}, off' \notin {"wake", "wake_buf", "put"}
  PROVE  MInv' /\ [Promise!Next]_Call
  <1>1. Types' /\ Walk'
    BY Zenon DEF MInv, Types, Walk, entry, Pcs, Outs, Resps
  <1>2. ASSUME NEW q \in Reqs PROVE Local(q)'
    <2>1. Same(q)
      BY Zenon DEF Same, entry
    <2> QED
      BY <2>1, SameLocal, Zenon DEF MInv
  <1>3. Call' = Call
    BY Zenon DEF Call, CallOf, entry
  <1> QED
    BY <1>1, <1>2, <1>3, Zenon DEF MInv

(* The steps of a disconnect that touch no request, and a new connection.  *)
LEMMA DisconnectQuiet ==
  ASSUME MInv,
         \/ hmdfs_start_process_offline \/ SetOffline \/ CloseConnections \/ WaitProcess
         \/ OffDone \/ hmdfs_stop_process_offline \/ PeerOnline
  PROVE  MInv' /\ [Promise!Next]_Call
  <1>1. /\ UNCHANGED <<entry, pc, out, resp, offr>>
        /\ off \notin {"wake", "wake_buf", "put"} /\ off' \notin {"wake", "wake_buf", "put"}
    BY Zenon DEF hmdfs_start_process_offline, SetOffline, CloseConnections,
       WaitProcess, OffDone, hmdfs_stop_process_offline, PeerOnline, offv
  <1> QED
    BY <1>1, QuietStep, Zenon

(* A node just allocated (alloc_peer) satisfies the invariant.             *)
LEMMA InitMInv ==
  ASSUME Init
  PROVE  MInv /\ Promise!Init
  <1>1. Types /\ Walk
    BY DEF Init, Types, Walk, Pcs, Outs, Resps, YesNo, None
  <1>2. ASSUME NEW r \in Reqs PROVE Local(r)
    <2>1. Shape(r)
      BY KindAssumption, Zenon DEF Init, Shape, Fresh, SyncShape, AsyncShape,
         PageShape, PcOf, None
    <2>2. Count(r)
      BY KindAssumption DEF Init, Count, RequesterHolds, WorkHolds, RecvBusy, One, None
    <2>3. Once(r)
      BY Zenon DEF Init, Once, WorkHolds, One, None
    <2> QED
      BY <2>1, <2>2, <2>3, Zenon DEF Local
  <1>3. Promise!Init
    BY Zenon DEF Init, Promise!Init, Call, CallOf
  <1> QED
    BY <1>1, <1>2, <1>3, Zenon DEF MInv

(* Every step keeps the invariant and is a step of RequestReply, or none.  *)
LEMMA NextMInv ==
  ASSUME MInv, [Next]_vars
  PROVE  MInv' /\ [Promise!Next]_Call
  <1>1. ASSUME NEW r \in Reqs, CheckOnline(r) \/ Requester(r)
        PROVE  MInv' /\ [Promise!Next]_Call
    BY <1>1, CheckOnlineStep, Hmdfs_alloc_msg_idrStep, QueuePageTimeoutStep,
       SendOKStep, SendFailsStep, QueueAsyncTimeoutStep, StoreWfiredStep,
       DecProcessStep, PutAfterSendStep, CancelPageStep, WaitAnsweredStep,
       TakeRetStep, WaitTimeoutStep, PutAfterWaitStep, ZenonT(30) DEF Requester
  <1>2. ASSUME NEW r \in Reqs, Worker(r) \/ hmdfs_find_msg_head(r) \/ Receiver(r)
        PROVE  MInv' /\ [Promise!Next]_Call
    BY <1>2, StartWorkStep, RunWorkStep, Hmdfs_find_msg_headStep,
       CheckValidStep, RecvWakesStep, RecvCancelsStep, RecvRequeuesStep,
       RecvFillsPageStep, RecvPutStep, Zenon DEF Worker, Receiver
  <1>3. CASE hmdfs_start_process_offline \/ Disconnect \/ PeerOnline
    BY <1>3, DisconnectQuiet, GetMsgNextStep, OffWakesSyncStep, OffRunsWorkStep,
       OffPutStep, Zenon DEF Disconnect
  <1>4. CASE UNCHANGED vars
    <2>1. UNCHANGED <<entry, pc, out, resp, offr, off>>
      BY <1>4, Zenon DEF vars, offv
    <2>2. Types' /\ Walk'
      BY <2>1, Zenon DEF MInv, Types, Walk, entry, Pcs, Outs, Resps
    <2>3. \A q \in Reqs : Local(q)'
      BY <2>1, SameLocal, Zenon DEF MInv, Same, entry
    <2>4. Call' = Call
      BY <2>1, Zenon DEF Call, CallOf, entry
    <2> QED
      BY <2>2, <2>3, <2>4, Zenon DEF MInv
  <1> QED
    BY <1>1, <1>2, <1>3, <1>4, Zenon DEF Next

-----------------------------------------------------------------------------
(* The invariant of the table holds.                                       *)
LEMMA MInvariant == Spec => []MInv
  <1>1. Init => MInv
    BY InitMInv, Zenon
  <1>2. MInv /\ [Next]_vars => MInv'
    BY NextMInv, Zenon
  <1> QED
    BY <1>1, <1>2, PTL DEF Spec

(* No entry of msg_idr is used after it is freed and none is leaked, for   *)
(* any number of requests, timeouts, responses and disconnects (msg_put,   *)
(* mp_put, asw_put across hmdfs_sendmessage_request, the works, the        *)
(* receive threads and hmdfs_client_offline_notify).                       *)
THEOREM EntriesSafe == Spec => []RefExact
  <1>1. ASSUME MInv PROVE RefExact
    BY <1>1, Zenon DEF MInv, Local, Count, RefExact
  <1> QED
    BY <1>1, MInvariant, PTL

(* Every callback of an asynchronous request and every unlock of a page    *)
(* that is read happens once, whoever of the sender, the timeout, the      *)
(* response and the disconnect comes first, and none is forgotten when the *)
(* entry is gone (asw_done, hmdfs_client_recv_readpage and                 *)
(* hmdfs_client_offline_notify).                                           *)
THEOREM CompletionsSafe == Spec => []CompletedOnce
  <1>1. ASSUME MInv, NEW r \in Reqs, r \notin idr PROVE ~WorkHolds(r)
    BY <1>1 DEF MInv, Local, Count, One
  <1>2. ASSUME MInv PROVE CompletedOnce
    <2>1. ASSUME NEW r \in Async
          PROVE  /\ cb[r] <= 1
                 /\ out[r] = "failed" => cb[r] = 0
                 /\ out[r] = "sent" /\ r \notin idr => cb[r] = 1
      <3>1. r \in Reqs /\ Local(r)
        BY <1>2, Zenon DEF MInv, Reqs
      <3>2. r \notin idr => ~WorkHolds(r)
        BY <1>1, <1>2, <3>1, Zenon
      <3>3. r \notin Sync /\ r \notin Page
        BY KindAssumption, Zenon
      <3>4. /\ out[r] = "failed" => cb[r] = 0
            /\ cb[r] <= 1
        BY <3>1, <3>3 DEF Local, Once, One
      <3>5. out[r] = "sent" => pc[r] \notin {"idle", "alloc", "send", "fire"}
        BY <3>1, <3>3, Zenon DEF Local, Shape, Fresh, AsyncShape, PcOf, None
      <3> QED
        BY <3>1, <3>2, <3>4, <3>5, Zenon DEF Local, Once, One
    <2>2. ASSUME NEW r \in Page
          PROVE  /\ unlocks[r] <= 1
                 /\ resp[r] = "cancelled" => unlocks[r] = 0
                 /\ pc[r] = "done" /\ r \notin idr => unlocks[r] = 1
      <3>1. r \in Reqs /\ Local(r)
        BY <1>2, Zenon DEF MInv, Reqs
      <3> QED
        BY <1>1, <1>2, <3>1, KindAssumption
           DEF Local, Shape, PageShape, Once, One, WorkHolds, Reqs
    <2> QED
      BY <2>1, <2>2, Zenon DEF CompletedOnce
  <1> QED
    BY <1>2, MInvariant, PTL

(* The request layer implements its promise RequestReply: a request is     *)
(* finished at most once and its outcome, a reply, giving up or a failure, *)
(* never changes, whoever of hmdfs_sendmessage_request, the works, the     *)
(* receive threads and hmdfs_client_offline_notify comes first.            *)
THEOREM Implements == Spec => FinishedOnce
  <1>1. Init => MInv /\ Promise!Init
    BY InitMInv, Zenon
  <1>2. MInv /\ [Next]_vars => MInv' /\ [Promise!Next]_Call
    BY NextMInv, Zenon
  <1> QED
    BY <1>1, <1>2, PTL DEF Spec, FinishedOnce, Promise!Spec

-----------------------------------------------------------------------------
(* The disconnect: msg_idr_process, and who is woken.                      *)

Notifying == {"notify", "wake", "wake_buf", "put", "stop"}

(* Requests between hmdfs_alloc_msg_idr and hmdfs_dec_msg_idr_process.     *)
Processing == {"queue", "send", "sent", "fire", "fired", "put_sent", "cancel", "fail_put",
               "fail_dec"}
InProcess == {r \in Reqs : pc[r] \in Processing}

(* Nobody waits for r's timeout in vain.                                   *)
Woken(r) ==
  /\ pc[r] = "wait" => valid[r] = "END_RECV"
  /\ Pending(r) => mret[r] = "replied"

(* The counter is exact; a disconnect that got past it is alone with the   *)
(* entries there are, for no new one is allocated; and what it has passed  *)
(* by stays woken.                                                         *)
WokenIfVisited(r) ==
  off \in Notifying /\ r \in visited => Woken(r) \/ (r = offr /\ off \in {"wake", "wake_buf"})

DInv ==
  /\ IsFiniteSet(InProcess) /\ msg_idr_process = Cardinality(InProcess)
  /\ off # "idle" => offline_start = "yes"
  /\ off \in Notifying => InProcess = {}
  /\ off = "stop" => idr \subseteq visited
  /\ \A r \in Reqs : WokenIfVisited(r)

(* A waiter whose receive thread ends with its connection: a result that   *)
(* says "replied" comes with the buffer, whoever writes ret and buf, and   *)
(* in whatever order the waiter reads them.                                *)
Reply(r) ==
  /\ off \in {"drain"} \cup Notifying => ~RecvBusy(r)
  /\ off = "wake_buf" /\ offr = r => wret[r] = "ETIME"
  /\ resp[r] \in {"found", "wake", "wake_buf"} => buf[r] = "recv"
  /\ resp[r] \in {"wake", "wake_buf"} => valid[r] = "SEND"
  /\ resp[r] \in {None, "remote", "found", "wake"} => wret[r] # "replied"
  /\ resp[r] \in {None, "remote", "found", "wake", "wake_buf"} => out[r] # "replied"
  /\ pc[r] = "take_ret" => valid[r] = "END_RECV" /\ (wret[r] = "replied" => buf[r] = "taken")
  /\ pc[r] \in {"sent", "wait"} /\ valid[r] = "END_RECV" /\ wret[r] = "replied" => buf[r] = "entry"
  /\ out[r] = "replied" => buf[r] = "taken"

BInv ==
  /\ buf \in [Reqs -> {None, "recv", "entry", "taken", "freed", "lost"}]
  /\ \A r \in Sync \ Linger : Reply(r)

(* What a request looks like to a disconnect and to its waiter.            *)
SameView(q) ==
  /\ pc'[q] = pc[q] /\ out'[q] = out[q] /\ valid'[q] = valid[q] /\ wret'[q] = wret[q]
  /\ buf'[q] = buf[q] /\ work'[q] = work[q] /\ mret'[q] = mret[q] /\ resp'[q] = resp[q]

(* A step of one request that neither begins nor ends its processing.      *)
LEMMA OneView ==
  ASSUME DInv, BInv, NEW r \in Reqs, \A q \in Reqs \ {r} : SameView(q),
         UNCHANGED <<offline_start, offv>>, idr' \subseteq idr,
         buf' \in [Reqs -> {None, "recv", "entry", "taken", "freed", "lost"}],
         msg_idr_process' = msg_idr_process,
         pc'[r] \in Processing <=> pc[r] \in Processing,
         WokenIfVisited(r)', r \in Sync \ Linger => Reply(r)'
  PROVE  DInv' /\ BInv'
  <1>1. InProcess' = InProcess
    BY Zenon DEF InProcess, SameView
  <1>2. ASSUME NEW q \in Reqs \ {r} PROVE WokenIfVisited(q)'
    BY <1>2, Zenon DEF DInv, WokenIfVisited, Woken, Pending, SameView, offv
  <1>3. ASSUME NEW q \in Sync \ Linger, q # r PROVE Reply(q)'
    <2>1. q \in Reqs \ {r} /\ Reply(q)
      BY <1>3, Zenon DEF Reqs, BInv
    <2> QED
      BY <2>1, Zenon DEF Reply, RecvBusy, SameView, offv
  <1>4. DInv'
    BY <1>1, <1>2, Zenon DEF DInv, offv
  <1>5. BInv'
    BY <1>3, ZenonT(30) DEF BInv
  <1> QED
    BY <1>4, <1>5, Zenon

(* The step CheckOnline of a request: it wakes, or is woken, and keeps its *)
(* buffer.                                                                 *)
LEMMA CheckOnlineView ==
  ASSUME MInv, DInv, BInv, NEW r \in Reqs, CheckOnline(r)
  PROVE  DInv' /\ BInv'
  <1>0. Types /\ Local(r) /\ WokenIfVisited(r) /\ (r \in Sync \ Linger => Reply(r))
    BY Zenon DEF MInv, DInv, BInv
  <1>1. buf' \in [Reqs -> {None, "recv", "entry", "taken", "freed", "lost"}]
    BY <1>0, Zenon DEF BInv, CheckOnline, FailEarly, Return, Go, entry, None
  <1>2. \A q \in Reqs \ {r} : SameView(q)
    BY <1>0, ZenonT(30) DEF BInv, Types, SameView, CheckOnline, FailEarly,
       Return, Go, entry
  <1>3. UNCHANGED <<offline_start, offv, msg_idr_process>> /\ idr' \subseteq idr
    BY Zenon DEF CheckOnline, FailEarly, Return, Go, entry
  <1>4. pc'[r] \in Processing <=> pc[r] \in Processing
    BY <1>0, ZenonT(30) DEF Types, Processing, CheckOnline, FailEarly, Return,
       Go, entry
  <1>5. WokenIfVisited(r)'
    BY <1>0, KindAssumption, Zenon DEF Types, Local, Shape, Fresh, SyncShape,
       AsyncShape, PageShape, PcOf, DInv, InProcess, Processing, Notifying,
       WokenIfVisited, Woken, Pending, CheckOnline, FailEarly, Return, Go, entry,
       offv, None
  <1>6. ASSUME r \in Sync \ Linger PROVE Reply(r)'
    BY <1>0, <1>6, KindAssumption, ZenonT(30) DEF Types, BInv, Local, Shape,
       Fresh, SyncShape, PcOf, RecvBusy, Reply, Notifying, CheckOnline, FailEarly,
       Return, Go, entry, offv, None
  <1> QED
    BY <1>1, <1>2, <1>3, <1>4, <1>5, <1>6, OneView, Zenon

(* The step QueuePageTimeout of a request: it wakes, or is woken, and      *)
(* keeps its buffer.                                                       *)
LEMMA QueuePageTimeoutView ==
  ASSUME MInv, DInv, BInv, NEW r \in Reqs, QueuePageTimeout(r)
  PROVE  DInv' /\ BInv'
  <1>0. Types /\ Local(r) /\ WokenIfVisited(r) /\ (r \in Sync \ Linger => Reply(r))
    BY Zenon DEF MInv, DInv, BInv
  <1>1. buf' \in [Reqs -> {None, "recv", "entry", "taken", "freed", "lost"}]
    BY <1>0, Zenon DEF BInv, QueuePageTimeout, Go, entry, None
  <1>2. \A q \in Reqs \ {r} : SameView(q)
    BY <1>0, Zenon DEF BInv, Types, SameView, QueuePageTimeout, Go, entry
  <1>3. UNCHANGED <<offline_start, offv, msg_idr_process>> /\ idr' \subseteq idr
    BY Zenon DEF QueuePageTimeout, Go, entry
  <1>4. pc'[r] \in Processing <=> pc[r] \in Processing
    BY <1>0, Zenon DEF Types, Processing, QueuePageTimeout, Go, entry
  <1>5. WokenIfVisited(r)'
    BY <1>0, KindAssumption, Zenon DEF Types, Local, Shape, Fresh, SyncShape,
       AsyncShape, PageShape, PcOf, DInv, InProcess, Processing, Notifying,
       WokenIfVisited, Woken, Pending, QueuePageTimeout, Go, entry, offv, None
  <1>6. ASSUME r \in Sync \ Linger PROVE Reply(r)'
    BY <1>0, <1>6, KindAssumption, ZenonT(30) DEF Types, BInv, Local, Shape,
       Fresh, SyncShape, PcOf, RecvBusy, Reply, Notifying, QueuePageTimeout, Go,
       entry, offv, None
  <1> QED
    BY <1>1, <1>2, <1>3, <1>4, <1>5, <1>6, OneView, Zenon

(* The step SendOK of a request: it wakes, or is woken, and keeps its      *)
(* buffer.                                                                 *)
LEMMA SendOKView ==
  ASSUME MInv, DInv, BInv, NEW r \in Reqs, SendOK(r)
  PROVE  DInv' /\ BInv'
  <1>0. Types /\ Local(r) /\ WokenIfVisited(r) /\ (r \in Sync \ Linger => Reply(r))
    BY Zenon DEF MInv, DInv, BInv
  <1>1. buf' \in [Reqs -> {None, "recv", "entry", "taken", "freed", "lost"}]
    BY <1>0, Zenon DEF BInv, SendOK, Go, entry, None
  <1>2. \A q \in Reqs \ {r} : SameView(q)
    BY <1>0, Zenon DEF BInv, Types, SameView, SendOK, Go, entry
  <1>3. UNCHANGED <<offline_start, offv, msg_idr_process>> /\ idr' \subseteq idr
    BY Zenon DEF SendOK, Go, entry
  <1>4. pc'[r] \in Processing <=> pc[r] \in Processing
    BY <1>0, Zenon DEF Types, Processing, SendOK, Go, entry
  <1>5. WokenIfVisited(r)'
    BY <1>0, KindAssumption, Zenon DEF Types, Local, Shape, Fresh, SyncShape,
       AsyncShape, PageShape, PcOf, DInv, InProcess, Processing, Notifying,
       WokenIfVisited, Woken, Pending, SendOK, Go, entry, offv, None
  <1>6. ASSUME r \in Sync \ Linger PROVE Reply(r)'
    BY <1>0, <1>6, KindAssumption, ZenonT(30) DEF Types, BInv, Local, Shape,
       Fresh, SyncShape, PcOf, RecvBusy, Reply, Notifying, SendOK, Go, entry, offv,
       None
  <1> QED
    BY <1>1, <1>2, <1>3, <1>4, <1>5, <1>6, OneView, Zenon

(* The step SendFails of a request: it wakes, or is woken, and keeps its   *)
(* buffer.                                                                 *)
LEMMA SendFailsView ==
  ASSUME MInv, DInv, BInv, NEW r \in Reqs, SendFails(r)
  PROVE  DInv' /\ BInv'
  <1>0. Types /\ Local(r) /\ WokenIfVisited(r) /\ (r \in Sync \ Linger => Reply(r))
    BY Zenon DEF MInv, DInv, BInv
  <1>1. buf' \in [Reqs -> {None, "recv", "entry", "taken", "freed", "lost"}]
    BY <1>0, Zenon DEF BInv, SendFails, Go, entry, None
  <1>2. \A q \in Reqs \ {r} : SameView(q)
    BY <1>0, Zenon DEF BInv, Types, SameView, SendFails, Go, entry
  <1>3. UNCHANGED <<offline_start, offv, msg_idr_process>> /\ idr' \subseteq idr
    BY Zenon DEF SendFails, Go, entry
  <1>4. pc'[r] \in Processing <=> pc[r] \in Processing
    BY <1>0, Zenon DEF Types, Processing, SendFails, Go, entry
  <1>5. WokenIfVisited(r)'
    BY <1>0, KindAssumption, Zenon DEF Types, Local, Shape, Fresh, SyncShape,
       AsyncShape, PageShape, PcOf, DInv, InProcess, Processing, Notifying,
       WokenIfVisited, Woken, Pending, SendFails, Go, entry, offv, None
  <1>6. ASSUME r \in Sync \ Linger PROVE Reply(r)'
    BY <1>0, <1>6, KindAssumption, ZenonT(30) DEF Types, BInv, Local, Shape,
       Fresh, SyncShape, PcOf, RecvBusy, Reply, Notifying, SendFails, Go, entry,
       offv, None
  <1> QED
    BY <1>1, <1>2, <1>3, <1>4, <1>5, <1>6, OneView, Zenon

(* The step QueueAsyncTimeout of a request: it wakes, or is woken, and     *)
(* keeps its buffer.                                                       *)
LEMMA QueueAsyncTimeoutView ==
  ASSUME MInv, DInv, BInv, NEW r \in Reqs, QueueAsyncTimeout(r)
  PROVE  DInv' /\ BInv'
  <1>0. Types /\ Local(r) /\ WokenIfVisited(r) /\ (r \in Sync \ Linger => Reply(r))
    BY Zenon DEF MInv, DInv, BInv
  <1>1. buf' \in [Reqs -> {None, "recv", "entry", "taken", "freed", "lost"}]
    BY <1>0, Zenon DEF BInv, QueueAsyncTimeout, Go, entry, None
  <1>2. \A q \in Reqs \ {r} : SameView(q)
    BY <1>0, Zenon DEF BInv, Types, SameView, QueueAsyncTimeout, Go, entry
  <1>3. UNCHANGED <<offline_start, offv, msg_idr_process>> /\ idr' \subseteq idr
    BY Zenon DEF QueueAsyncTimeout, Go, entry
  <1>4. pc'[r] \in Processing <=> pc[r] \in Processing
    BY <1>0, Zenon DEF Types, Processing, QueueAsyncTimeout, Go, entry
  <1>5. WokenIfVisited(r)'
    BY <1>0, KindAssumption, Zenon DEF Types, Local, Shape, Fresh, SyncShape,
       AsyncShape, PageShape, PcOf, DInv, InProcess, Processing, Notifying,
       WokenIfVisited, Woken, Pending, QueueAsyncTimeout, Go, entry, offv, None
  <1>6. ASSUME r \in Sync \ Linger PROVE Reply(r)'
    BY <1>0, <1>6, KindAssumption, ZenonT(30) DEF Types, BInv, Local, Shape,
       Fresh, SyncShape, PcOf, RecvBusy, Reply, Notifying, QueueAsyncTimeout, Go,
       entry, offv, None
  <1> QED
    BY <1>1, <1>2, <1>3, <1>4, <1>5, <1>6, OneView, Zenon

(* The step StoreWfired of a request: it wakes, or is woken, and keeps its *)
(* buffer.                                                                 *)
LEMMA StoreWfiredView ==
  ASSUME MInv, DInv, BInv, NEW r \in Reqs, StoreWfired(r)
  PROVE  DInv' /\ BInv'
  <1>0. Types /\ Local(r) /\ WokenIfVisited(r) /\ (r \in Sync \ Linger => Reply(r))
    BY Zenon DEF MInv, DInv, BInv
  <1>1. buf' \in [Reqs -> {None, "recv", "entry", "taken", "freed", "lost"}]
    BY <1>0, Zenon DEF BInv, StoreWfired, Go, entry, None
  <1>2. \A q \in Reqs \ {r} : SameView(q)
    BY <1>0, Zenon DEF BInv, Types, SameView, StoreWfired, Go, entry
  <1>3. UNCHANGED <<offline_start, offv, msg_idr_process>> /\ idr' \subseteq idr
    BY Zenon DEF StoreWfired, Go, entry
  <1>4. pc'[r] \in Processing <=> pc[r] \in Processing
    BY <1>0, Zenon DEF Types, Processing, StoreWfired, Go, entry
  <1>5. WokenIfVisited(r)'
    BY <1>0, KindAssumption, Zenon DEF Types, Local, Shape, Fresh, SyncShape,
       AsyncShape, PageShape, PcOf, DInv, InProcess, Processing, Notifying,
       WokenIfVisited, Woken, Pending, StoreWfired, Go, entry, offv, None
  <1>6. ASSUME r \in Sync \ Linger PROVE Reply(r)'
    BY <1>0, <1>6, KindAssumption, ZenonT(30) DEF Types, BInv, Local, Shape,
       Fresh, SyncShape, PcOf, RecvBusy, Reply, Notifying, StoreWfired, Go, entry,
       offv, None
  <1> QED
    BY <1>1, <1>2, <1>3, <1>4, <1>5, <1>6, OneView, Zenon

(* The step PutAfterSend of a request: it wakes, or is woken, and keeps    *)
(* its buffer.                                                             *)
LEMMA PutAfterSendView ==
  ASSUME MInv, DInv, BInv, NEW r \in Reqs, PutAfterSend(r)
  PROVE  DInv' /\ BInv'
  <1>0. Types /\ Local(r) /\ WokenIfVisited(r) /\ (r \in Sync \ Linger => Reply(r))
    BY Zenon DEF MInv, DInv, BInv
  <1>1. buf' \in [Reqs -> {None, "recv", "entry", "taken", "freed", "lost"}]
    BY <1>0, Zenon DEF BInv, PutAfterSend, Go, put, PutN, entry, None
  <1>2. \A q \in Reqs \ {r} : SameView(q)
    BY <1>0, Zenon DEF BInv, Types, SameView, PutAfterSend, Go, put, PutN, entry
  <1>3. UNCHANGED <<offline_start, offv, msg_idr_process>> /\ idr' \subseteq idr
    BY Zenon DEF PutAfterSend, Go, put, PutN, entry
  <1>4. pc'[r] \in Processing <=> pc[r] \in Processing
    BY <1>0, Zenon DEF Types, Processing, PutAfterSend, Go, put, PutN, entry
  <1>5. WokenIfVisited(r)'
    BY <1>0, KindAssumption, Zenon DEF Types, Local, Shape, Fresh, SyncShape,
       AsyncShape, PageShape, PcOf, DInv, InProcess, Processing, Notifying,
       WokenIfVisited, Woken, Pending, PutAfterSend, Go, put, PutN, entry, offv,
       None
  <1>6. ASSUME r \in Sync \ Linger PROVE Reply(r)'
    BY <1>0, <1>6, KindAssumption, ZenonT(30) DEF Types, BInv, Local, Shape,
       Fresh, SyncShape, PcOf, Count, RequesterHolds, WorkHolds, RecvBusy, One,
       Reply, Notifying, PutAfterSend, Go, put, PutN, entry, offv, None
  <1> QED
    BY <1>1, <1>2, <1>3, <1>4, <1>5, <1>6, OneView, Zenon

(* The step CancelPage of a request: it wakes, or is woken, and keeps its  *)
(* buffer.                                                                 *)
LEMMA CancelPageView ==
  ASSUME MInv, DInv, BInv, NEW r \in Reqs, CancelPage(r)
  PROVE  DInv' /\ BInv'
  <1>0. Types /\ Local(r) /\ WokenIfVisited(r) /\ (r \in Sync \ Linger => Reply(r))
    BY Zenon DEF MInv, DInv, BInv
  <1>1. buf' \in [Reqs -> {None, "recv", "entry", "taken", "freed", "lost"}]
    BY <1>0, Zenon DEF BInv, CancelPage, Go, put, PutN, Pending, entry, None
  <1>2. \A q \in Reqs \ {r} : SameView(q)
    BY <1>0, ZenonT(30) DEF BInv, Types, SameView, CancelPage, Go, put, PutN,
       Pending, entry
  <1>3. UNCHANGED <<offline_start, offv, msg_idr_process>> /\ idr' \subseteq idr
    BY Zenon DEF CancelPage, Go, put, PutN, Pending, entry
  <1>4. pc'[r] \in Processing <=> pc[r] \in Processing
    BY <1>0, Zenon DEF Types, Processing, CancelPage, Go, put, PutN, Pending,
       entry
  <1>5. WokenIfVisited(r)'
    BY <1>0, KindAssumption, Zenon DEF Types, Local, Shape, Fresh, SyncShape,
       AsyncShape, PageShape, PcOf, DInv, InProcess, Processing, Notifying,
       WokenIfVisited, Woken, CancelPage, Go, put, PutN, Pending, entry, offv, None
  <1>6. ASSUME r \in Sync \ Linger PROVE Reply(r)'
    BY <1>0, <1>6, KindAssumption, Zenon DEF Types, BInv, Local, Shape, Fresh,
       SyncShape, PcOf, Count, RequesterHolds, WorkHolds, RecvBusy, One, Reply,
       Notifying, CancelPage, Go, put, PutN, Pending, entry, offv, None
  <1> QED
    BY <1>1, <1>2, <1>3, <1>4, <1>5, <1>6, OneView, Zenon

(* The step WaitAnswered of a request: it wakes, or is woken, and keeps    *)
(* its buffer.                                                             *)
LEMMA WaitAnsweredView ==
  ASSUME MInv, DInv, BInv, NEW r \in Reqs, WaitAnswered(r)
  PROVE  DInv' /\ BInv'
  <1>0. Types /\ Local(r) /\ WokenIfVisited(r) /\ (r \in Sync \ Linger => Reply(r))
    BY Zenon DEF MInv, DInv, BInv
  <1>1. buf' \in [Reqs -> {None, "recv", "entry", "taken", "freed", "lost"}]
    BY <1>0, Zenon DEF BInv, WaitAnswered, Go, entry, None
  <1>2. \A q \in Reqs \ {r} : SameView(q)
    BY <1>0, Zenon DEF BInv, Types, SameView, WaitAnswered, Go, entry
  <1>3. UNCHANGED <<offline_start, offv, msg_idr_process>> /\ idr' \subseteq idr
    BY Zenon DEF WaitAnswered, Go, entry
  <1>4. pc'[r] \in Processing <=> pc[r] \in Processing
    BY <1>0, Zenon DEF Types, Processing, WaitAnswered, Go, entry
  <1>5. WokenIfVisited(r)'
    BY <1>0, KindAssumption, Zenon DEF Types, Local, Shape, Fresh, SyncShape,
       AsyncShape, PageShape, PcOf, DInv, InProcess, Processing, Notifying,
       WokenIfVisited, Woken, Pending, WaitAnswered, Go, entry, offv, None
  <1>6. ASSUME r \in Sync \ Linger PROVE Reply(r)'
    BY <1>0, <1>6, KindAssumption, ZenonT(30) DEF Types, BInv, Local, Shape,
       Fresh, SyncShape, PcOf, RecvBusy, Reply, Notifying, WaitAnswered, Go, entry,
       offv, None
  <1> QED
    BY <1>1, <1>2, <1>3, <1>4, <1>5, <1>6, OneView, Zenon

(* The step TakeRet of a request: it wakes, or is woken, and keeps its     *)
(* buffer.                                                                 *)
LEMMA TakeRetView ==
  ASSUME MInv, DInv, BInv, NEW r \in Reqs, TakeRet(r)
  PROVE  DInv' /\ BInv'
  <1>0. Types /\ Local(r) /\ WokenIfVisited(r) /\ (r \in Sync \ Linger => Reply(r))
    BY Zenon DEF MInv, DInv, BInv
  <1>1. buf' \in [Reqs -> {None, "recv", "entry", "taken", "freed", "lost"}]
    BY <1>0, Zenon DEF BInv, TakeRet, Go, entry, None
  <1>2. \A q \in Reqs \ {r} : SameView(q)
    BY <1>0, Zenon DEF BInv, Types, SameView, TakeRet, Go, entry
  <1>3. UNCHANGED <<offline_start, offv, msg_idr_process>> /\ idr' \subseteq idr
    BY Zenon DEF TakeRet, Go, entry
  <1>4. pc'[r] \in Processing <=> pc[r] \in Processing
    BY <1>0, Zenon DEF Types, Processing, TakeRet, Go, entry
  <1>5. WokenIfVisited(r)'
    BY <1>0, KindAssumption, Zenon DEF Types, Local, Shape, Fresh, SyncShape,
       AsyncShape, PageShape, PcOf, DInv, InProcess, Processing, Notifying,
       WokenIfVisited, Woken, Pending, TakeRet, Go, entry, offv, None
  <1>6. ASSUME r \in Sync \ Linger PROVE Reply(r)'
    BY <1>0, <1>6, KindAssumption, ZenonT(30) DEF Types, BInv, Local, Shape,
       Fresh, SyncShape, PcOf, RecvBusy, Reply, Notifying, TakeRet, Go, entry,
       offv, None
  <1> QED
    BY <1>1, <1>2, <1>3, <1>4, <1>5, <1>6, OneView, Zenon

(* The step WaitTimeout of a request: it wakes, or is woken, and keeps its *)
(* buffer.                                                                 *)
LEMMA WaitTimeoutView ==
  ASSUME MInv, DInv, BInv, NEW r \in Reqs, WaitTimeout(r)
  PROVE  DInv' /\ BInv'
  <1>0. Types /\ Local(r) /\ WokenIfVisited(r) /\ (r \in Sync \ Linger => Reply(r))
    BY Zenon DEF MInv, DInv, BInv
  <1>1. buf' \in [Reqs -> {None, "recv", "entry", "taken", "freed", "lost"}]
    BY <1>0, Zenon DEF BInv, WaitTimeout, Go, entry, None
  <1>2. \A q \in Reqs \ {r} : SameView(q)
    BY <1>0, Zenon DEF BInv, Types, SameView, WaitTimeout, Go, entry
  <1>3. UNCHANGED <<offline_start, offv, msg_idr_process>> /\ idr' \subseteq idr
    BY Zenon DEF WaitTimeout, Go, entry
  <1>4. pc'[r] \in Processing <=> pc[r] \in Processing
    BY <1>0, Zenon DEF Types, Processing, WaitTimeout, Go, entry
  <1>5. WokenIfVisited(r)'
    BY <1>0, KindAssumption, Zenon DEF Types, Local, Shape, Fresh, SyncShape,
       AsyncShape, PageShape, PcOf, DInv, InProcess, Processing, Notifying,
       WokenIfVisited, Woken, Pending, WaitTimeout, Go, entry, offv, None
  <1>6. ASSUME r \in Sync \ Linger PROVE Reply(r)'
    BY <1>0, <1>6, KindAssumption, ZenonT(30) DEF Types, BInv, Local, Shape,
       Fresh, SyncShape, PcOf, RecvBusy, Reply, Notifying, WaitTimeout, Go, entry,
       offv, None
  <1> QED
    BY <1>1, <1>2, <1>3, <1>4, <1>5, <1>6, OneView, Zenon

(* The step PutAfterWait of a request: it wakes, or is woken, and keeps    *)
(* its buffer.                                                             *)
LEMMA PutAfterWaitView ==
  ASSUME MInv, DInv, BInv, NEW r \in Reqs, PutAfterWait(r)
  PROVE  DInv' /\ BInv'
  <1>0. Types /\ Local(r) /\ WokenIfVisited(r) /\ (r \in Sync \ Linger => Reply(r))
    BY Zenon DEF MInv, DInv, BInv
  <1>1. buf' \in [Reqs -> {None, "recv", "entry", "taken", "freed", "lost"}]
    BY <1>0, Zenon DEF BInv, PutAfterWait, Go, put, PutN, entry, None
  <1>2. \A q \in Reqs \ {r} : SameView(q)
    BY <1>0, ZenonT(30) DEF BInv, Types, SameView, PutAfterWait, Go, put, PutN,
       entry
  <1>3. UNCHANGED <<offline_start, offv, msg_idr_process>> /\ idr' \subseteq idr
    BY Zenon DEF PutAfterWait, Go, put, PutN, entry
  <1>4. pc'[r] \in Processing <=> pc[r] \in Processing
    BY <1>0, Zenon DEF Types, Processing, PutAfterWait, Go, put, PutN, entry
  <1>5. WokenIfVisited(r)'
    BY <1>0, KindAssumption, Zenon DEF Types, Local, Shape, Fresh, SyncShape,
       AsyncShape, PageShape, PcOf, DInv, InProcess, Processing, Notifying,
       WokenIfVisited, Woken, Pending, PutAfterWait, Go, put, PutN, entry, offv,
       None
  <1>6. ASSUME r \in Sync \ Linger PROVE Reply(r)'
    BY <1>0, <1>6, KindAssumption, ZenonT(30) DEF Types, BInv, Local, Shape,
       Fresh, SyncShape, PcOf, Count, RequesterHolds, WorkHolds, RecvBusy, One,
       Reply, Notifying, PutAfterWait, Go, put, PutN, entry, offv, None
  <1> QED
    BY <1>1, <1>2, <1>3, <1>4, <1>5, <1>6, OneView, Zenon

(* The step StartWork of a request: it wakes, or is woken, and keeps its   *)
(* buffer.                                                                 *)
LEMMA StartWorkView ==
  ASSUME MInv, DInv, BInv, NEW r \in Reqs, StartWork(r)
  PROVE  DInv' /\ BInv'
  <1>0. Types /\ Local(r) /\ WokenIfVisited(r) /\ (r \in Sync \ Linger => Reply(r))
    BY Zenon DEF MInv, DInv, BInv
  <1>1. buf' \in [Reqs -> {None, "recv", "entry", "taken", "freed", "lost"}]
    BY <1>0, Zenon DEF BInv, StartWork, Pending, entry, None
  <1>2. \A q \in Reqs \ {r} : SameView(q)
    BY <1>0, Zenon DEF BInv, Types, SameView, StartWork, Pending, entry
  <1>3. UNCHANGED <<offline_start, offv, msg_idr_process>> /\ idr' \subseteq idr
    BY Zenon DEF StartWork, Pending, entry
  <1>4. pc'[r] \in Processing <=> pc[r] \in Processing
    BY <1>0, Zenon DEF Types, Processing, StartWork, Pending, entry
  <1>5. WokenIfVisited(r)'
    BY <1>0, KindAssumption, Zenon DEF Types, Local, Shape, Fresh, SyncShape,
       AsyncShape, PageShape, PcOf, DInv, InProcess, Processing, Notifying,
       WokenIfVisited, Woken, StartWork, Pending, entry, offv, None
  <1>6. ASSUME r \in Sync \ Linger PROVE Reply(r)'
    BY <1>0, <1>6, KindAssumption, ZenonT(30) DEF Types, BInv, Local, Shape,
       Fresh, SyncShape, PcOf, RecvBusy, Reply, Notifying, StartWork, Pending,
       entry, offv, None
  <1> QED
    BY <1>1, <1>2, <1>3, <1>4, <1>5, <1>6, OneView, Zenon

(* The step RunWork of a request: it wakes, or is woken, and keeps its     *)
(* buffer.                                                                 *)
LEMMA RunWorkView ==
  ASSUME MInv, DInv, BInv, NEW r \in Reqs, RunWork(r)
  PROVE  DInv' /\ BInv'
  <1>0. Types /\ Local(r) /\ WokenIfVisited(r) /\ (r \in Sync \ Linger => Reply(r))
    BY Zenon DEF MInv, DInv, BInv
  <1>1. buf' \in [Reqs -> {None, "recv", "entry", "taken", "freed", "lost"}]
    BY <1>0, Zenon DEF BInv, RunWork, Finish, PutN, entry, None
  <1>2. \A q \in Reqs \ {r} : SameView(q)
    BY <1>0, Zenon DEF BInv, Types, SameView, RunWork, Finish, PutN, entry
  <1>3. UNCHANGED <<offline_start, offv, msg_idr_process>> /\ idr' \subseteq idr
    BY Zenon DEF RunWork, Finish, PutN, entry
  <1>4. pc'[r] \in Processing <=> pc[r] \in Processing
    BY <1>0, Zenon DEF Types, Processing, RunWork, Finish, PutN, entry
  <1>5. WokenIfVisited(r)'
    BY <1>0, KindAssumption, ZenonT(30) DEF Types, Local, Shape, Fresh,
       SyncShape, AsyncShape, PageShape, PcOf, DInv, InProcess, Processing,
       Notifying, WokenIfVisited, Woken, Pending, RunWork, Finish, PutN, entry,
       offv, None
  <1>6. ASSUME r \in Sync \ Linger PROVE Reply(r)'
    BY <1>0, <1>6, KindAssumption, Zenon DEF Types, BInv, Local, Shape, Fresh,
       SyncShape, PcOf, Count, RequesterHolds, WorkHolds, RecvBusy, One, Reply,
       Notifying, RunWork, Finish, PutN, entry, offv, None
  <1> QED
    BY <1>1, <1>2, <1>3, <1>4, <1>5, <1>6, OneView, Zenon

(* The step hmdfs_find_msg_head of a request: it wakes, or is woken, and   *)
(* keeps its buffer.                                                       *)
LEMMA Hmdfs_find_msg_headView ==
  ASSUME MInv, DInv, BInv, NEW r \in Reqs, hmdfs_find_msg_head(r)
  PROVE  DInv' /\ BInv'
  <1>0. Types /\ Local(r) /\ WokenIfVisited(r) /\ (r \in Sync \ Linger => Reply(r))
    BY Zenon DEF MInv, DInv, BInv
  <1>1. buf' \in [Reqs -> {None, "recv", "entry", "taken", "freed", "lost"}]
    BY <1>0, Zenon DEF BInv, hmdfs_find_msg_head, Recv, entry, None
  <1>2. \A q \in Reqs \ {r} : SameView(q)
    BY <1>0 DEF BInv, Types, SameView, hmdfs_find_msg_head, Recv, entry
  <1>3. UNCHANGED <<offline_start, offv, msg_idr_process>> /\ idr' \subseteq idr
    BY Zenon DEF hmdfs_find_msg_head, Recv, entry
  <1>4. pc'[r] \in Processing <=> pc[r] \in Processing
    BY <1>0, Zenon DEF Types, Processing, hmdfs_find_msg_head, Recv, entry
  <1>5. WokenIfVisited(r)'
    BY <1>0, KindAssumption, Zenon DEF Types, Local, Shape, Fresh, SyncShape,
       AsyncShape, PageShape, PcOf, DInv, InProcess, Processing, Notifying,
       WokenIfVisited, Woken, Pending, hmdfs_find_msg_head, Recv, entry, offv, None
  <1>6. ASSUME r \in Sync \ Linger PROVE Reply(r)'
    <2>1. /\ UNCHANGED <<valid, wret, pc, out, off, offr>>
          /\ resp[r] = "remote" /\ RecvRunning(r)
          /\ \/ resp'[r] = "found" /\ buf'[r] = "recv" /\ r \in idr
             \/ resp'[r] = "done" /\ buf'[r] = "freed"
      BY <1>0, Zenon DEF Types, BInv, hmdfs_find_msg_head, Recv, entry, offv
    <2>2. off \notin {"drain"} \cup Notifying
      BY <1>6, <2>1, Zenon DEF RecvRunning, Notifying
    <2>3. out[r] # "replied" /\ wret[r] # "replied"
      BY <1>0, <1>6, <2>1, Zenon DEF Reply
    <2>4. pc[r] = "take_ret" => valid[r] = "END_RECV"
      BY <1>0, <1>6, Zenon DEF Reply
    <2>5. off' \notin {"drain"} \cup Notifying /\ off' # "wake_buf"
      BY <2>1, <2>2, ZenonT(30) DEF Notifying
    <2> QED
      BY <2>1, <2>3, <2>4, <2>5, Zenon DEF Reply, None
  <1> QED
    BY <1>1, <1>2, <1>3, <1>4, <1>5, <1>6, OneView, Zenon

(* The step CheckValid of a request: it wakes, or is woken, and keeps its  *)
(* buffer.                                                                 *)
LEMMA CheckValidView ==
  ASSUME MInv, DInv, BInv, NEW r \in Reqs, CheckValid(r)
  PROVE  DInv' /\ BInv'
  <1>0. Types /\ Local(r) /\ WokenIfVisited(r) /\ (r \in Sync \ Linger => Reply(r))
    BY Zenon DEF MInv, DInv, BInv
  <1>1. buf' \in [Reqs -> {None, "recv", "entry", "taken", "freed", "lost"}]
    BY <1>0, Zenon DEF BInv, CheckValid, Recv, entry, None
  <1>2. \A q \in Reqs \ {r} : SameView(q)
    BY <1>0 DEF BInv, Types, SameView, CheckValid, Recv, entry
  <1>3. UNCHANGED <<offline_start, offv, msg_idr_process>> /\ idr' \subseteq idr
    BY Zenon DEF CheckValid, Recv, entry
  <1>4. pc'[r] \in Processing <=> pc[r] \in Processing
    BY <1>0, Zenon DEF Types, Processing, CheckValid, Recv, entry
  <1>5. WokenIfVisited(r)'
    BY <1>0, KindAssumption, Zenon DEF Types, Local, Shape, Fresh, SyncShape,
       AsyncShape, PageShape, PcOf, DInv, InProcess, Processing, Notifying,
       WokenIfVisited, Woken, Pending, CheckValid, Recv, entry, offv, None
  <1>6. ASSUME r \in Sync \ Linger PROVE Reply(r)'
    BY <1>0, <1>6, KindAssumption, ZenonT(30) DEF Types, BInv, Local, Shape,
       Fresh, SyncShape, PcOf, RecvBusy, Reply, Notifying, CheckValid, Recv, entry,
       offv, None
  <1> QED
    BY <1>1, <1>2, <1>3, <1>4, <1>5, <1>6, OneView, Zenon

(* The step RecvWakes of a request: it wakes, or is woken, and keeps its   *)
(* buffer.                                                                 *)
LEMMA RecvWakesView ==
  ASSUME MInv, DInv, BInv, NEW r \in Reqs, RecvWakes(r)
  PROVE  DInv' /\ BInv'
  <1>0. Types /\ Local(r) /\ WokenIfVisited(r) /\ (r \in Sync \ Linger => Reply(r))
    BY Zenon DEF MInv, DInv, BInv
  <1>1. buf' \in [Reqs -> {None, "recv", "entry", "taken", "freed", "lost"}]
    BY <1>0, Zenon DEF BInv, RecvWakes, Recv, WakeupRet, WakeupBuf, entry, None
  <1>2. \A q \in Reqs \ {r} : SameView(q)
    BY <1>0 DEF BInv, Types, SameView, RecvWakes, Recv, WakeupRet, WakeupBuf, entry
  <1>3. UNCHANGED <<offline_start, offv, msg_idr_process>> /\ idr' \subseteq idr
    BY Zenon DEF RecvWakes, Recv, WakeupRet, WakeupBuf, entry
  <1>4. pc'[r] \in Processing <=> pc[r] \in Processing
    BY <1>0, Zenon DEF Types, Processing, RecvWakes, Recv, WakeupRet, WakeupBuf,
       entry
  <1>5. WokenIfVisited(r)'
    BY <1>0, KindAssumption, ZenonT(30) DEF Types, Local, Shape, Fresh,
       SyncShape, AsyncShape, PageShape, PcOf, DInv, InProcess, Processing,
       Notifying, WokenIfVisited, Woken, Pending, RecvWakes, Recv, WakeupRet,
       WakeupBuf, entry, offv, None
  <1>6. ASSUME r \in Sync \ Linger PROVE Reply(r)'
    <2>1. /\ UNCHANGED <<pc, out, off, offr>>
          /\ \/ /\ resp[r] = "wake" /\ resp'[r] = "wake_buf"
                /\ wret'[r] = "replied" /\ valid'[r] = valid[r] /\ buf'[r] = buf[r]
             \/ /\ resp[r] = "wake_buf" /\ resp'[r] = "put" /\ wret'[r] = wret[r]
                /\ valid'[r] = "END_RECV" /\ buf'[r] = "entry"
      BY <1>0, ZenonT(30) DEF Types, BInv, RecvWakes, Recv, WakeupRet,
         WakeupBuf, entry, offv, None
    <2>2. /\ RecvBusy(r) /\ buf[r] = "recv" /\ valid[r] = "SEND" /\ out[r] # "replied"
          /\ pc[r] # "take_ret"
      BY <1>0, <1>6, <2>1, Zenon DEF Reply, RecvBusy
    <2>3. off' \notin {"drain"} \cup Notifying
      BY <1>0, <1>6, <2>1, <2>2, Zenon DEF Reply
    <2>4. off' # "wake_buf"
      BY <2>3, Zenon DEF Notifying
    <2> QED
      BY <2>1, <2>2, <2>3, <2>4, Zenon DEF Reply, None
  <1> QED
    BY <1>1, <1>2, <1>3, <1>4, <1>5, <1>6, OneView, Zenon

(* The step RecvCancels of a request: it wakes, or is woken, and keeps its *)
(* buffer.                                                                 *)
LEMMA RecvCancelsView ==
  ASSUME MInv, DInv, BInv, NEW r \in Reqs, RecvCancels(r)
  PROVE  DInv' /\ BInv'
  <1>0. Types /\ Local(r) /\ WokenIfVisited(r) /\ (r \in Sync \ Linger => Reply(r))
    BY Zenon DEF MInv, DInv, BInv
  <1>1. buf' \in [Reqs -> {None, "recv", "entry", "taken", "freed", "lost"}]
    BY <1>0, Zenon DEF BInv, RecvCancels, Recv, Pending, entry, None
  <1>2. \A q \in Reqs \ {r} : SameView(q)
    BY <1>0 DEF BInv, Types, SameView, RecvCancels, Recv, Pending, entry
  <1>3. UNCHANGED <<offline_start, offv, msg_idr_process>> /\ idr' \subseteq idr
    BY Zenon DEF RecvCancels, Recv, Pending, entry
  <1>4. pc'[r] \in Processing <=> pc[r] \in Processing
    BY <1>0, Zenon DEF Types, Processing, RecvCancels, Recv, Pending, entry
  <1>5. WokenIfVisited(r)'
    BY <1>0, KindAssumption, Zenon DEF Types, Local, Shape, Fresh, SyncShape,
       AsyncShape, PageShape, PcOf, DInv, InProcess, Processing, Notifying,
       WokenIfVisited, Woken, RecvCancels, Recv, Pending, entry, offv, None
  <1>6. ASSUME r \in Sync \ Linger PROVE Reply(r)'
    BY <1>0, <1>6, KindAssumption, Zenon DEF Types, BInv, Local, Shape, Fresh,
       SyncShape, PcOf, RecvBusy, Reply, Notifying, RecvCancels, Recv, Pending,
       entry, offv, None
  <1> QED
    BY <1>1, <1>2, <1>3, <1>4, <1>5, <1>6, OneView, Zenon

(* The step RecvRequeues of a request: it wakes, or is woken, and keeps    *)
(* its buffer.                                                             *)
LEMMA RecvRequeuesView ==
  ASSUME MInv, DInv, BInv, NEW r \in Reqs, RecvRequeues(r)
  PROVE  DInv' /\ BInv'
  <1>0. Types /\ Local(r) /\ WokenIfVisited(r) /\ (r \in Sync \ Linger => Reply(r))
    BY Zenon DEF MInv, DInv, BInv
  <1>1. buf' \in [Reqs -> {None, "recv", "entry", "taken", "freed", "lost"}]
    BY <1>0, Zenon DEF BInv, RecvRequeues, Recv, entry, None
  <1>2. \A q \in Reqs \ {r} : SameView(q)
    BY <1>0, Zenon DEF BInv, Types, SameView, RecvRequeues, Recv, entry
  <1>3. UNCHANGED <<offline_start, offv, msg_idr_process>> /\ idr' \subseteq idr
    BY Zenon DEF RecvRequeues, Recv, entry
  <1>4. pc'[r] \in Processing <=> pc[r] \in Processing
    BY <1>0, Zenon DEF Types, Processing, RecvRequeues, Recv, entry
  <1>5. WokenIfVisited(r)'
    BY <1>0, KindAssumption, Zenon DEF Types, Local, Shape, Fresh, SyncShape,
       AsyncShape, PageShape, PcOf, DInv, InProcess, Processing, Notifying,
       WokenIfVisited, Woken, Pending, RecvRequeues, Recv, entry, offv, None
  <1>6. ASSUME r \in Sync \ Linger PROVE Reply(r)'
    BY <1>0, <1>6, KindAssumption, ZenonT(30) DEF Types, BInv, Local, Shape,
       Fresh, SyncShape, PcOf, RecvBusy, Reply, Notifying, RecvRequeues, Recv,
       entry, offv, None
  <1> QED
    BY <1>1, <1>2, <1>3, <1>4, <1>5, <1>6, OneView, Zenon

(* The step RecvFillsPage of a request: it wakes, or is woken, and keeps   *)
(* its buffer.                                                             *)
LEMMA RecvFillsPageView ==
  ASSUME MInv, DInv, BInv, NEW r \in Reqs, RecvFillsPage(r)
  PROVE  DInv' /\ BInv'
  <1>0. Types /\ Local(r) /\ WokenIfVisited(r) /\ (r \in Sync \ Linger => Reply(r))
    BY Zenon DEF MInv, DInv, BInv
  <1>1. buf' \in [Reqs -> {None, "recv", "entry", "taken", "freed", "lost"}]
    BY <1>0, Zenon DEF BInv, RecvFillsPage, Recv, entry, None
  <1>2. \A q \in Reqs \ {r} : SameView(q)
    BY <1>0, Zenon DEF BInv, Types, SameView, RecvFillsPage, Recv, entry
  <1>3. UNCHANGED <<offline_start, offv, msg_idr_process>> /\ idr' \subseteq idr
    BY Zenon DEF RecvFillsPage, Recv, entry
  <1>4. pc'[r] \in Processing <=> pc[r] \in Processing
    BY <1>0, Zenon DEF Types, Processing, RecvFillsPage, Recv, entry
  <1>5. WokenIfVisited(r)'
    BY <1>0, KindAssumption, Zenon DEF Types, Local, Shape, Fresh, SyncShape,
       AsyncShape, PageShape, PcOf, DInv, InProcess, Processing, Notifying,
       WokenIfVisited, Woken, Pending, RecvFillsPage, Recv, entry, offv, None
  <1>6. ASSUME r \in Sync \ Linger PROVE Reply(r)'
    BY <1>0, <1>6, KindAssumption, Zenon DEF Types, BInv, Local, Shape, Fresh,
       SyncShape, PcOf, RecvBusy, Reply, Notifying, RecvFillsPage, Recv, entry,
       offv, None
  <1> QED
    BY <1>1, <1>2, <1>3, <1>4, <1>5, <1>6, OneView, Zenon

(* Two of the four who may hold a request: its count is not one.           *)
LEMMA TwoHold ==
  \A a, b, c, d \in {0, 1} : a = 1 /\ (c = 1 \/ d = 1) => a + b + c + d # 1
  OBVIOUS

(* The step RecvPut of a request: it wakes, or is woken, and keeps its     *)
(* buffer.                                                                 *)
LEMMA RecvPutView ==
  ASSUME MInv, DInv, BInv, NEW r \in Reqs, RecvPut(r)
  PROVE  DInv' /\ BInv'
  <1>0. Types /\ Local(r) /\ WokenIfVisited(r) /\ (r \in Sync \ Linger => Reply(r))
    BY Zenon DEF MInv, DInv, BInv
  <1>1. buf' \in [Reqs -> {None, "recv", "entry", "taken", "freed", "lost"}]
    BY <1>0, Zenon DEF BInv, RecvPut, Recv, put, PutN, entry, None
  <1>2. \A q \in Reqs \ {r} : SameView(q)
    BY <1>0, Zenon DEF BInv, Types, SameView, RecvPut, Recv, put, PutN, entry
  <1>3. UNCHANGED <<offline_start, offv, msg_idr_process>> /\ idr' \subseteq idr
    BY Zenon DEF RecvPut, Recv, put, PutN, entry
  <1>4. pc'[r] \in Processing <=> pc[r] \in Processing
    BY <1>0, Zenon DEF Types, Processing, RecvPut, Recv, put, PutN, entry
  <1>5. WokenIfVisited(r)'
    BY <1>0, KindAssumption, Zenon DEF Types, Local, Shape, Fresh, SyncShape,
       AsyncShape, PageShape, PcOf, DInv, InProcess, Processing, Notifying,
       WokenIfVisited, Woken, Pending, RecvPut, Recv, put, PutN, entry, offv, None
  <1>6. ASSUME r \in Sync \ Linger PROVE Reply(r)'
    <2>1. /\ UNCHANGED <<pc, out, valid, wret, off, offr>>
          /\ resp[r] = "put" /\ resp'[r] = "done"
          /\ buf'[r] = buf[r] \/ (ref[r] = 1 /\ buf[r] = "entry" /\ buf'[r] = "freed")
      BY <1>0, ZenonT(30) DEF Types, BInv, RecvPut, Recv, put, PutN, entry, offv
    <2>2. pc[r] \in {"sent", "wait"} => ref[r] # 1
      <3>1. ref[r] = One(RequesterHolds(r)) + One(WorkHolds(r)) + One(RecvBusy(r)) + One(offr = r)
        BY <1>0, Zenon DEF Local, Count
      <3>2. One(WorkHolds(r)) \in {0, 1} /\ One(offr = r) \in {0, 1}
        BY Zenon DEF One
      <3>3. One(RecvBusy(r)) = 1
        BY <2>1, Zenon DEF One, RecvBusy
      <3>4. pc[r] \in {"sent", "wait"} => One(RequesterHolds(r)) = 1
        BY <1>6, Zenon DEF One, RequesterHolds
      <3>5. One(RequesterHolds(r)) \in {0, 1}
        BY Zenon DEF One
      <3> QED
        BY <3>1, <3>2, <3>3, <3>4, <3>5, TwoHold, Zenon
    <2>3. off' \notin {"drain"} \cup Notifying
      BY <1>0, <1>6, <2>1, Zenon DEF Reply, RecvBusy
    <2>4. off' # "wake_buf"
      BY <2>3, Zenon DEF Notifying
    <2> QED
      BY <1>0, <1>6, <2>1, <2>2, <2>3, <2>4, Zenon DEF Reply, None
  <1> QED
    BY <1>1, <1>2, <1>3, <1>4, <1>5, <1>6, OneView, Zenon

(* An entry is allocated, and msg_idr_process counts it: no disconnect has *)
(* begun.                                                                  *)
LEMMA Hmdfs_alloc_msg_idrView ==
  ASSUME MInv, DInv, BInv, NEW r \in Reqs, hmdfs_alloc_msg_idr(r)
  PROVE  DInv' /\ BInv'
  <1>0. Types /\ Local(r) /\ WokenIfVisited(r) /\ (r \in Sync \ Linger => Reply(r))
    BY Zenon DEF MInv, DInv, BInv
  <1>1. UNCHANGED <<offline_start, offv, buf>> /\ \A q \in Reqs \ {r} : SameView(q)
    BY <1>0 DEF BInv, Types, SameView, hmdfs_alloc_msg_idr, FailEarly, Return, Go
  <1>2. ASSUME r \in Sync \ Linger PROVE Reply(r)'
    BY <1>0, <1>2, KindAssumption, ZenonT(30) DEF Types, BInv, Local, Shape,
       Fresh, RecvBusy, Reply, Notifying, hmdfs_alloc_msg_idr, FailEarly, Return,
       Go, offv, None
  <1>3. CASE offline_start = "yes"
    <2>1. /\ pc'[r] \in Processing <=> pc[r] \in Processing
          /\ UNCHANGED <<msg_idr_process, idr>>
      BY <1>0, <1>3, Zenon DEF Types, Processing, hmdfs_alloc_msg_idr,
         FailEarly, Return
    <2>2. WokenIfVisited(r)'
      BY <1>0, <1>3, KindAssumption, ZenonT(30) DEF Types, Local, Shape, Fresh,
         WokenIfVisited, Woken, Pending, hmdfs_alloc_msg_idr, FailEarly, Return,
         offv, None
    <2>3. buf' \in [Reqs -> {None, "recv", "entry", "taken", "freed", "lost"}]
      BY <1>1, Zenon DEF BInv
    <2> QED
      BY <1>1, <1>2, <2>1, <2>2, <2>3, OneView, Zenon
  <1>4. CASE offline_start # "yes"
    <2>1. off = "idle"
      BY <1>4, Zenon DEF DInv
    <2>2. pc[r] \notin Processing /\ pc'[r] \in Processing /\ msg_idr_process' = msg_idr_process + 1
      BY <1>0, <1>4, Zenon DEF Types, Processing, hmdfs_alloc_msg_idr, Go
    <2>3. InProcess' = InProcess \cup {r} /\ r \notin InProcess
      BY <1>1, <2>2, Zenon DEF InProcess, SameView
    <2>4. IsFiniteSet(InProcess') /\ Cardinality(InProcess') = Cardinality(InProcess) + 1
      BY <2>3, FS_AddElement, Zenon DEF DInv
    <2>5. DInv'
      BY <1>1, <2>1, <2>2, <2>4, Zenon DEF DInv, WokenIfVisited, Notifying, offv
    <2>6. ASSUME NEW q \in Sync \ Linger, q # r PROVE Reply(q)'
      <3>1. q \in Reqs \ {r} /\ Reply(q)
        BY <2>6, Zenon DEF Reqs, BInv
      <3> QED
        BY <1>1, <3>1, Zenon DEF Reply, RecvBusy, SameView, offv
    <2>7. BInv'
      BY <1>1, <1>2, <2>6, ZenonT(30) DEF BInv
    <2> QED
      BY <2>5, <2>7, Zenon
  <1> QED
    BY <1>3, <1>4, Zenon

(* hmdfs_dec_msg_idr_process: one request less for the disconnect to wait  *)
(* for.                                                                    *)
LEMMA DecProcessView ==
  ASSUME MInv, DInv, BInv, NEW r \in Reqs, DecProcess(r)
  PROVE  DInv' /\ BInv'
  <1>0. Types /\ Local(r) /\ WokenIfVisited(r) /\ (r \in Sync \ Linger => Reply(r))
    BY Zenon DEF MInv, DInv, BInv
  <1>1. UNCHANGED <<offline_start, offv, buf, idr>> /\ \A q \in Reqs \ {r} : SameView(q)
    BY <1>0 DEF BInv, Types, SameView, DecProcess, Return, Go, entry
  <1>2. pc[r] \in Processing /\ pc'[r] \notin Processing /\ msg_idr_process' = msg_idr_process - 1
    BY <1>0, ZenonT(30) DEF Types, Processing, DecProcess, Return, Go
  <1>3. InProcess' = InProcess \ {r} /\ r \in InProcess
    BY <1>1, <1>2, Zenon DEF InProcess, SameView
  <1>4. IsFiniteSet(InProcess') /\ Cardinality(InProcess') = Cardinality(InProcess) - 1
    BY <1>3, FS_RemoveElement, Zenon DEF DInv
  <1>5. off \notin Notifying
    BY <1>3, Zenon DEF DInv
  <1>6. off # "stop"
    BY <1>5, Zenon DEF Notifying
  <1>7. DInv'
    BY <1>1, <1>2, <1>4, <1>5, <1>6, Zenon DEF DInv, WokenIfVisited, offv
  <1>8. ASSUME r \in Sync \ Linger PROVE Reply(r)'
    BY <1>0, <1>8, KindAssumption, ZenonT(30) DEF Types, BInv, Local, Shape,
       SyncShape, RecvBusy, Reply, DecProcess, Return, Go, entry, offv, None
  <1>9. ASSUME NEW q \in Sync \ Linger, q # r PROVE Reply(q)'
    <2>1. q \in Reqs \ {r} /\ Reply(q)
      BY <1>9, Zenon DEF Reqs, BInv
    <2> QED
      BY <1>1, <2>1, Zenon DEF Reply, RecvBusy, SameView, offv
  <1>10. BInv'
    BY <1>1, <1>8, <1>9, ZenonT(30) DEF BInv
  <1> QED
    BY <1>7, <1>10, Zenon

(* A disconnect moves on and touches no entry.                             *)
LEMMA QuietView ==
  ASSUME MInv, DInv, BInv,
         \/ hmdfs_start_process_offline \/ SetOffline \/ CloseConnections \/ WaitProcess
         \/ OffDone \/ hmdfs_stop_process_offline \/ PeerOnline
  PROVE  DInv' /\ BInv'
  <1>1. UNCHANGED <<entry, pc, out, resp, msg_idr_process>>
    BY Zenon DEF hmdfs_start_process_offline, SetOffline, CloseConnections,
       WaitProcess, OffDone, hmdfs_stop_process_offline, PeerOnline
  <1>2. InProcess' = InProcess
    BY <1>1, Zenon DEF InProcess
  <1>3. off' # "idle" => offline_start' = "yes"
    BY Zenon DEF DInv, hmdfs_start_process_offline, SetOffline,
       CloseConnections, WaitProcess, OffDone, hmdfs_stop_process_offline,
       PeerOnline, offv
  <1>4. off' \in Notifying => off \in Notifying \/ (WaitProcess /\ visited' = {})
    BY Zenon DEF Notifying, hmdfs_start_process_offline, SetOffline,
       CloseConnections, WaitProcess, OffDone, hmdfs_stop_process_offline,
       PeerOnline, offv
  <1>5. off' \in Notifying => InProcess' = {}
    <2>1. WaitProcess => InProcess = {}
      BY FS_EmptySet, Zenon DEF DInv, WaitProcess
    <2> QED
      BY <1>2, <1>4, <2>1, Zenon DEF DInv
  <1>6. off' = "stop" => idr' \subseteq visited'
    BY <1>1, Zenon DEF DInv, hmdfs_start_process_offline, SetOffline,
       CloseConnections, WaitProcess, OffDone, hmdfs_stop_process_offline,
       PeerOnline, offv, entry
  <1>7. off' \notin {"wake", "wake_buf"} \/ (off' = off /\ offr' = offr)
    BY Zenon DEF hmdfs_start_process_offline, SetOffline, CloseConnections,
       WaitProcess, OffDone, hmdfs_stop_process_offline, PeerOnline, offv
  <1>8. off \in {"wake", "wake_buf"} => off' = off /\ offr' = offr /\ visited' = visited
    BY Zenon DEF hmdfs_start_process_offline, SetOffline, CloseConnections,
       WaitProcess, OffDone, hmdfs_stop_process_offline, PeerOnline, offv
  <1>9. off' \in Notifying => visited' = visited \/ visited' = {}
    BY <1>4, Zenon DEF Notifying, hmdfs_start_process_offline, SetOffline,
       CloseConnections, WaitProcess, OffDone, hmdfs_stop_process_offline,
       PeerOnline, offv
  <1>10. ASSUME NEW r \in Reqs PROVE WokenIfVisited(r)'
    <2>1. WokenIfVisited(r)
      BY Zenon DEF DInv
    <2>2. Woken(r)' <=> Woken(r)
      BY <1>1, Zenon DEF Woken, Pending, entry
    <2> QED
      BY <1>4, <1>8, <1>9, <2>1, <2>2, Zenon DEF WokenIfVisited
  <1>11. ASSUME NEW r \in Sync \ Linger PROVE Reply(r)'
    <2>1. Reply(r) /\ r \in Reqs \ Linger
      BY Zenon DEF BInv, Reqs
    <2>2. off' \in {"drain"} \cup Notifying => off \in {"drain"} \cup Notifying \/ ~RecvBusy(r)
      BY <2>1, Zenon DEF Notifying, hmdfs_start_process_offline, SetOffline,
         CloseConnections, WaitProcess, OffDone, hmdfs_stop_process_offline,
         PeerOnline, offv
    <2> QED
      BY <1>1, <1>7, <2>1, <2>2, Zenon DEF Reply, RecvBusy, entry
  <1>12. DInv'
    BY <1>1, <1>2, <1>3, <1>5, <1>6, <1>10, Zenon DEF DInv
  <1>13. BInv'
    BY <1>1, <1>11, Zenon DEF BInv, entry
  <1> QED
    BY <1>12, <1>13, Zenon

(* A disconnect that is past the counter handles one entry: if the entries *)
(* stay woken and the waiters' results whole, the invariant is kept.       *)
LEMMA WalkView ==
  ASSUME MInv, DInv, BInv, off \in Notifying, off' \in Notifying \ {"stop"},
         UNCHANGED <<pc, offline_start, msg_idr_process>>,
         buf' \in [Reqs -> {None, "recv", "entry", "taken", "freed", "lost"}],
         \A r \in Reqs : WokenIfVisited(r)', \A r \in Sync \ Linger : Reply(r)'
  PROVE  DInv' /\ BInv'
  <1>1. InProcess' = InProcess
    BY Zenon DEF InProcess
  <1>2. off # "idle"
    BY Zenon DEF Notifying
  <1> QED
    BY <1>1, <1>2, Zenon DEF DInv, BInv

(* hmdfs_get_msg_next: the next entry.                                     *)
LEMMA GetMsgNextView ==
  ASSUME MInv, DInv, BInv, NEW r \in Reqs, hmdfs_get_msg_next(r)
  PROVE  DInv' /\ BInv'
  <1>0. Types /\ Walk
    BY Zenon DEF MInv
  <1>1. r \in Reqs
    BY <1>0, KindAssumption, Zenon DEF Types, Walk, hmdfs_get_msg_next
  <1>2. Local(r) /\ WokenIfVisited(r) /\ (r \in Sync \ Linger => Reply(r))
    BY <1>1, Zenon DEF MInv, DInv, BInv
  <1>3. /\ off \in Notifying /\ off' \in Notifying \ {"stop"}
        /\ UNCHANGED <<pc, offline_start, msg_idr_process>>
    BY Zenon DEF Notifying, hmdfs_get_msg_next
  <1>4. buf' \in [Reqs -> {None, "recv", "entry", "taken", "freed", "lost"}]
    BY <1>0, <1>1, Zenon DEF BInv, hmdfs_get_msg_next, None
  <1>5. \A q \in Reqs \ {r} : /\ SameView(q) /\ (offr' = q => FALSE) /\ (offr = q => FALSE)
                              /\ q \in visited' <=> q \in visited
    BY <1>0, <1>1, KindAssumption DEF BInv, Types, Walk, SameView, hmdfs_get_msg_next, None
  <1>6. ASSUME NEW q \in Reqs \ {r} PROVE WokenIfVisited(q)'
    <2>1. WokenIfVisited(q)
      BY <1>6, Zenon DEF DInv
    <2> QED
      BY <1>3, <1>5, <1>6, <2>1, Zenon DEF WokenIfVisited, Woken, Pending,
         SameView
  <1>7. WokenIfVisited(r)'
    BY <1>0, <1>1, <1>2, KindAssumption, Zenon DEF Types, Local, Shape,
       SyncShape, PcOf, Notifying, WokenIfVisited, Woken, Pending,
       hmdfs_get_msg_next, None
  <1>8. ASSUME NEW q \in Sync \ Linger, q # r PROVE Reply(q)'
    <2>1. q \in Reqs \ {r} /\ Reply(q)
      BY <1>8, Zenon DEF Reqs, BInv
    <2> QED
      BY <1>3, <1>5, <2>1, Zenon DEF Reply, RecvBusy, SameView
  <1>9. ASSUME r \in Sync \ Linger PROVE Reply(r)'
    BY <1>0, <1>1, <1>2, <1>9, KindAssumption, Zenon DEF Types, BInv, Local,
       Shape, SyncShape, PcOf, RecvBusy, Reply, Notifying, Count, RequesterHolds,
       WorkHolds, One, hmdfs_get_msg_next, None
  <1> QED
    BY <1>3, <1>4, <1>6, <1>7, <1>8, <1>9, WalkView, Zenon

(* hmdfs_response_wakeup of a waiter, with -ETIME.                         *)
LEMMA OffWakesSyncView ==
  ASSUME MInv, DInv, BInv, NEW r, r = offr, OffWakesSync
  PROVE  DInv' /\ BInv'
  <1>0. Types /\ Walk
    BY Zenon DEF MInv
  <1>1. r \in Reqs
    BY <1>0, KindAssumption, Zenon DEF Types, Walk, OffWakesSync
  <1>2. Local(r) /\ WokenIfVisited(r) /\ (r \in Sync \ Linger => Reply(r))
    BY <1>1, Zenon DEF MInv, DInv, BInv
  <1>3. /\ off \in Notifying /\ off' \in Notifying \ {"stop"}
        /\ UNCHANGED <<pc, offline_start, msg_idr_process>>
    BY Zenon DEF Notifying, OffWakesSync
  <1>4. buf' \in [Reqs -> {None, "recv", "entry", "taken", "freed", "lost"}]
    BY <1>0, <1>1, Zenon DEF BInv, OffWakesSync, WakeupRet, WakeupBuf, None
  <1>5. \A q \in Reqs \ {r} : /\ SameView(q) /\ (offr' = q => FALSE) /\ (offr = q => FALSE)
                              /\ q \in visited' <=> q \in visited
    BY <1>0, <1>1, KindAssumption, ZenonT(30) DEF BInv, Types, Walk, SameView,
       OffWakesSync, WakeupRet, WakeupBuf, None
  <1>6. ASSUME NEW q \in Reqs \ {r} PROVE WokenIfVisited(q)'
    <2>1. WokenIfVisited(q)
      BY <1>6, Zenon DEF DInv
    <2> QED
      BY <1>3, <1>5, <1>6, <2>1, Zenon DEF WokenIfVisited, Woken, Pending,
         SameView
  <1>7. WokenIfVisited(r)'
    BY <1>0, <1>1, <1>2, KindAssumption, Zenon DEF Types, Local, Shape,
       SyncShape, PcOf, Notifying, WokenIfVisited, Woken, Pending, OffWakesSync,
       WakeupRet, WakeupBuf, None
  <1>8. ASSUME NEW q \in Sync \ Linger, q # r PROVE Reply(q)'
    <2>1. q \in Reqs \ {r} /\ Reply(q)
      BY <1>8, Zenon DEF Reqs, BInv
    <2> QED
      BY <1>3, <1>5, <2>1, Zenon DEF Reply, RecvBusy, SameView
  <1>9. ASSUME r \in Sync \ Linger PROVE Reply(r)'
    BY <1>0, <1>1, <1>2, <1>9, KindAssumption DEF Types, BInv, Local, Shape, SyncShape,
           PcOf, RecvBusy, Reply, Notifying, Count, RequesterHolds, WorkHolds, One,
           OffWakesSync, WakeupRet, WakeupBuf, None
  <1> QED
    BY <1>3, <1>4, <1>6, <1>7, <1>8, <1>9, WalkView, Zenon

(* hmdfs_wakeup_parasite, hmdfs_wakeup_async_work.                         *)
LEMMA OffRunsWorkView ==
  ASSUME MInv, DInv, BInv, NEW r, r = offr, OffRunsWork
  PROVE  DInv' /\ BInv'
  <1>0. Types /\ Walk
    BY Zenon DEF MInv
  <1>1. r \in Reqs
    BY <1>0, KindAssumption, Zenon DEF Types, Walk, OffRunsWork
  <1>2. Local(r) /\ WokenIfVisited(r) /\ (r \in Sync \ Linger => Reply(r))
    BY <1>1, Zenon DEF MInv, DInv, BInv
  <1>3. /\ off \in Notifying /\ off' \in Notifying \ {"stop"}
        /\ UNCHANGED <<pc, offline_start, msg_idr_process>>
    BY Zenon DEF Notifying, OffRunsWork
  <1>4. buf' \in [Reqs -> {None, "recv", "entry", "taken", "freed", "lost"}]
    BY <1>0, <1>1, Zenon DEF BInv, OffRunsWork, Finish, PutN, Pending, None
  <1>5. \A q \in Reqs \ {r} : /\ SameView(q) /\ (offr' = q => FALSE) /\ (offr = q => FALSE)
                              /\ q \in visited' <=> q \in visited
    BY <1>0, <1>1, KindAssumption DEF BInv, Types, Walk, SameView, OffRunsWork, Finish, PutN,
       Pending, None
  <1>6. ASSUME NEW q \in Reqs \ {r} PROVE WokenIfVisited(q)'
    <2>1. WokenIfVisited(q)
      BY <1>6, Zenon DEF DInv
    <2> QED
      BY <1>3, <1>5, <1>6, <2>1, Zenon DEF WokenIfVisited, Woken, Pending,
         SameView
  <1>7. WokenIfVisited(r)'
    BY <1>0, <1>1, <1>2, KindAssumption, Zenon DEF Types, Local, Shape,
       SyncShape, PcOf, Notifying, WokenIfVisited, Woken, OffRunsWork, Finish,
       PutN, Pending, None
  <1>8. ASSUME NEW q \in Sync \ Linger, q # r PROVE Reply(q)'
    <2>1. q \in Reqs \ {r} /\ Reply(q)
      BY <1>8, Zenon DEF Reqs, BInv
    <2> QED
      BY <1>3, <1>5, <2>1, Zenon DEF Reply, RecvBusy, SameView
  <1>9. ASSUME r \in Sync \ Linger PROVE Reply(r)'
    BY <1>0, <1>1, <1>2, <1>9, KindAssumption, ZenonT(30) DEF Types, BInv,
       Local, Shape, SyncShape, PcOf, RecvBusy, Reply, Notifying, Count,
       RequesterHolds, WorkHolds, One, OffRunsWork, Finish, PutN, Pending, None
  <1> QED
    BY <1>3, <1>4, <1>6, <1>7, <1>8, <1>9, WalkView, Zenon

(* The disconnect puts its reference.                                      *)
LEMMA OffPutView ==
  ASSUME MInv, DInv, BInv, NEW r, r = offr, OffPut
  PROVE  DInv' /\ BInv'
  <1>0. Types /\ Walk
    BY Zenon DEF MInv
  <1>1. r \in Reqs
    BY <1>0, KindAssumption, Zenon DEF Types, Walk, OffPut
  <1>2. Local(r) /\ WokenIfVisited(r) /\ (r \in Sync \ Linger => Reply(r))
    BY <1>1, Zenon DEF MInv, DInv, BInv
  <1>3. /\ off \in Notifying /\ off' \in Notifying \ {"stop"}
        /\ UNCHANGED <<pc, offline_start, msg_idr_process>>
    BY Zenon DEF Notifying, OffPut
  <1>4. buf' \in [Reqs -> {None, "recv", "entry", "taken", "freed", "lost"}]
    BY <1>0, <1>1, Zenon DEF BInv, OffPut, put, PutN, None
  <1>5. \A q \in Reqs \ {r} : /\ SameView(q) /\ (offr' = q => FALSE) /\ (offr = q => FALSE)
                              /\ q \in visited' <=> q \in visited
    BY <1>0, <1>1, KindAssumption, ZenonT(30) DEF BInv, Types, Walk, SameView,
       OffPut, put, PutN, None
  <1>6. ASSUME NEW q \in Reqs \ {r} PROVE WokenIfVisited(q)'
    <2>1. WokenIfVisited(q)
      BY <1>6, Zenon DEF DInv
    <2> QED
      BY <1>3, <1>5, <1>6, <2>1, Zenon DEF WokenIfVisited, Woken, Pending,
         SameView
  <1>7. WokenIfVisited(r)'
    BY <1>0, <1>1, <1>2, KindAssumption, ZenonT(30) DEF Types, Local, Shape,
       SyncShape, PcOf, Notifying, WokenIfVisited, Woken, Pending, OffPut, put,
       PutN, None
  <1>8. ASSUME NEW q \in Sync \ Linger, q # r PROVE Reply(q)'
    <2>1. q \in Reqs \ {r} /\ Reply(q)
      BY <1>8, Zenon DEF Reqs, BInv
    <2> QED
      BY <1>3, <1>5, <2>1, Zenon DEF Reply, RecvBusy, SameView
  <1>9. ASSUME r \in Sync \ Linger PROVE Reply(r)'
    <2>1. /\ UNCHANGED <<pc, out, valid, wret, resp>> /\ off' = "notify"
          /\ buf'[r] = buf[r] \/ (ref[r] = 1 /\ buf[r] = "entry" /\ buf'[r] = "freed")
      BY <1>0, <1>1, Zenon DEF Types, BInv, OffPut, put, PutN
    <2>2. pc[r] \in {"sent", "wait"} => ref[r] # 1
      <3>1. ref[r] = One(RequesterHolds(r)) + One(WorkHolds(r)) + One(RecvBusy(r)) + One(offr = r)
        BY <1>2, Zenon DEF Local, Count
      <3>2. One(WorkHolds(r)) \in {0, 1} /\ One(RecvBusy(r)) \in {0, 1}
        BY Zenon DEF One
      <3>3. One(offr = r) = 1
        BY Zenon DEF One
      <3>4. pc[r] \in {"sent", "wait"} => One(RequesterHolds(r)) = 1
        BY <1>9, Zenon DEF One, RequesterHolds
      <3>5. One(RequesterHolds(r)) \in {0, 1}
        BY Zenon DEF One
      <3> QED
        BY <3>1, <3>2, <3>3, <3>4, <3>5, TwoHold, Zenon
    <2>3. ~RecvBusy(r)
      BY <1>2, <1>3, <1>9, Zenon DEF Reply
    <2>4. ~RecvBusy(r)'
      BY <2>1, <2>3, Zenon DEF RecvBusy
    <2> QED
      BY <1>2, <1>9, <2>1, <2>2, <2>4, Zenon DEF Reply
  <1> QED
    BY <1>3, <1>4, <1>6, <1>7, <1>8, <1>9, WalkView, Zenon

(* The first state.                                                        *)
LEMMA InitView == Init => DInv /\ BInv
  <1> SUFFICES ASSUME Init PROVE DInv /\ BInv
    BY Zenon
  <1>1. InProcess = {}
    BY Zenon DEF Init, InProcess, Processing
  <1>2. DInv
    BY <1>1, FS_EmptySet, Zenon DEF Init, DInv, WokenIfVisited, Notifying
  <1>3. BInv
    BY Zenon DEF Init, BInv, Reply, RecvBusy, Notifying, Reqs, None
  <1> QED
    BY <1>2, <1>3, Zenon

(* Every step.                                                             *)
LEMMA NextView == MInv /\ DInv /\ BInv /\ [Next]_vars => DInv' /\ BInv'
  <1> SUFFICES ASSUME MInv, DInv, BInv, [Next]_vars PROVE DInv' /\ BInv'
    BY Zenon
  <1>1. ASSUME NEW r \in Reqs, CheckOnline(r) \/ Requester(r) PROVE DInv' /\ BInv'
    BY <1>1, CheckOnlineView, Hmdfs_alloc_msg_idrView, QueuePageTimeoutView,
       SendOKView, SendFailsView, QueueAsyncTimeoutView, StoreWfiredView,
       DecProcessView, PutAfterSendView, CancelPageView, WaitAnsweredView,
       TakeRetView, WaitTimeoutView, PutAfterWaitView, ZenonT(30) DEF Requester
  <1>2. ASSUME NEW r \in Reqs, Worker(r) \/ hmdfs_find_msg_head(r) \/ Receiver(r) PROVE DInv' /\ BInv'
    BY <1>2, StartWorkView, RunWorkView, Hmdfs_find_msg_headView,
       CheckValidView, RecvWakesView, RecvCancelsView, RecvRequeuesView,
       RecvFillsPageView, RecvPutView, ZenonT(30) DEF Worker, Receiver
  <1>3. CASE hmdfs_start_process_offline \/ PeerOnline
    BY <1>3, QuietView, Zenon
  <1>4. CASE Disconnect
    BY <1>4, QuietView, GetMsgNextView, OffWakesSyncView, OffRunsWorkView,
       OffPutView, Zenon DEF Disconnect
  <1>5. CASE UNCHANGED vars
    <2>1. UNCHANGED <<entry, pc, out, resp, msg_idr_process, offline_start, offv>>
      BY <1>5, Zenon DEF vars
    <2>2. InProcess' = InProcess
      BY <2>1, Zenon DEF InProcess
    <2>3. DInv'
      BY <2>1, <2>2, Zenon DEF DInv, WokenIfVisited, Woken, Pending, entry, offv
    <2>4. BInv'
      BY <2>1, ZenonT(30) DEF BInv, Reply, RecvBusy, entry, offv
    <2> QED
      BY <2>3, <2>4, Zenon
  <1> QED
    BY <1>1, <1>2, <1>3, <1>4, <1>5, Zenon DEF Next

(* A disconnect that has run hmdfs_client_offline_notify has left nobody   *)
(* waiting, for any requests and any number of disconnects.  The           *)
(* disconnect waits for msg_idr_process, which is exact, so the entries it *)
(* walks are all there are.                                                *)
THEOREM DisconnectSafe == Spec => []OffWakesAll
  <1>1. MInv /\ DInv => OffWakesAll
    <2> SUFFICES ASSUME MInv, DInv, off = "stop", NEW r \in Reqs PROVE Woken(r)
      BY Zenon DEF OffWakesAll, Woken
    <2>1. CASE r \in visited
      BY <2>1, Zenon DEF DInv, WokenIfVisited, Notifying
    <2>2. CASE r \notin visited
      <3>1. r \notin idr /\ Types /\ Local(r)
        BY <2>2, Zenon DEF MInv, DInv
      <3>2. ~RequesterHolds(r) /\ ~WorkHolds(r)
        BY <3>1 DEF Local, Count, One
      <3>3. pc[r] # "wait" /\ ~Pending(r)
        BY <3>1, <3>2, Zenon DEF Local, Shape, PcOf, RequesterHolds, WorkHolds,
           Pending
      <3> QED
        BY <3>3, Zenon DEF Woken
    <2> QED
      BY <2>1, <2>2, Zenon
  <1> QED
    BY <1>1, MInvariant, InitView, NextView, PTL DEF Spec

(* A waiter that returns success has the response's buffer, for any        *)
(* requests: hmdfs_response_wakeup stores ret before it marks the entry,   *)
(* so the waiter of hmdfs_sendmessage_request never takes one without the  *)
(* other.                                                                  *)
THEOREM RepliesSafe == Spec => []ReplyHasBuffer
  <1>1. BInv => ReplyHasBuffer
    BY Zenon DEF BInv, Reply, ReplyHasBuffer
  <1> QED
    BY <1>1, MInvariant, InitView, NextView, PTL DEF Spec

=============================================================================
