------------------------------- MODULE MsgIdr -------------------------------
(***************************************************************************)
(* Requests of one hmdfs client to one peer and the table (msg_idr) that   *)
(* finds them again when the response comes (hmdfs/comm/socket_adapter.c). *)
(*                                                                         *)
(* There are three kinds of entries: a thread that sleeps on its entry     *)
(* ("sync", struct sendmsg_wait_queue), a request whose callback runs from *)
(* a delayed work ("async", struct hmdfs_msg_parasite) and a readpage that *)
(* unlocks its page from a delayed work ("page", struct hmdfs_async_work). *)
(* The timeout, the response in a receive thread and the OFFLINE callback  *)
(* of a disconnect race to finish an entry; a reference count keeps it.    *)
(*                                                                         *)
(* A message id is the request itself: idr_alloc_cyclic does not repeat an *)
(* id within the life of an entry.                                         *)
(***************************************************************************)
EXTENDS Integers, FiniteSets

CONSTANTS Sync, Async, Page,   \* the requests, by kind of entry
          Linger,              \* requests whose response may be handled by a receive
                               \* thread that outlives HMDFS_WAIT_CONN_RELEASE
          MaxOff,              \* bound on the number of disconnects
          MaxBusy              \* bound on the requests under way at a time

Reqs == Sync \cup Async \cup Page
None == "none"

ASSUME KindAssumption ==
  Sync \cap Async = {} /\ Sync \cap Page = {} /\ Async \cap Page = {} /\ None \notin Reqs
ASSUME BoundAssumption == Linger \subseteq Reqs /\ MaxOff \in Nat /\ MaxBusy \in Nat

VARIABLES
  online, offline_start, msg_idr_process,
  idr,        \* requests that have an entry in msg_idr
  ref,        \* kref of the entry; 0 once it is freed
  pc, out,    \* the requesting thread: where it stands, what it returns
  valid, wret, \* sync: msg_wq->valid and ->ret
  buf,        \* who owns the buffer of the response
  work,       \* async, page: the delayed work d_work
  wfired,     \* async: the work has been queued
  mret,       \* async: mp->resp.ret_code
  cb,         \* async: calls of on_wakeup
  unlocks,    \* page: calls of unlock_page
  resp,       \* how far the response has got in its receive thread
  off, offr, visited, offs  \* the disconnect: where it stands, its entry, ids passed, count

entry == <<idr, ref, valid, wret, buf, work, wfired, mret, cb, unlocks>>
offv  == <<off, offr, visited, offs>>
vars  == <<online, offline_start, msg_idr_process, entry, pc, out, resp, offv>>

Init ==
  /\ online = "online" /\ offline_start = "no" /\ msg_idr_process = 0
  /\ idr = {}
  /\ ref = [r \in Reqs |-> 0]
  /\ pc = [r \in Reqs |-> "idle"] /\ out = [r \in Reqs |-> None]
  /\ valid = [r \in Reqs |-> None] /\ wret = [r \in Reqs |-> None]
  /\ buf = [r \in Reqs |-> None]
  /\ work = [r \in Reqs |-> None] /\ wfired = [r \in Reqs |-> "no"]
  /\ mret = [r \in Reqs |-> None]
  /\ cb = [r \in Reqs |-> 0] /\ unlocks = [r \in Reqs |-> 0]
  /\ resp = [r \in Reqs |-> None]
  /\ off = "idle" /\ offr = None /\ visited = {} /\ offs = 0

-----------------------------------------------------------------------------
(* Reference counts: msg_put, mp_put, asw_put.                             *)

PutN_Leaks(r, n) ==                     \* mutant: the last put does not remove the entry
  /\ ref' = [ref EXCEPT ![r] = @ - n]
  /\ UNCHANGED <<idr, buf>>

(* n references are dropped at once; the last one removes the entry from   *)
(* msg_idr under idr_lock and frees it together with a buffer still        *)
(* attached to it (msg_release, mp_release, asw_release).                  *)
PutN(r, n) ==
  /\ ref' = [ref EXCEPT ![r] = @ - n]
  /\ idr' = IF ref[r] = n THEN idr \ {r} ELSE idr
  /\ buf' = IF ref[r] = n /\ buf[r] = "entry" THEN [buf EXCEPT ![r] = "freed"] ELSE buf

put(r) == PutN(r, 1)

Pending(r) == work[r] = "pending"

-----------------------------------------------------------------------------
(* The requesting thread.                                                  *)

Go(r, where) == pc' = [pc EXCEPT ![r] = where]

Return(r, how) ==
  /\ pc' = [pc EXCEPT ![r] = "done"]
  /\ out' = [out EXCEPT ![r] = how]

\* Request r is under way.
Busy(r) == pc[r] \notin {"idle", "done"} \/ r \in idr

(* Failing before there is an entry; a readpage has to unlock its page.    *)
FailEarly(r) ==
  /\ Return(r, "failed")
  /\ unlocks' = IF r \in Page THEN [unlocks EXCEPT ![r] = @ + 1] ELSE unlocks

(* hmdfs_sendmessage_request, hmdfs_send_async_request and                 *)
(* hmdfs_sendpage_request begin by looking at the node's status.           *)
CheckOnline(r) ==
  /\ pc[r] = "idle" /\ Cardinality({q \in Reqs : Busy(q)}) < MaxBusy
  /\ \/ /\ online = "online"
        /\ Go(r, "alloc")
        /\ UNCHANGED <<out, unlocks>>
     \/ /\ online # "online"
        /\ FailEarly(r)
  /\ UNCHANGED <<online, offline_start, msg_idr_process, idr, ref, valid, wret,
                 buf, work, wfired, mret, cb, resp, offv>>

hmdfs_alloc_msg_idr_Unmarked(r) ==      \* mutant: offline_start ignored
  /\ pc[r] = "alloc"
  /\ idr' = idr \cup {r}
  /\ ref' = [ref EXCEPT ![r] = IF r \in Page THEN 2 ELSE 1]
  /\ msg_idr_process' = msg_idr_process + 1
  /\ valid' = IF r \in Sync THEN [valid EXCEPT ![r] = "SEND"] ELSE valid
  /\ mret' = IF r \in Async THEN [mret EXCEPT ![r] = "ETIME"] ELSE mret
  /\ Go(r, IF r \in Page THEN "queue" ELSE "send")
  /\ UNCHANGED <<out, unlocks>>
  /\ UNCHANGED <<online, offline_start, wret, buf, work, wfired, cb, resp, offv>>

(* The entry is allocated and initialised (msg_init, mp_alloc; a readpage  *)
(* takes a second reference for itself besides the one of its work).       *)
hmdfs_alloc_msg_idr(r) ==
  /\ pc[r] = "alloc"
  /\ \/ /\ offline_start = "no"
        /\ idr' = idr \cup {r}
        /\ ref' = [ref EXCEPT ![r] = IF r \in Page THEN 2 ELSE 1]
        /\ msg_idr_process' = msg_idr_process + 1
        /\ valid' = IF r \in Sync THEN [valid EXCEPT ![r] = "SEND"] ELSE valid
        /\ mret' = IF r \in Async THEN [mret EXCEPT ![r] = "ETIME"] ELSE mret
        /\ Go(r, IF r \in Page THEN "queue" ELSE "send")
        /\ UNCHANGED <<out, unlocks>>
     \/ /\ offline_start = "yes"
        /\ FailEarly(r)
        /\ UNCHANGED <<idr, ref, msg_idr_process, valid, mret>>
  /\ UNCHANGED <<online, offline_start, wret, buf, work, wfired, cb, resp, offv>>

(* queue_delayed_work: a readpage queues its timeout before it sends.      *)
QueuePageTimeout(r) ==
  /\ pc[r] = "queue"
  /\ work' = [work EXCEPT ![r] = "pending"]
  /\ Go(r, "send")
  /\ UNCHANGED <<online, offline_start, msg_idr_process, idr, ref, valid, wret,
                 buf, wfired, mret, cb, unlocks, out, resp, offv>>

(* hmdfs_sendmessage: it can succeed only while the node is on line, and   *)
(* it may fail at any time; from then on a response may arrive.            *)
SendOK(r) ==
  /\ pc[r] = "send" /\ online = "online"
  /\ resp' = [resp EXCEPT ![r] = "remote"]
  /\ Go(r, IF r \in Sync THEN "sent" ELSE IF r \in Async THEN "fire" ELSE "put_sent")
  /\ UNCHANGED <<online, offline_start, msg_idr_process, entry, out, offv>>

SendFails(r) ==
  /\ pc[r] = "send"
  /\ Go(r, IF r \in Page THEN "cancel" ELSE "fail_put")
  /\ out' = [out EXCEPT ![r] = "failed"]
  /\ UNCHANGED <<online, offline_start, msg_idr_process, entry, resp, offv>>

(* hmdfs_send_async_request after the send: queue the timeout, then tell   *)
(* the receive thread that there is a work to cancel.                      *)
QueueAsyncTimeout(r) ==
  /\ pc[r] = "fire"
  /\ work' = [work EXCEPT ![r] = "pending"]
  /\ Go(r, "fired")
  /\ UNCHANGED <<online, offline_start, msg_idr_process, idr, ref, valid, wret,
                 buf, wfired, mret, cb, unlocks, out, resp, offv>>

StoreWfired(r) ==
  /\ pc[r] = "fired"
  /\ wfired' = [wfired EXCEPT ![r] = "yes"]
  /\ Go(r, "sent")
  /\ UNCHANGED <<online, offline_start, msg_idr_process, idr, ref, valid, wret,
                 buf, work, mret, cb, unlocks, out, resp, offv>>

(* hmdfs_dec_msg_idr_process: a disconnect may go on without this request. *)
DecProcess(r) ==
  /\ pc[r] \in {"sent", "fail_dec"}
  /\ msg_idr_process' = msg_idr_process - 1
  /\ \/ /\ pc[r] = "sent" /\ r \in Sync
        /\ Go(r, "wait")
        /\ UNCHANGED out
     \/ /\ pc[r] = "sent" /\ r \notin Sync
        /\ Return(r, "sent")
     \/ /\ pc[r] = "fail_dec"
        /\ Return(r, "failed")
  /\ UNCHANGED <<online, offline_start, entry, resp, offv>>

(* The failing paths put their reference before msg_idr_process is         *)
(* decremented; a readpage that is on its way puts its own reference.      *)
PutAfterSend(r) ==
  /\ pc[r] \in {"fail_put", "put_sent"}
  /\ put(r)
  /\ Go(r, IF pc[r] = "fail_put" THEN "fail_dec" ELSE "sent")
  /\ UNCHANGED <<online, offline_start, msg_idr_process, valid, wret, work,
                 wfired, mret, cb, unlocks, out, resp, offv>>

CancelPage_Ignored(r) ==                \* mutant: result of cancel_delayed_work ignored
  /\ pc[r] = "cancel"
  /\ work' = [work EXCEPT ![r] = None]
  /\ PutN(r, 2)
  /\ unlocks' = [unlocks EXCEPT ![r] = @ + 1]
  /\ Go(r, "fail_dec")
  /\ UNCHANGED <<online, offline_start, msg_idr_process, valid, wret, wfired,
                 mret, cb, out, resp, offv>>

(* A readpage whose send failed finishes itself (asw_put, asw_done) unless *)
(* the timeout has started and does so.                                    *)
CancelPage(r) ==
  /\ pc[r] = "cancel"
  /\ \/ /\ Pending(r)
        /\ work' = [work EXCEPT ![r] = None]
        /\ PutN(r, 2)
        /\ unlocks' = [unlocks EXCEPT ![r] = @ + 1]
     \/ /\ ~Pending(r)
        /\ put(r)
        /\ UNCHANGED <<work, unlocks>>
  /\ Go(r, "fail_dec")
  /\ UNCHANGED <<online, offline_start, msg_idr_process, valid, wret, wfired,
                 mret, cb, out, resp, offv>>

(* wait_event_interruptible_timeout returns because the entry is marked    *)
(* MSG_Q_END_RECV: the thread takes the buffer, then ret.                  *)
WaitAnswered(r) ==
  /\ pc[r] = "wait" /\ valid[r] = "END_RECV"
  /\ buf' = IF buf[r] = "entry" THEN [buf EXCEPT ![r] = "taken"] ELSE buf
  /\ Go(r, "take_ret")
  /\ UNCHANGED <<online, offline_start, msg_idr_process, idr, ref, valid, wret,
                 work, wfired, mret, cb, unlocks, out, resp, offv>>

TakeRet(r) ==
  /\ pc[r] = "take_ret"
  /\ out' = [out EXCEPT ![r] = wret[r]]
  /\ Go(r, "wait_put")
  /\ UNCHANGED <<online, offline_start, msg_idr_process, entry, resp, offv>>

(* ... or because of the timeout or a signal.                              *)
WaitTimeout(r) ==
  /\ pc[r] = "wait" /\ valid[r] = "SEND"
  /\ out' = [out EXCEPT ![r] = "ETIME"]
  /\ Go(r, "wait_put")
  /\ UNCHANGED <<online, offline_start, msg_idr_process, entry, resp, offv>>

PutAfterWait(r) ==
  /\ pc[r] = "wait_put"
  /\ put(r)
  /\ Go(r, "done")
  /\ UNCHANGED <<online, offline_start, msg_idr_process, valid, wret, work,
                 wfired, mret, cb, unlocks, out, resp, offv>>

-----------------------------------------------------------------------------
(* The delayed work of an async or page entry: its time is up, or it was   *)
(* queued again at once by the response.                                   *)

StartWork(r) ==
  /\ Pending(r)
  /\ work' = [work EXCEPT ![r] = "running"]
  /\ UNCHANGED <<online, offline_start, msg_idr_process, idr, ref, valid, wret,
                 buf, wfired, mret, cb, unlocks, pc, out, resp, offv>>

Finish_NoPut(r, n) ==                   \* mutant: the work's reference is not put
  /\ UNCHANGED <<ref, idr, buf>>
  /\ cb' = IF r \in Async THEN [cb EXCEPT ![r] = @ + 1] ELSE cb
  /\ unlocks' = IF r \in Page THEN [unlocks EXCEPT ![r] = @ + 1] ELSE unlocks

(* async_request_cb_on_wakeup_fn, hmdfs_recv_page_work_fn: the callback or *)
(* unlock_page, then the work's reference is put.                          *)
Finish(r, n) ==
  /\ PutN(r, n)
  /\ cb' = IF r \in Async THEN [cb EXCEPT ![r] = @ + 1] ELSE cb
  /\ unlocks' = IF r \in Page THEN [unlocks EXCEPT ![r] = @ + 1] ELSE unlocks

RunWork(r) ==
  /\ work[r] = "running"
  /\ work' = [work EXCEPT ![r] = "done"]
  /\ Finish(r, 1)
  /\ UNCHANGED <<online, offline_start, msg_idr_process, valid, wret, wfired,
                 mret, pc, out, resp, offv>>

-----------------------------------------------------------------------------
(* The response in a receive thread.  Connections have a thread each, so   *)
(* responses are handled concurrently; a response may also never come.     *)

RecvRunning(r) == off \in {"idle", "marked", "closing"} \/ r \in Linger

Recv(r, where) == resp' = [resp EXCEPT ![r] = where]

(* hmdfs_find_msg_head takes a reference if the id is still in msg_idr; a  *)
(* response that comes too late is dropped and its buffer freed.           *)
hmdfs_find_msg_head(r) ==
  /\ resp[r] = "remote" /\ RecvRunning(r)
  /\ \/ /\ r \in idr
        /\ ref' = [ref EXCEPT ![r] = @ + 1]
        /\ buf' = [buf EXCEPT ![r] = "recv"]
        /\ Recv(r, "found")
     \/ /\ r \notin idr
        /\ buf' = [buf EXCEPT ![r] = "freed"]
        /\ Recv(r, "done")
        /\ UNCHANGED ref
  /\ UNCHANGED <<online, offline_start, msg_idr_process, idr, valid, wret, work,
                 wfired, mret, cb, unlocks, pc, out, offv>>

(* hmdfs_response_handle_sync on a sync entry: the entry is examined, then *)
(* hmdfs_response_wakeup fills it in.                                      *)
CheckValid(r) ==
  /\ r \in Sync /\ resp[r] = "found"
  /\ \/ /\ valid[r] = "SEND"
        /\ Recv(r, "wake")
        /\ UNCHANGED buf
     \/ /\ valid[r] # "SEND"
        /\ buf' = [buf EXCEPT ![r] = "freed"]
        /\ Recv(r, "put")
  /\ UNCHANGED <<online, offline_start, msg_idr_process, idr, ref, valid, wret,
                 work, wfired, mret, cb, unlocks, pc, out, offv>>

WakeupRet_WithValid(r, ret) ==          \* mutant: the waiter is released before buf is stored
  /\ wret' = [wret EXCEPT ![r] = ret]
  /\ valid' = [valid EXCEPT ![r] = "END_RECV"]
  /\ UNCHANGED buf

(* hmdfs_response_wakeup, in the two steps a waiter can tell apart: the    *)
(* result, then the buffer together with valid.  A buffer that is          *)
(* overwritten by NULL is never freed.                                     *)
WakeupRet(r, ret) ==
  /\ wret' = [wret EXCEPT ![r] = ret]
  /\ UNCHANGED <<valid, buf>>

WakeupBuf(r, b) ==
  /\ valid' = [valid EXCEPT ![r] = "END_RECV"]
  /\ buf' = [buf EXCEPT ![r] = IF b # None THEN b ELSE IF @ = "entry" THEN "lost" ELSE @]
  /\ UNCHANGED wret

RecvWakes(r) ==
  /\ r \in Sync /\ resp[r] \in {"wake", "wake_buf"}
  /\ \/ /\ resp[r] = "wake"
        /\ WakeupRet(r, "replied")
        /\ Recv(r, "wake_buf")
     \/ /\ resp[r] = "wake_buf"
        /\ WakeupBuf(r, "entry")
        /\ Recv(r, "put")
  /\ UNCHANGED <<online, offline_start, msg_idr_process, idr, ref, work, wfired,
                 mret, cb, unlocks, pc, out, offv>>

RecvCancels_Always(r) ==                \* mutant: result of cancel_delayed_work ignored
  /\ r \notin Sync /\ resp[r] = "found"
  /\ r \in Async => wfired[r] = "yes"
  /\ work' = [work EXCEPT ![r] = None]
  /\ Recv(r, "cancelled")
  /\ UNCHANGED <<online, offline_start, msg_idr_process, idr, ref, valid, wret,
                 buf, wfired, mret, cb, unlocks, pc, out, offv>>

(* hmdfs_response_handle_sync on an async entry (which first waits until   *)
(* the work is queued) and tcp_recvpage_tls on a page: whoever cancels the *)
(* work finishes the entry.                                                *)
RecvCancels(r) ==
  /\ r \notin Sync /\ resp[r] = "found"
  /\ r \in Async => wfired[r] = "yes"
  /\ \/ /\ Pending(r)
        /\ work' = [work EXCEPT ![r] = None]
        /\ Recv(r, "cancelled")
        /\ UNCHANGED buf
     \/ /\ ~Pending(r)
        /\ buf' = [buf EXCEPT ![r] = "freed"]
        /\ Recv(r, "put")
        /\ UNCHANGED work
  /\ UNCHANGED <<online, offline_start, msg_idr_process, idr, ref, valid, wret,
                 wfired, mret, cb, unlocks, pc, out, offv>>

(* The result is stored and the work queued again, to run at once.         *)
RecvRequeues(r) ==
  /\ r \in Async /\ resp[r] = "cancelled"
  /\ mret' = [mret EXCEPT ![r] = "replied"]
  /\ buf' = [buf EXCEPT ![r] = "entry"]
  /\ work' = [work EXCEPT ![r] = "pending"]
  /\ Recv(r, "put")
  /\ UNCHANGED <<online, offline_start, msg_idr_process, idr, ref, valid, wret,
                 wfired, cb, unlocks, pc, out, offv>>

(* The page has been filled: hmdfs_client_recv_readpage ends in asw_done,  *)
(* and the receive thread puts its own reference.                          *)
RecvFillsPage(r) ==
  /\ r \in Page /\ resp[r] = "cancelled"
  /\ mret' = [mret EXCEPT ![r] = "replied"]
  /\ ref' = [ref EXCEPT ![r] = @ - 2]
  /\ idr' = IF ref[r] = 2 THEN idr \ {r} ELSE idr
  /\ buf' = [buf EXCEPT ![r] = "taken"]
  /\ unlocks' = [unlocks EXCEPT ![r] = @ + 1]
  /\ Recv(r, "done")
  /\ UNCHANGED <<online, offline_start, msg_idr_process, valid, wret, work,
                 wfired, cb, pc, out, offv>>

RecvPut(r) ==
  /\ resp[r] = "put"
  /\ put(r)
  /\ Recv(r, "done")
  /\ UNCHANGED <<online, offline_start, msg_idr_process, valid, wret, work,
                 wfired, mret, cb, unlocks, pc, out, offv>>

-----------------------------------------------------------------------------
(* Going off line: hmdfs_disconnect_node_marked, hmdfs_disconnect_node and *)
(* the OFFLINE callback hmdfs_client_offline_notify.                       *)

RecvBusy(r) == resp[r] \in {"found", "wake", "wake_buf", "cancelled", "put"}

hmdfs_start_process_offline ==
  /\ off = "idle" /\ online = "online" /\ offs < MaxOff
  /\ offline_start' = "yes" /\ off' = "marked" /\ offs' = offs + 1
  /\ UNCHANGED <<online, msg_idr_process, entry, pc, out, resp, offr, visited>>

(* node->status = NODE_STAT_OFFLINE.                                       *)
SetOffline ==
  /\ off = "marked"
  /\ online' = "offline" /\ off' = "closing"
  /\ UNCHANGED <<offline_start, msg_idr_process, entry, pc, out, resp, offr,
                 visited, offs>>

(* tcp_close_socket waits for the receive threads of the listed            *)
(* connections; the wait for the connections being deleted may time out.   *)
CloseConnections ==
  /\ off = "closing"
  /\ \A r \in Reqs \ Linger : ~RecvBusy(r)
  /\ off' = "drain"
  /\ UNCHANGED <<online, offline_start, msg_idr_process, entry, pc, out, resp,
                 offr, visited, offs>>

(* The loop on msg_idr_process; then the OFF event runs its callbacks.     *)
WaitProcess ==
  /\ off = "drain" /\ msg_idr_process = 0
  /\ off' = "notify" /\ visited' = {}
  /\ UNCHANGED <<online, offline_start, msg_idr_process, entry, pc, out, resp,
                 offr, offs>>

(* hmdfs_get_msg_next: the next entry, with a reference.                   *)
hmdfs_get_msg_next(r) ==
  /\ off = "notify" /\ r \in idr \ visited
  /\ ref' = [ref EXCEPT ![r] = @ + 1]
  /\ offr' = r /\ visited' = visited \cup {r} /\ off' = "wake"
  /\ UNCHANGED <<online, offline_start, msg_idr_process, idr, valid, wret, buf,
                 work, wfired, mret, cb, unlocks, pc, out, resp, offs>>

(* A waiter is woken with -ETIME whether or not it was already answered.   *)
OffWakesSync ==
  /\ off \in {"wake", "wake_buf"} /\ offr \in Sync
  /\ \/ /\ off = "wake"
        /\ WakeupRet(offr, "ETIME")
        /\ off' = "wake_buf"
     \/ /\ off = "wake_buf"
        /\ WakeupBuf(offr, None)
        /\ off' = "put"
  /\ UNCHANGED <<online, offline_start, msg_idr_process, idr, ref, work, wfired,
                 mret, cb, unlocks, pc, out, resp, offr, visited, offs>>

(* hmdfs_wakeup_parasite, hmdfs_wakeup_async_work: cancel the work and, if *)
(* that succeeds, run it here.                                             *)
OffRunsWork ==
  /\ off = "wake" /\ offr \notin Sync
  /\ offr \in Async => wfired[offr] = "yes"
  /\ \/ /\ Pending(offr)
        /\ work' = [work EXCEPT ![offr] = "done"]
        /\ Finish(offr, 1)
     \/ /\ ~Pending(offr)
        /\ UNCHANGED <<work, idr, ref, buf, cb, unlocks>>
  /\ off' = "put"
  /\ UNCHANGED <<online, offline_start, msg_idr_process, valid, wret, wfired,
                 mret, pc, out, resp, offr, visited, offs>>

OffPut ==
  /\ off = "put"
  /\ put(offr)
  /\ off' = "notify" /\ offr' = None
  /\ UNCHANGED <<online, offline_start, msg_idr_process, valid, wret, work,
                 wfired, mret, cb, unlocks, pc, out, resp, visited, offs>>

OffDone ==
  /\ off = "notify" /\ idr \subseteq visited
  /\ off' = "stop"
  /\ UNCHANGED <<online, offline_start, msg_idr_process, entry, pc, out, resp,
                 offr, visited, offs>>

hmdfs_stop_process_offline ==
  /\ off = "stop"
  /\ offline_start' = "no" /\ off' = "idle" /\ visited' = {}
  /\ UNCHANGED <<online, msg_idr_process, entry, pc, out, resp, offr, offs>>

(* A new socket is handed in only after the disconnect (cmd_handler_mutex).*)
PeerOnline ==
  /\ online = "offline" /\ off = "idle"
  /\ online' = "online"
  /\ UNCHANGED <<offline_start, msg_idr_process, entry, pc, out, resp, offv>>

-----------------------------------------------------------------------------
Requester(r) ==
  \/ hmdfs_alloc_msg_idr(r) \/ QueuePageTimeout(r) \/ SendOK(r) \/ SendFails(r)
  \/ QueueAsyncTimeout(r) \/ StoreWfired(r) \/ DecProcess(r) \/ PutAfterSend(r)
  \/ CancelPage(r) \/ WaitAnswered(r) \/ TakeRet(r) \/ WaitTimeout(r)
  \/ PutAfterWait(r)

Worker(r) == StartWork(r) \/ RunWork(r)

Receiver(r) ==
  \/ CheckValid(r) \/ RecvWakes(r) \/ RecvCancels(r) \/ RecvRequeues(r)
  \/ RecvFillsPage(r) \/ RecvPut(r)

Disconnect ==
  \/ SetOffline \/ CloseConnections \/ WaitProcess
  \/ \E r \in Reqs : hmdfs_get_msg_next(r)
  \/ OffWakesSync \/ OffRunsWork \/ OffPut \/ OffDone
  \/ hmdfs_stop_process_offline

Next ==
  \/ \E r \in Reqs :
       \/ CheckOnline(r)
       \/ Requester(r)
       \/ Worker(r)
       \/ hmdfs_find_msg_head(r)
       \/ Receiver(r)
  \/ hmdfs_start_process_offline
  \/ Disconnect
  \/ PeerOnline

Spec == Init /\ [][Next]_vars

(* Threads, works and timers run on once they are started.  Nothing makes  *)
(* a response come, a peer return or anybody issue a request.              *)
Fairness ==
  /\ \A r \in Reqs : /\ WF_vars(Requester(r)) /\ WF_vars(Worker(r))
                     /\ WF_vars(Receiver(r))
  /\ WF_vars(Disconnect)

FairSpec == Spec /\ Fairness

-----------------------------------------------------------------------------
YesNo == {"no", "yes"}

(* The variables keep their types; message ids in use are those of entries *)
(* with references.                                                        *)
TypeOK ==
  /\ online \in {"online", "offline"} /\ offline_start \in YesNo
  /\ msg_idr_process \in Nat /\ offs \in Nat
  /\ idr \subseteq Reqs /\ visited \subseteq Reqs
  /\ ref \in [Reqs -> 0 .. 4]
  /\ pc \in [Reqs -> {"idle", "alloc", "queue", "send", "sent", "fire", "fired",
                      "put_sent", "cancel", "fail_put", "fail_dec", "wait",
                      "take_ret", "wait_put", "done"}]
  /\ out \in [Reqs -> {None, "sent", "failed", "replied", "ETIME"}]
  /\ valid \in [Reqs -> {None, "SEND", "END_RECV"}]
  /\ wret \in [Reqs -> {None, "replied", "ETIME"}]
  /\ buf \in [Reqs -> {None, "recv", "entry", "taken", "freed", "lost"}]
  /\ work \in [Reqs -> {None, "pending", "running", "done"}]
  /\ wfired \in [Reqs -> YesNo]
  /\ mret \in [Reqs -> {None, "replied", "ETIME"}]
  /\ cb \in [Reqs -> 0 .. 2] /\ unlocks \in [Reqs -> 0 .. 2]
  /\ resp \in [Reqs -> {None, "remote", "found", "wake", "wake_buf", "cancelled",
                        "put", "done"}]
  /\ off \in {"idle", "marked", "closing", "drain", "notify", "wake", "wake_buf",
              "put", "stop"}
  /\ offr \in Reqs \cup {None}

One(b) == IF b THEN 1 ELSE 0

(* Who may touch the entry of r: its requester, the delayed work (or the   *)
(* receive thread that cancelled it), a receive thread, the disconnect.    *)
RequesterHolds(r) ==
  \/ r \in Sync  /\ pc[r] \in {"send", "sent", "wait", "take_ret", "wait_put", "fail_put"}
  \/ r \in Async /\ pc[r] \in {"send", "fire", "fail_put"}
  \/ r \in Page  /\ pc[r] \in {"queue", "send", "put_sent", "cancel"}

WorkHolds(r) ==
  \/ work[r] \in {"pending", "running"}
  \/ r \notin Sync /\ resp[r] = "cancelled"
  \/ r \in Page /\ pc[r] = "queue"

(* No entry is used after it is freed and none is leaked: the reference    *)
(* count is the number of parties that hold the entry, and an entry leaves *)
(* msg_idr with its last reference.                                        *)
RefExact ==
  \A r \in Reqs :
    /\ ref[r] = One(RequesterHolds(r)) + One(WorkHolds(r)) + One(RecvBusy(r))
                + One(offr = r)
    /\ r \in idr <=> ref[r] > 0

(* Whoever wins of timeout, response and disconnect: the callback of an    *)
(* async request runs exactly once if the request was sent and not at all  *)
(* if hmdfs_send_async_request returned an error; the page of a readpage   *)
(* is unlocked exactly once, and never while the receive thread copies     *)
(* data into it.                                                           *)
CompletedOnce ==
  /\ \A r \in Async :
       /\ cb[r] <= 1
       /\ out[r] = "failed" => cb[r] = 0
       /\ out[r] = "sent" /\ r \notin idr => cb[r] = 1
  /\ \A r \in Page :
       /\ unlocks[r] <= 1
       /\ resp[r] = "cancelled" => unlocks[r] = 0
       /\ pc[r] = "done" /\ r \notin idr => unlocks[r] = 1

(* After the OFFLINE callback nobody is left to wait for a timeout: every  *)
(* sleeping thread is woken, no work waits without a result.               *)
OffWakesAll ==
  off = "stop" => \A r \in Reqs : /\ pc[r] = "wait" => valid[r] = "END_RECV"
                                  /\ Pending(r) => mret[r] = "replied"

(* A sync request that returns success has the response's buffer, although *)
(* the OFFLINE callback may rewrite ret and buf while the waiter reads, if *)
(* the receive thread has ended by then.                                   *)
ReplyHasBuffer ==
  \A r \in Sync \ Linger : out[r] = "replied" => buf[r] = "taken"

(* A request as its issuer sees it.                                        *)
CallOf(r) ==
  IF pc[r] = "idle" THEN "idle"
  ELSE IF r \in Sync THEN
    CASE out[r] = "replied" -> "replied" [] out[r] = "ETIME" -> "abandoned"
      [] out[r] = "failed" -> "failed"   [] OTHER -> "issued"
  ELSE IF out[r] = "failed" /\ r \in Async THEN "failed"
  ELSE IF cb[r] + unlocks[r] = 0 THEN "issued"
  ELSE IF mret[r] = "replied" THEN "replied"
  ELSE IF r \in Async THEN "abandoned" ELSE "failed"

Call == [r \in Reqs |-> CallOf(r)]

Promise == INSTANCE RequestReply WITH call <- Call

(* Timeout, response and disconnect together implement the promise: a      *)
(* request is finished once and its outcome never changes.                 *)
FinishedOnce == Promise!Spec

(* ... and, without any response, every request that was issued is         *)
(* finished and its entry leaves msg_idr: somebody puts the last reference *)
(* (timeouts of the waiter and of the works, hmdfs_client_offline_notify). *)
Served ==
  \A r \in Reqs : (Call[r] = "issued") ~> (Call[r] \in Promise!Outcomes /\ r \notin idr)

(* A disconnect gets through hmdfs_client_offline_notify to its end.       *)
OffEnds == off # "idle" ~> off = "idle"

=============================================================================
