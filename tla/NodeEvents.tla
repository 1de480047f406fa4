----------------------------- MODULE NodeEvents -----------------------------
(***************************************************************************)
(* The raw node-event queue of one hmdfs peer (hmdfs/comm/connection.c).   *)
(*                                                                         *)
(* Threads report that the peer went on line or off line.  A report runs   *)
(* the synchronous callbacks in the reporting thread and leaves an entry   *)
(* for the delayed work evt_dwork, which runs the asynchronous callbacks.  *)
(* The queue has no list: it is the event being worked on (pending_evt),   *)
(* two counters (waiting_evt) whose events are known to alternate, and a   *)
(* ring of four sequence numbers (seq_tbl) between two unsigned char       *)
(* indices.  evt_lock guards the counters, seq_lock orders the callbacks.  *)
(***************************************************************************)
EXTENDS Integers, FiniteSets

CONSTANTS Threads,   \* threads that call hmdfs_queue_raw_node_evt
          Worker,    \* the kworker that runs evt_dwork
          Free,      \* value of a mutex nobody holds
          MaxSeq     \* bound on evt_seq

ASSUME ActorAssumption == Worker \notin Threads /\ Free \notin Threads /\ Worker # Free
ASSUME BoundAssumption == MaxSeq \in Nat

OFF == 0             \* RAW_NODE_EVT_OFF
ON  == 1             \* RAW_NODE_EVT_ON
NR  == 2             \* RAW_NODE_EVT_NR: no event

RawEvt == {OFF, ON}
RAW_NODE_EVT_MAX_NR == 4
UCHAR == 256         \* seq_rd_idx and seq_wr_idx are unsigned char

VARIABLES
  evt_lock, seq_lock,      \* mutex holders
  pending_evt, last_evt, waiting_evt,
  seq_rd_idx, seq_wr_idx, seq_tbl, pending_evt_seq,
  evt_seq,                 \* the atomic event sequence of the peer
  cur_evt, cur_evt_seq,    \* the callback running: 1 is sync, 0 is async
  dwork,                   \* evt_dwork: "none" or "scheduled"
  wpc,                     \* where hmdfs_node_evt_work stands
  pc, tevt, tseq,          \* where each queueing thread stands, its evt and seq
  life,                    \* "new", "added", "deleted"
  \* history: what has been called back
  synced,                  \* <<evt, seq>> of every completed sync callback
  last_sync, last_async,   \* <<evt, seq>> of the latest callback started
  last_raw                 \* the event reported last

queue   == <<pending_evt, last_evt, waiting_evt, seq_wr_idx, pending_evt_seq>>
threads == <<pc, tevt, tseq>>
history == <<synced, last_sync, last_async, last_raw>>
vars == <<evt_lock, seq_lock, queue, seq_rd_idx, seq_tbl, evt_seq, cur_evt,
          cur_evt_seq, dwork, wpc, threads, life, history>>

ThreadPc == {"idle", "first_lock", "wait_lock", "first_sync", "wait_sync", "schedule"}
WorkPc   == {"idle", "async", "async_unlocked", "async_relocked", "finish"}

Init ==
  /\ evt_lock = Free /\ seq_lock = Free
  /\ pending_evt = NR /\ last_evt = NR
  /\ waiting_evt = [e \in RawEvt |-> 0]
  /\ seq_wr_idx = UCHAR - 1 /\ seq_rd_idx = seq_wr_idx
  /\ seq_tbl = [i \in 0 .. RAW_NODE_EVT_MAX_NR - 1 |-> 0]
  /\ pending_evt_seq = 0 /\ evt_seq = 0
  /\ cur_evt = [i \in 0 .. 1 |-> NR] /\ cur_evt_seq = [i \in 0 .. 1 |-> 0]
  /\ dwork = "none" /\ wpc = "idle"
  /\ pc = [t \in Threads |-> "idle"]
  /\ tevt = [t \in Threads |-> NR] /\ tseq = [t \in Threads |-> 0]
  /\ life = "new"
  /\ synced = {} /\ last_sync = <<NR, 0>> /\ last_async = <<NR, 0>>
  /\ last_raw = NR

-----------------------------------------------------------------------------
(* Reporting an event: hmdfs_queue_raw_node_evt.                           *)

hmdfs_node_waiting_evt_sum == waiting_evt[OFF] + waiting_evt[ON]

LastQueued_IgnoresWaiting == pending_evt   \* mutant: parity of the sum dropped

(* The event reported last among pending and waiting: they alternate.      *)
LastQueued ==
  IF hmdfs_node_waiting_evt_sum % NR # 0 THEN 1 - pending_evt ELSE pending_evt

(* seq_tbl[wr % RAW_NODE_EVT_MAX_NR] = evt_seq + 1, and wr++.              *)
PushSeq(wr) ==
  /\ evt_seq' = evt_seq + 1
  /\ seq_tbl' = [seq_tbl EXCEPT ![wr % RAW_NODE_EVT_MAX_NR] = evt_seq + 1]
  /\ seq_wr_idx' = (wr + 1) % UCHAR

GoSync_DropsLock(t, evt, where) ==        \* mutant: evt_lock released before seq_lock is taken
  /\ evt_lock' = Free
  /\ pc' = [pc EXCEPT ![t] = where]
  /\ tevt' = [tevt EXCEPT ![t] = evt]
  /\ tseq' = [tseq EXCEPT ![t] = evt_seq + 1]

(* The calling thread t leaves the evt_lock section still holding          *)
(* evt_lock, about to take seq_lock.                                       *)
GoSync(t, evt, where) ==
  /\ evt_lock' = t
  /\ pc' = [pc EXCEPT ![t] = where]
  /\ tevt' = [tevt EXCEPT ![t] = evt]
  /\ tseq' = [tseq EXCEPT ![t] = evt_seq + 1]

(* Nothing is queued: the event becomes the pending one.                   *)
QueueFirst(t, evt) ==
  /\ pending_evt = NR
  /\ evt # last_evt
  /\ pending_evt' = evt
  /\ PushSeq(seq_wr_idx)
  /\ pending_evt_seq' = evt_seq + 1
  /\ GoSync(t, evt, "first_lock")
  /\ UNCHANGED <<last_evt, waiting_evt>>

(* hmdfs_update_node_waiting_evt: a waiting OFF ON followed by OFF is      *)
(* merged into the new OFF, which takes the ring slot of the old one.      *)
Merges(evt) ==
  LET off == waiting_evt[OFF] + (IF evt = OFF THEN 1 ELSE 0)
      on  == waiting_evt[ON]  + (IF evt = ON  THEN 1 ELSE 0)
  IN  off >= 2 /\ on >= 1

MergeIdx_NoRewind == seq_wr_idx           \* mutant: seq_wr_idx -= 2 forgotten

MergeIdx == (seq_wr_idx + UCHAR - 2) % UCHAR

hmdfs_update_node_waiting_evt(t, evt) ==
  /\ pending_evt # NR
  /\ evt # LastQueued
  /\ \/ /\ Merges(evt)
        /\ waiting_evt' = [e \in RawEvt |->
                             waiting_evt[e] + (IF e = evt THEN 1 ELSE 0) - 1]
        /\ PushSeq(MergeIdx)
     \/ /\ ~Merges(evt)
        /\ waiting_evt' = [waiting_evt EXCEPT ![evt] = @ + 1]
        /\ PushSeq(seq_wr_idx)
  /\ GoSync(t, evt, "wait_lock")
  /\ UNCHANGED <<pending_evt, pending_evt_seq, last_evt>>

(* The event repeats the last one: only dup_evt is counted.                *)
Duplicate(evt) ==
  /\ IF pending_evt = NR THEN evt = last_evt ELSE evt = LastQueued
  /\ UNCHANGED <<queue, seq_tbl, evt_seq, evt_lock, threads>>

hmdfs_queue_raw_node_evt(t, evt) ==
  /\ life = "added" /\ pc[t] = "idle" /\ evt_lock = Free
  /\ evt_seq < MaxSeq
  /\ \/ QueueFirst(t, evt)
     \/ hmdfs_update_node_waiting_evt(t, evt)
     \/ Duplicate(evt)
  /\ last_raw' = evt
  /\ UNCHANGED <<seq_lock, seq_rd_idx, cur_evt, cur_evt_seq, dwork, wpc, life,
                 synced, last_sync, last_async>>

(* seq_lock is taken before evt_lock is released, then the sync callbacks  *)
(* run under seq_lock (hmdfs_run_evt_cb_verbosely, sync).                  *)
StartSync(t) ==
  /\ pc[t] \in {"first_lock", "wait_lock"} /\ seq_lock = Free
  /\ seq_lock' = t /\ evt_lock' = Free
  /\ cur_evt' = [cur_evt EXCEPT ![1] = tevt[t]]
  /\ cur_evt_seq' = [cur_evt_seq EXCEPT ![1] = tseq[t]]
  /\ last_sync' = <<tevt[t], tseq[t]>>
  /\ pc' = [pc EXCEPT ![t] = IF @ = "first_lock" THEN "first_sync" ELSE "wait_sync"]
  /\ UNCHANGED <<queue, seq_rd_idx, seq_tbl, evt_seq, dwork, wpc, tevt, tseq,
                 life, synced, last_async, last_raw>>

EndSync(t) ==
  /\ pc[t] \in {"first_sync", "wait_sync"}
  /\ seq_lock' = Free
  /\ cur_evt' = [cur_evt EXCEPT ![1] = NR]
  /\ synced' = synced \cup {<<tevt[t], tseq[t]>>}
  /\ pc' = [pc EXCEPT ![t] = IF @ = "first_sync" THEN "schedule" ELSE "idle"]
  /\ UNCHANGED <<evt_lock, queue, seq_rd_idx, seq_tbl, evt_seq, cur_evt_seq,
                 dwork, wpc, tevt, tseq, life, last_sync, last_async, last_raw>>

(* The first event of an empty queue schedules evt_dwork once its sync     *)
(* callbacks are done; no lock is held any more.                           *)
ScheduleWork(t) ==
  /\ pc[t] = "schedule"
  /\ dwork' = "scheduled"
  /\ pc' = [pc EXCEPT ![t] = "idle"]
  /\ UNCHANGED <<evt_lock, seq_lock, queue, seq_rd_idx, seq_tbl, evt_seq,
                 cur_evt, cur_evt_seq, wpc, tevt, tseq, life, history>>

-----------------------------------------------------------------------------
(* The delayed work: hmdfs_node_evt_work.                                  *)

StartAsync_CurrentSeq ==                  \* mutant: evt_seq passed instead of the ring's number
  /\ dwork = "scheduled" /\ wpc = "idle" /\ seq_lock = Free
  /\ dwork' = "none" /\ wpc' = "async" /\ seq_lock' = Worker
  /\ seq_rd_idx' = (seq_rd_idx + 1) % UCHAR
  /\ cur_evt' = [cur_evt EXCEPT ![0] = pending_evt]
  /\ cur_evt_seq' = [cur_evt_seq EXCEPT ![0] = evt_seq]
  /\ last_async' = <<pending_evt, evt_seq>>
  /\ UNCHANGED <<evt_lock, queue, seq_tbl, evt_seq, threads, life, synced,
                 last_sync, last_raw>>

StartAsync ==
  /\ dwork = "scheduled" /\ wpc = "idle" /\ seq_lock = Free
  /\ dwork' = "none" /\ wpc' = "async" /\ seq_lock' = Worker
  /\ seq_rd_idx' = (seq_rd_idx + 1) % UCHAR
  /\ cur_evt' = [cur_evt EXCEPT ![0] = pending_evt]
  /\ cur_evt_seq' = [cur_evt_seq EXCEPT ![0] =
                        seq_tbl[seq_rd_idx % RAW_NODE_EVT_MAX_NR]]
  /\ last_async' = <<pending_evt, seq_tbl[seq_rd_idx % RAW_NODE_EVT_MAX_NR]>>
  /\ UNCHANGED <<evt_lock, queue, seq_tbl, evt_seq, threads, life, synced,
                 last_sync, last_raw>>

(* The stash callbacks release seq_lock while they stash or restore files  *)
(* and take it again before they return.                                   *)
AsyncUnlock ==
  /\ wpc = "async"
  /\ wpc' = "async_unlocked" /\ seq_lock' = Free
  /\ UNCHANGED <<evt_lock, queue, seq_rd_idx, seq_tbl, evt_seq, cur_evt,
                 cur_evt_seq, dwork, threads, life, history>>

AsyncRelock ==
  /\ wpc = "async_unlocked" /\ seq_lock = Free
  /\ wpc' = "async_relocked" /\ seq_lock' = Worker
  /\ UNCHANGED <<evt_lock, queue, seq_rd_idx, seq_tbl, evt_seq, cur_evt,
                 cur_evt_seq, dwork, threads, life, history>>

EndAsync ==
  /\ wpc \in {"async", "async_relocked"}
  /\ wpc' = "finish" /\ seq_lock' = Free
  /\ cur_evt' = [cur_evt EXCEPT ![0] = NR]
  /\ UNCHANGED <<evt_lock, queue, seq_rd_idx, seq_tbl, evt_seq, cur_evt_seq,
                 dwork, threads, life, history>>

FinishWork_NoReschedule ==                \* mutant: the work is not scheduled again
  /\ wpc = "finish" /\ evt_lock = Free
  /\ wpc' = "idle"
  /\ \/ /\ hmdfs_node_waiting_evt_sum > 0
        /\ pending_evt' = 1 - pending_evt
        /\ pending_evt_seq' = seq_tbl[seq_rd_idx % RAW_NODE_EVT_MAX_NR]
        /\ waiting_evt' = [waiting_evt EXCEPT ![1 - pending_evt] = @ - 1]
        /\ UNCHANGED <<dwork, last_evt>>
     \/ /\ hmdfs_node_waiting_evt_sum = 0
        /\ last_evt' = pending_evt
        /\ pending_evt' = NR
        /\ UNCHANGED <<pending_evt_seq, waiting_evt, dwork>>
  /\ UNCHANGED <<evt_lock, seq_lock, seq_rd_idx, seq_wr_idx, seq_tbl, evt_seq,
                 cur_evt, cur_evt_seq, threads, life, history>>

(* Under evt_lock the next waiting event becomes the pending one and the   *)
(* work reschedules itself; with none waiting the queue is empty.          *)
FinishWork ==
  /\ wpc = "finish" /\ evt_lock = Free
  /\ wpc' = "idle"
  /\ \/ /\ hmdfs_node_waiting_evt_sum > 0
        /\ pending_evt' = 1 - pending_evt
        /\ pending_evt_seq' = seq_tbl[seq_rd_idx % RAW_NODE_EVT_MAX_NR]
        /\ waiting_evt' = [waiting_evt EXCEPT ![1 - pending_evt] = @ - 1]
        /\ dwork' = "scheduled"
        /\ UNCHANGED last_evt
     \/ /\ hmdfs_node_waiting_evt_sum = 0
        /\ last_evt' = pending_evt
        /\ pending_evt' = NR
        /\ UNCHANGED <<pending_evt_seq, waiting_evt, dwork>>
  /\ UNCHANGED <<evt_lock, seq_lock, seq_rd_idx, seq_wr_idx, seq_tbl, evt_seq,
                 cur_evt, cur_evt_seq, threads, life, history>>

-----------------------------------------------------------------------------
(* The rest of the peer's life that touches the event state.               *)

(* A broken socket or hmdfs_disconnect_node only advances the sequence.    *)
hmdfs_node_inc_evt_seq ==
  /\ life = "added" /\ evt_seq < MaxSeq
  /\ evt_seq' = evt_seq + 1
  /\ UNCHANGED <<evt_lock, seq_lock, queue, seq_rd_idx, seq_tbl, cur_evt,
                 cur_evt_seq, dwork, wpc, threads, life, history>>

(* add_peer_unsafe runs the ADD callbacks before the peer can be found.    *)
AddPeer ==
  /\ life = "new" /\ seq_lock = Free /\ evt_seq < MaxSeq
  /\ life' = "added"
  /\ evt_seq' = evt_seq + 1
  /\ UNCHANGED <<evt_lock, seq_lock, queue, seq_rd_idx, seq_tbl, cur_evt,
                 cur_evt_seq, dwork, wpc, threads, history>>

(* hmdfs_del_peer cancels evt_dwork, waiting for a running one, and runs   *)
(* the DEL callbacks.  hmdfs_disconnect_node has stopped the threads that  *)
(* report events before it is called.                                      *)
hmdfs_del_peer ==
  /\ life = "added" /\ evt_seq < MaxSeq
  /\ \A t \in Threads : pc[t] = "idle"
  /\ wpc = "idle" /\ seq_lock = Free
  /\ last_raw = OFF
  /\ life' = "deleted"
  /\ dwork' = "none"
  /\ evt_seq' = evt_seq + 1
  /\ UNCHANGED <<evt_lock, seq_lock, queue, seq_rd_idx, seq_tbl, cur_evt,
                 cur_evt_seq, wpc, threads, history>>

-----------------------------------------------------------------------------
ThreadStep(t) == StartSync(t) \/ EndSync(t) \/ ScheduleWork(t)
WorkStep == StartAsync \/ AsyncRelock \/ EndAsync \/ FinishWork

Next ==
  \/ \E t \in Threads :
       \/ \E evt \in RawEvt : hmdfs_queue_raw_node_evt(t, evt)
       \/ StartSync(t)
       \/ EndSync(t)
       \/ ScheduleWork(t)
  \/ StartAsync
  \/ AsyncUnlock
  \/ AsyncRelock
  \/ EndAsync
  \/ FinishWork
  \/ hmdfs_node_inc_evt_seq
  \/ AddPeer
  \/ hmdfs_del_peer

Spec == Init /\ [][Next]_vars

(* The threads and the kworker run on: a thread that has queued an event   *)
(* returns, scheduled work runs, callbacks return and mutexes are granted. *)
(* Nobody has to report an event or to unmount.                            *)
Fairness ==
  /\ \A t \in Threads : WF_vars(ThreadStep(t))
  /\ WF_vars(WorkStep)

FairSpec == Spec /\ Fairness

-----------------------------------------------------------------------------
QueueTypeOK ==
  /\ pending_evt \in RawEvt \cup {NR} /\ last_evt \in RawEvt \cup {NR}
  /\ waiting_evt \in [RawEvt -> 0 .. 2]
  /\ seq_rd_idx \in 0 .. UCHAR - 1 /\ seq_wr_idx \in 0 .. UCHAR - 1
  /\ seq_tbl \in [0 .. RAW_NODE_EVT_MAX_NR - 1 -> Nat]
  /\ pending_evt_seq \in Nat /\ evt_seq \in Nat
  /\ dwork \in {"none", "scheduled"}

ThreadTypeOK ==
  /\ evt_lock \in Threads \cup {Free}
  /\ seq_lock \in Threads \cup {Worker, Free}
  /\ wpc \in WorkPc
  /\ pc \in [Threads -> ThreadPc]
  /\ tevt \in [Threads -> RawEvt \cup {NR}] /\ tseq \in [Threads -> Nat]
  /\ \A t \in Threads : pc[t] # "idle" => tevt[t] \in RawEvt
  /\ life \in {"new", "added", "deleted"}

HistoryTypeOK ==
  /\ cur_evt \in [0 .. 1 -> RawEvt \cup {NR}] /\ cur_evt_seq \in [0 .. 1 -> Nat]
  /\ synced \in SUBSET (RawEvt \X Nat)
  /\ last_sync \in (RawEvt \cup {NR}) \X Nat
  /\ last_async \in (RawEvt \cup {NR}) \X Nat
  /\ last_raw \in RawEvt \cup {NR}

(* Every variable keeps its type; in particular no counter of waiting_evt  *)
(* passes 2, since hmdfs_update_node_waiting_evt merges before that.       *)
TypeOK == QueueTypeOK /\ ThreadTypeOK /\ HistoryTypeOK

(* The worker has taken the pending event's sequence number out of the     *)
(* ring but has not yet replaced pending_evt.                              *)
Consumed == wpc # "idle"

(* How many sequence numbers are waiting in the ring.                      *)
RingLen == (seq_wr_idx + UCHAR - seq_rd_idx) % UCHAR

QueueLen == IF pending_evt = NR THEN 0
            ELSE hmdfs_node_waiting_evt_sum + (IF Consumed THEN 0 ELSE 1)

(* The two counters and the two indices describe one queue: there are      *)
(* exactly as many sequence numbers between seq_rd_idx and seq_wr_idx as   *)
(* events pending or waiting, never more than the ring of four holds, so a *)
(* write never lands on a number that is still to be read                  *)
(* (RAW_NODE_EVT_MAX_NR is just large enough).                             *)
RingMatchesQueue ==
  /\ RingLen = QueueLen
  /\ RingLen <= RAW_NODE_EVT_MAX_NR

(* When nothing is pending and nobody is reporting, the last event whose   *)
(* callbacks ran is the one reported last: dropping duplicates and merging *)
(* OFF ON OFF loses no final state of the peer.                            *)
LastReportWins ==
  pending_evt = NR => last_evt = last_raw

(* While the ON callbacks (the restore of stashed files) run for a peer    *)
(* that has been reported off line since, hmdfs_is_node_offlined notices:  *)
(* the sequence number they were given is no longer the current one.       *)
StaleOnlineNoticed ==
  cur_evt[0] = ON /\ last_raw = OFF => cur_evt_seq[0] # evt_seq

(* The orders (1), (2) and (3) of hmdfs_queue_raw_node_evt: sync callbacks *)
(* start in the order their events were queued, and so do async callbacks, *)
(* of which OFF and ON alternate (what one ON set up is always torn down   *)
(* before the next); and an async callback starts only after the sync      *)
(* callback of the same event, with that event's own sequence number.      *)
CallbacksInOrder ==
  [][/\ last_sync' # last_sync => last_sync'[2] > last_sync[2]
     /\ last_async' # last_async => /\ last_async'[2] > last_async[2]
                                    /\ last_async'[1] # last_async[1]
                                    /\ last_async' \in synced']_vars

(* A reported state of the peer is worked off: it is overtaken by another  *)
(* report, or the queue drains with that state as the last one delivered.  *)
ReportsDrain ==
  \A e \in RawEvt :
    last_raw = e ~> \/ pending_evt = NR /\ last_evt = e
                    \/ last_raw # e
                    \/ life = "deleted"

=============================================================================
