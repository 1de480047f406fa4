------------------------- MODULE NodeEvents_proofs -------------------------
(***************************************************************************)
(* Proofs about the node-event queue, for any set of threads and any       *)
(* number of events.                                                       *)
(***************************************************************************)
EXTENDS NodeEvents, TLAPS

(* Who holds which mutex, by where it stands.                              *)
Locks ==
  /\ \A t \in Threads : evt_lock = t <=> pc[t] \in {"first_lock", "wait_lock"}
  /\ \A t \in Threads : seq_lock = t <=> pc[t] \in {"first_sync", "wait_sync"}
  /\ seq_lock = Worker <=> wpc \in {"async", "async_relocked"}

(* A thread that has made its event the pending one and has not yet        *)
(* scheduled evt_dwork.                                                    *)
Starting(t) == pc[t] \in {"first_lock", "first_sync", "schedule"}

(* A pending event is in exactly one pair of hands: its first thread's,    *)
(* the timer's, or the worker's.                                           *)
OneOwner ==
  /\ dwork = "scheduled" => pending_evt # NR /\ wpc = "idle"
  /\ wpc # "idle" => pending_evt # NR
  /\ \A t \in Threads : Starting(t) => pending_evt # NR /\ dwork = "none" /\ wpc = "idle"
  /\ \A t, u \in Threads : Starting(t) /\ Starting(u) => t = u

(* Waiting events alternate, beginning with the opposite of the pending    *)
(* one; merging keeps them few.                                            *)
Alternating ==
  /\ pending_evt = NR => waiting_evt[OFF] = 0 /\ waiting_evt[ON] = 0
  /\ pending_evt = OFF => \/ waiting_evt[ON] = 0 /\ waiting_evt[OFF] = 0
                          \/ waiting_evt[ON] = 1 /\ waiting_evt[OFF] = 0
                          \/ waiting_evt[ON] = 1 /\ waiting_evt[OFF] = 1
                          \/ waiting_evt[ON] = 2 /\ waiting_evt[OFF] = 1
  /\ pending_evt = ON  => \/ waiting_evt[OFF] = 0 /\ waiting_evt[ON] = 0
                          \/ waiting_evt[OFF] = 1 /\ waiting_evt[ON] = 0
                          \/ waiting_evt[OFF] = 1 /\ waiting_evt[ON] = 1

(* The ring between the two indices is as long as the queue.               *)
Indices == seq_wr_idx = (seq_rd_idx + QueueLen) % UCHAR

RInv == TypeOK /\ Locks /\ OneOwner /\ Alternating /\ Indices

-----------------------------------------------------------------------------
(* At most four events are pending or waiting (RAW_NODE_EVT_MAX_NR).       *)
LEMMA QueueLenBound ==
  ASSUME TypeOK, Alternating
  PROVE  QueueLen \in 0 .. RAW_NODE_EVT_MAX_NR
  BY DEF TypeOK, QueueTypeOK, Alternating, QueueLen, hmdfs_node_waiting_evt_sum,
         Consumed, RawEvt, OFF, ON, NR, RAW_NODE_EVT_MAX_NR

(* What the byte indices say modulo 256 is what RingMatchesQueue says.     *)
LEMMA RingFromIndices ==
  ASSUME RInv
  PROVE  RingMatchesQueue
  <1>1. QueueLen \in 0 .. 4
    BY QueueLenBound, Zenon DEF RInv, RAW_NODE_EVT_MAX_NR
  <1>2. seq_rd_idx \in 0 .. 255 /\ seq_wr_idx = (seq_rd_idx + QueueLen) % 256
    BY DEF RInv, TypeOK, QueueTypeOK, Indices, UCHAR
  <1>3. (seq_wr_idx + 256 - seq_rd_idx) % 256 = QueueLen
    BY <1>1, <1>2
  <1> QED
    BY <1>1, <1>3 DEF RingMatchesQueue, RingLen, UCHAR, RAW_NODE_EVT_MAX_NR

(* A peer just allocated (alloc_peer) satisfies the invariant.             *)
LEMMA InitRInv == Init => RInv
  <1> SUFFICES ASSUME Init PROVE RInv
    BY Zenon
  <1> USE DEF OFF, ON, NR, RAW_NODE_EVT_MAX_NR, UCHAR
  <1>1. QueueTypeOK
    BY DEF TypeOK, QueueTypeOK, RawEvt, Init
  <1>2. ThreadTypeOK
    BY Zenon DEF TypeOK, QueueTypeOK, ThreadTypeOK, ThreadPc, WorkPc, RawEvt,
       Init
  <1>3. HistoryTypeOK
    BY Zenon DEF TypeOK, QueueTypeOK, ThreadTypeOK, HistoryTypeOK, OneOwner,
       RawEvt, Init
  <1>4. Locks
    BY ActorAssumption, Zenon DEF TypeOK, ThreadTypeOK, Locks, Init
  <1>5. OneOwner
    BY Zenon DEF TypeOK, QueueTypeOK, ThreadTypeOK, OneOwner, Starting, RawEvt,
       Init
  <1>6. Alternating
    BY Zenon DEF TypeOK, QueueTypeOK, OneOwner, Alternating, RawEvt, Init
  <1>7. Indices
    BY DEF TypeOK, QueueTypeOK, OneOwner, Alternating, Indices, QueueLen,
       Consumed, hmdfs_node_waiting_evt_sum, RawEvt, Init
  <1> QED BY <1>1, <1>2, <1>3, <1>4, <1>5, <1>6, <1>7
         DEF RInv, TypeOK

(* The first event of an empty queue becomes the pending one.              *)
LEMMA QueueFirstRInv ==
  ASSUME RInv, NEW t \in Threads, NEW evt \in RawEvt,
         hmdfs_queue_raw_node_evt(t, evt), QueueFirst(t, evt)
  PROVE  RInv'
  <1> USE DEF OFF, ON, NR, RAW_NODE_EVT_MAX_NR, UCHAR
  <1>1. QueueTypeOK'
    BY DEF RInv, TypeOK, QueueTypeOK, RawEvt, hmdfs_queue_raw_node_evt,
       QueueFirst, PushSeq, GoSync
  <1>2. ThreadTypeOK'
    BY DEF RInv, TypeOK, QueueTypeOK, ThreadTypeOK, ThreadPc, WorkPc, RawEvt,
       hmdfs_queue_raw_node_evt, QueueFirst, PushSeq, GoSync
  <1>3. HistoryTypeOK'
    BY Zenon DEF RInv, TypeOK, QueueTypeOK, ThreadTypeOK, HistoryTypeOK,
       OneOwner, RawEvt, hmdfs_queue_raw_node_evt, QueueFirst, PushSeq, GoSync
  <1>4. Locks'
    BY ActorAssumption, Zenon DEF RInv, TypeOK, ThreadTypeOK, Locks,
       hmdfs_queue_raw_node_evt, QueueFirst, PushSeq, GoSync
  <1>5. OneOwner'
    BY DEF RInv, TypeOK, QueueTypeOK, ThreadTypeOK, OneOwner, Starting, RawEvt,
       hmdfs_queue_raw_node_evt, QueueFirst, PushSeq, GoSync
  <1>6. Alternating'
    BY Zenon DEF RInv, TypeOK, QueueTypeOK, OneOwner, Alternating, RawEvt,
       hmdfs_queue_raw_node_evt, QueueFirst, PushSeq, GoSync
  <1>7. Indices'
    BY DEF RInv, TypeOK, QueueTypeOK, OneOwner, Alternating, Indices, QueueLen,
       Consumed, hmdfs_node_waiting_evt_sum, RawEvt, hmdfs_queue_raw_node_evt,
       QueueFirst, PushSeq, GoSync
  <1> QED BY <1>1, <1>2, <1>3, <1>4, <1>5, <1>6, <1>7
         DEF RInv, TypeOK

(* A further event is dropped, merged or appended                          *)
(* (hmdfs_update_node_waiting_evt).                                        *)
LEMMA WaitingRInv ==
  ASSUME RInv, NEW t \in Threads, NEW evt \in RawEvt,
         hmdfs_queue_raw_node_evt(t, evt), hmdfs_update_node_waiting_evt(t, evt)
  PROVE  RInv'
  <1> USE DEF OFF, ON, NR, RAW_NODE_EVT_MAX_NR, UCHAR
  <1>a. Alternating' /\ waiting_evt' \in [RawEvt -> 0 .. 2]
    BY DEF RInv, TypeOK, QueueTypeOK, Alternating, RawEvt, hmdfs_update_node_waiting_evt,
       LastQueued, Merges, hmdfs_node_waiting_evt_sum
  <1>b. PushSeq(seq_wr_idx) \/ PushSeq(MergeIdx)
    BY Zenon DEF hmdfs_update_node_waiting_evt
  <1>c. MergeIdx \in 0 .. 255
    BY DEF RInv, TypeOK, QueueTypeOK, MergeIdx
  <1>1. QueueTypeOK'
    BY <1>a, <1>b, <1>c DEF RInv, TypeOK, QueueTypeOK, hmdfs_queue_raw_node_evt,
       hmdfs_update_node_waiting_evt, PushSeq
  <1>2. ThreadTypeOK'
    BY DEF RInv, TypeOK, QueueTypeOK, ThreadTypeOK, ThreadPc, WorkPc, RawEvt,
       hmdfs_queue_raw_node_evt, hmdfs_update_node_waiting_evt, GoSync
  <1>3. HistoryTypeOK'
    BY Zenon DEF RInv, TypeOK, QueueTypeOK, ThreadTypeOK, HistoryTypeOK,
       OneOwner, RawEvt, hmdfs_queue_raw_node_evt, hmdfs_update_node_waiting_evt,
       GoSync
  <1>4. Locks'
    BY ActorAssumption, Zenon DEF RInv, TypeOK, ThreadTypeOK, Locks,
       hmdfs_queue_raw_node_evt, hmdfs_update_node_waiting_evt, GoSync
  <1>5. OneOwner'
    BY ZenonT(30) DEF RInv, TypeOK, QueueTypeOK, ThreadTypeOK, OneOwner,
       Starting, RawEvt, hmdfs_queue_raw_node_evt, hmdfs_update_node_waiting_evt,
       GoSync
  <1>6. Alternating'
    BY <1>a, Zenon
  <1>7. Indices'
    <2>1. /\ pending_evt # NR /\ QueueLen \in 0 .. 4 /\ seq_rd_idx \in 0 .. 255
          /\ seq_wr_idx = (seq_rd_idx + QueueLen) % 256
      BY QueueLenBound DEF RInv, TypeOK, QueueTypeOK, Indices, hmdfs_update_node_waiting_evt
    <2>2. UNCHANGED <<pending_evt, wpc, seq_rd_idx>>
      BY Zenon DEF hmdfs_queue_raw_node_evt, hmdfs_update_node_waiting_evt
    <2>3. waiting_evt[OFF] \in 0 .. 2 /\ waiting_evt[ON] \in 0 .. 2
      BY Zenon DEF RInv, TypeOK, QueueTypeOK, RawEvt
    <2>4. CASE Merges(evt)
      <3>1. waiting_evt'[OFF] + waiting_evt'[ON] + 1 = waiting_evt[OFF] + waiting_evt[ON]
        BY <2>3, <2>4 DEF hmdfs_update_node_waiting_evt, RawEvt
      <3>2. waiting_evt[OFF] + waiting_evt[ON] >= 1
        BY <2>3, <2>4 DEF Merges, RawEvt
      <3>3. QueueLen' = QueueLen - 1 /\ QueueLen >= 1
        BY <2>1, <2>2, <2>3, <3>1, <3>2, <1>a
           DEF QueueLen, Consumed, hmdfs_node_waiting_evt_sum, RawEvt
      <3>4. seq_wr_idx' = (((seq_wr_idx + 254) % 256) + 1) % 256
        BY <2>4 DEF hmdfs_update_node_waiting_evt, PushSeq, MergeIdx
      <3> QED
        BY <2>1, <2>2, <3>3, <3>4 DEF Indices
    <2>5. CASE ~Merges(evt)
      <3>1. waiting_evt'[OFF] + waiting_evt'[ON] = waiting_evt[OFF] + waiting_evt[ON] + 1
        BY <2>3, <2>5 DEF hmdfs_update_node_waiting_evt, RInv, TypeOK, QueueTypeOK, RawEvt
      <3>2. QueueLen' = QueueLen + 1
        BY <2>1, <2>2, <2>3, <3>1, <1>a
           DEF QueueLen, Consumed, hmdfs_node_waiting_evt_sum, RawEvt
      <3>3. seq_wr_idx' = (seq_wr_idx + 1) % 256
        BY <2>5, Zenon DEF hmdfs_update_node_waiting_evt, PushSeq
      <3> QED
        BY <2>1, <2>2, <3>2, <3>3 DEF Indices
    <2> QED
      BY <2>4, <2>5, Zenon
  <1> QED BY <1>1, <1>2, <1>3, <1>4, <1>5, <1>6, <1>7
         DEF RInv, TypeOK

(* Every step keeps the invariant.                                         *)
LEMMA NextRInv == RInv /\ [Next]_vars => RInv'
  <1> SUFFICES ASSUME RInv, [Next]_vars PROVE RInv'
    BY Zenon
  <1> USE DEF OFF, ON, NR, RAW_NODE_EVT_MAX_NR, UCHAR
  <1>1. ASSUME NEW t \in Threads, NEW evt \in RawEvt, hmdfs_queue_raw_node_evt(t, evt)
        PROVE  RInv'
    <2>a. CASE Duplicate(evt)
      <3>1. QueueTypeOK'
        BY <1>1, <2>a, Zenon DEF RInv, TypeOK, QueueTypeOK, RawEvt,
           hmdfs_queue_raw_node_evt, Duplicate, queue, threads
      <3>2. ThreadTypeOK'
        BY <1>1, <2>a, Zenon DEF RInv, TypeOK, QueueTypeOK, ThreadTypeOK,
           ThreadPc, WorkPc, RawEvt, hmdfs_queue_raw_node_evt, Duplicate, queue,
           threads
      <3>3. HistoryTypeOK'
        BY <1>1, <2>a, Zenon DEF RInv, TypeOK, QueueTypeOK, ThreadTypeOK,
           HistoryTypeOK, OneOwner, RawEvt, hmdfs_queue_raw_node_evt, Duplicate,
           queue, threads
      <3>4. Locks'
        BY <1>1, <2>a, ActorAssumption, Zenon DEF RInv, TypeOK, ThreadTypeOK,
           Locks, hmdfs_queue_raw_node_evt, Duplicate, queue, threads
      <3>5. OneOwner'
        BY <1>1, <2>a, Zenon DEF RInv, TypeOK, QueueTypeOK, ThreadTypeOK,
           OneOwner, Starting, RawEvt, hmdfs_queue_raw_node_evt, Duplicate, queue,
           threads
      <3>6. Alternating'
        BY <1>1, <2>a, Zenon DEF RInv, TypeOK, QueueTypeOK, OneOwner,
           Alternating, RawEvt, hmdfs_queue_raw_node_evt, Duplicate, queue, threads
      <3>7. Indices'
        <4>1. UNCHANGED <<pending_evt, waiting_evt, seq_rd_idx, seq_wr_idx, wpc>>
          BY <1>1, <2>a, Zenon DEF hmdfs_queue_raw_node_evt, Duplicate, queue
        <4> QED
          BY <4>1, ZenonT(30) DEF RInv, Indices, QueueLen, Consumed,
             hmdfs_node_waiting_evt_sum
      <3> QED BY <3>1, <3>2, <3>3, <3>4, <3>5, <3>6, <3>7
             DEF RInv, TypeOK
    <2> QED BY <1>1, <2>a, QueueFirstRInv, WaitingRInv DEF hmdfs_queue_raw_node_evt
  <1>2. ASSUME NEW t \in Threads, StartSync(t) PROVE RInv'
    <2>1. QueueTypeOK'
      BY <1>2, Zenon DEF RInv, TypeOK, QueueTypeOK, RawEvt, StartSync, queue
    <2>2. ThreadTypeOK'
      BY <1>2, Zenon DEF RInv, TypeOK, QueueTypeOK, ThreadTypeOK, ThreadPc,
         WorkPc, RawEvt, StartSync, queue
    <2>3. HistoryTypeOK'
      BY <1>2, Zenon DEF RInv, TypeOK, QueueTypeOK, ThreadTypeOK, HistoryTypeOK,
         OneOwner, RawEvt, StartSync, queue
    <2>4. Locks'
      BY <1>2, ActorAssumption, Zenon DEF RInv, TypeOK, ThreadTypeOK, Locks,
         StartSync, queue
    <2>5. OneOwner'
      BY <1>2, ZenonT(30) DEF RInv, TypeOK, QueueTypeOK, ThreadTypeOK, OneOwner,
         Starting, RawEvt, StartSync, queue
    <2>6. Alternating'
      BY <1>2, Zenon DEF RInv, TypeOK, QueueTypeOK, OneOwner, Alternating,
         RawEvt, StartSync, queue
    <2>7. Indices'
      <3>1. /\ UNCHANGED <<pending_evt, waiting_evt, seq_rd_idx, seq_wr_idx>>
            /\ Consumed' <=> Consumed
        BY <1>2, Zenon DEF StartSync, queue, Consumed
      <3> QED
        BY <3>1, ZenonT(30) DEF RInv, Indices, QueueLen,
           hmdfs_node_waiting_evt_sum
    <2> QED BY <2>1, <2>2, <2>3, <2>4, <2>5, <2>6, <2>7
           DEF RInv, TypeOK
  <1>3. ASSUME NEW t \in Threads, EndSync(t) PROVE RInv'
    <2>1. QueueTypeOK'
      BY <1>3, Zenon DEF RInv, TypeOK, QueueTypeOK, RawEvt, EndSync, queue
    <2>2. ThreadTypeOK'
      BY <1>3, Zenon DEF RInv, TypeOK, QueueTypeOK, ThreadTypeOK, ThreadPc,
         WorkPc, RawEvt, EndSync, queue
    <2>3. HistoryTypeOK'
      BY <1>3 DEF RInv, TypeOK, QueueTypeOK, ThreadTypeOK, HistoryTypeOK,
         OneOwner, RawEvt, EndSync, queue
    <2>4. Locks'
      BY <1>3, ActorAssumption, Zenon DEF RInv, TypeOK, ThreadTypeOK, Locks,
         EndSync, queue
    <2>5. OneOwner'
      BY <1>3, ZenonT(30) DEF RInv, TypeOK, QueueTypeOK, ThreadTypeOK, OneOwner,
         Starting, RawEvt, EndSync, queue
    <2>6. Alternating'
      BY <1>3, Zenon DEF RInv, TypeOK, QueueTypeOK, OneOwner, Alternating,
         RawEvt, EndSync, queue
    <2>7. Indices'
      <3>1. /\ UNCHANGED <<pending_evt, waiting_evt, seq_rd_idx, seq_wr_idx>>
            /\ Consumed' <=> Consumed
        BY <1>3, Zenon DEF EndSync, queue, Consumed
      <3> QED
        BY <3>1, ZenonT(30) DEF RInv, Indices, QueueLen, hmdfs_node_waiting_evt_sum
    <2> QED BY <2>1, <2>2, <2>3, <2>4, <2>5, <2>6, <2>7
           DEF RInv, TypeOK
  <1>4. ASSUME NEW t \in Threads, ScheduleWork(t) PROVE RInv'
    <2>1. QueueTypeOK'
      BY <1>4, Zenon DEF RInv, TypeOK, QueueTypeOK, RawEvt, ScheduleWork, queue,
         history
    <2>2. ThreadTypeOK'
      BY <1>4, Zenon DEF RInv, TypeOK, QueueTypeOK, ThreadTypeOK, ThreadPc,
         WorkPc, RawEvt, ScheduleWork, queue, history
    <2>3. HistoryTypeOK'
      BY <1>4, Zenon DEF RInv, TypeOK, QueueTypeOK, ThreadTypeOK, HistoryTypeOK,
         OneOwner, RawEvt, ScheduleWork, queue, history
    <2>4. Locks'
      BY <1>4, ActorAssumption, Zenon DEF RInv, TypeOK, ThreadTypeOK, Locks,
         ScheduleWork, queue, history
    <2>5. OneOwner'
      BY <1>4, Zenon DEF RInv, TypeOK, QueueTypeOK, ThreadTypeOK, OneOwner,
         Starting, RawEvt, ScheduleWork, queue, history
    <2>6. Alternating'
      BY <1>4, Zenon DEF RInv, TypeOK, QueueTypeOK, OneOwner, Alternating,
         RawEvt, ScheduleWork, queue, history
    <2>7. Indices'
      <3>1. /\ UNCHANGED <<pending_evt, waiting_evt, seq_rd_idx, seq_wr_idx>>
            /\ Consumed' <=> Consumed
        BY <1>4, Zenon DEF ScheduleWork, queue, Consumed
      <3> QED
        BY <3>1, ZenonT(30) DEF RInv, Indices, QueueLen, hmdfs_node_waiting_evt_sum
    <2> QED BY <2>1, <2>2, <2>3, <2>4, <2>5, <2>6, <2>7
           DEF RInv, TypeOK
  <1>5. CASE StartAsync
    <2>1. QueueTypeOK'
      BY <1>5 DEF RInv, TypeOK, QueueTypeOK, RawEvt, StartAsync, queue, threads
    <2>2. ThreadTypeOK'
      BY <1>5, Zenon DEF RInv, TypeOK, QueueTypeOK, ThreadTypeOK, ThreadPc,
         WorkPc, RawEvt, StartAsync, queue, threads
    <2>3. HistoryTypeOK'
      BY <1>5 DEF RInv, TypeOK, QueueTypeOK, ThreadTypeOK, HistoryTypeOK,
         OneOwner, RawEvt, StartAsync, queue, threads
    <2>4. Locks'
      BY <1>5, ActorAssumption, Zenon DEF RInv, TypeOK, ThreadTypeOK, Locks,
         StartAsync, queue, threads
    <2>5. OneOwner'
      BY <1>5, Zenon DEF RInv, TypeOK, QueueTypeOK, ThreadTypeOK, OneOwner,
         Starting, RawEvt, StartAsync, queue, threads
    <2>6. Alternating'
      BY <1>5, Zenon DEF RInv, TypeOK, QueueTypeOK, OneOwner, Alternating,
         RawEvt, StartAsync, queue, threads
    <2>7. Indices'
      <3>1. /\ seq_rd_idx \in 0 .. 255 /\ QueueLen \in 0 .. 4
            /\ seq_wr_idx = (seq_rd_idx + QueueLen) % 256
        BY QueueLenBound DEF RInv, TypeOK, QueueTypeOK, Indices
      <3>2. /\ seq_rd_idx' = (seq_rd_idx + 1) % 256
            /\ UNCHANGED <<pending_evt, waiting_evt, seq_wr_idx>>
        BY <1>5, Zenon DEF StartAsync, queue
      <3>3. pending_evt # NR /\ ~Consumed /\ Consumed'
        BY <1>5, Zenon DEF StartAsync, RInv, OneOwner, Consumed
      <3>4. waiting_evt[OFF] \in 0 .. 2 /\ waiting_evt[ON] \in 0 .. 2
        BY Zenon DEF RInv, TypeOK, QueueTypeOK, RawEvt
      <3>5. QueueLen' = QueueLen - 1 /\ QueueLen >= 1
        BY <3>2, <3>3, <3>4 DEF QueueLen, hmdfs_node_waiting_evt_sum
      <3> QED
        BY <3>1, <3>2, <3>5 DEF Indices
    <2> QED BY <2>1, <2>2, <2>3, <2>4, <2>5, <2>6, <2>7
           DEF RInv, TypeOK
  <1>6. CASE AsyncUnlock \/ AsyncRelock
    <2>1. QueueTypeOK'
      BY <1>6 DEF RInv, TypeOK, QueueTypeOK, RawEvt, AsyncUnlock, AsyncRelock,
         queue, threads, history
    <2>2. ThreadTypeOK'
      BY <1>6, Zenon DEF RInv, TypeOK, QueueTypeOK, ThreadTypeOK, ThreadPc,
         WorkPc, RawEvt, AsyncUnlock, AsyncRelock, queue, threads, history
    <2>3. HistoryTypeOK'
      BY <1>6, Zenon DEF RInv, TypeOK, QueueTypeOK, ThreadTypeOK, HistoryTypeOK,
         OneOwner, RawEvt, AsyncUnlock, AsyncRelock, queue, threads, history
    <2>4. Locks'
      BY <1>6, ActorAssumption, Zenon DEF RInv, TypeOK, ThreadTypeOK, Locks,
         AsyncUnlock, AsyncRelock, queue, threads, history
    <2>5. OneOwner'
      BY <1>6, Zenon DEF RInv, TypeOK, QueueTypeOK, ThreadTypeOK, OneOwner,
         Starting, RawEvt, AsyncUnlock, AsyncRelock, queue, threads, history
    <2>6. Alternating'
      BY <1>6, Zenon DEF RInv, TypeOK, QueueTypeOK, OneOwner, Alternating,
         RawEvt, AsyncUnlock, AsyncRelock, queue, threads, history
    <2>7. Indices'
      <3>1. /\ UNCHANGED <<pending_evt, waiting_evt, seq_rd_idx, seq_wr_idx>>
            /\ Consumed' <=> Consumed
        BY <1>6, Zenon DEF AsyncUnlock, AsyncRelock, queue, Consumed
      <3> QED
        BY <3>1, ZenonT(30) DEF RInv, Indices, QueueLen,
           hmdfs_node_waiting_evt_sum
    <2> QED BY <2>1, <2>2, <2>3, <2>4, <2>5, <2>6, <2>7
           DEF RInv, TypeOK
  <1>7. CASE EndAsync
    <2>1. QueueTypeOK'
      BY <1>7, Zenon DEF RInv, TypeOK, QueueTypeOK, RawEvt, EndAsync, queue,
         threads, history
    <2>2. ThreadTypeOK'
      BY <1>7, Zenon DEF RInv, TypeOK, QueueTypeOK, ThreadTypeOK, ThreadPc,
         WorkPc, RawEvt, EndAsync, queue, threads, history
    <2>3. HistoryTypeOK'
      BY <1>7, Zenon DEF RInv, TypeOK, QueueTypeOK, ThreadTypeOK, HistoryTypeOK,
         OneOwner, RawEvt, EndAsync, queue, threads, history
    <2>4. Locks'
      BY <1>7, ActorAssumption, Zenon DEF RInv, TypeOK, ThreadTypeOK, Locks,
         EndAsync, queue, threads, history
    <2>5. OneOwner'
      BY <1>7, Zenon DEF RInv, TypeOK, QueueTypeOK, ThreadTypeOK, OneOwner,
         Starting, RawEvt, EndAsync, queue, threads, history
    <2>6. Alternating'
      BY <1>7, Zenon DEF RInv, TypeOK, QueueTypeOK, OneOwner, Alternating,
         RawEvt, EndAsync, queue, threads, history
    <2>7. Indices'
      BY <1>7, ZenonT(30) DEF RInv, TypeOK, QueueTypeOK, OneOwner, Alternating,
         Indices, QueueLen, Consumed, hmdfs_node_waiting_evt_sum, RawEvt, EndAsync,
         queue, threads, history
    <2> QED BY <2>1, <2>2, <2>3, <2>4, <2>5, <2>6, <2>7
           DEF RInv, TypeOK
  <1>8. CASE FinishWork
    <2>a. pending_evt = OFF \/ pending_evt = ON
      BY <1>8, Zenon DEF RInv, TypeOK, QueueTypeOK, OneOwner, RawEvt, FinishWork
    <2>b. Alternating' /\ waiting_evt' \in [RawEvt -> 0 .. 2]
      <3>1. CASE hmdfs_node_waiting_evt_sum = 0
        BY <1>8, <3>1 DEF RInv, TypeOK, QueueTypeOK, Alternating, RawEvt,
             hmdfs_node_waiting_evt_sum, FinishWork
      <3>2. CASE hmdfs_node_waiting_evt_sum > 0 /\ pending_evt = OFF
        BY <1>8, <3>2 DEF RInv, TypeOK, QueueTypeOK, Alternating, RawEvt,
             hmdfs_node_waiting_evt_sum, FinishWork
      <3>3. CASE hmdfs_node_waiting_evt_sum > 0 /\ pending_evt = ON
        BY <1>8, <3>3 DEF RInv, TypeOK, QueueTypeOK, Alternating, RawEvt,
             hmdfs_node_waiting_evt_sum, FinishWork
      <3> QED BY <1>8, <2>a, <3>1, <3>2, <3>3 DEF FinishWork
    <2>1. QueueTypeOK'
      BY <1>8, <2>a, <2>b DEF RInv, TypeOK, QueueTypeOK, RawEvt, FinishWork,
         threads, history
    <2>2. ThreadTypeOK'
      BY <1>8, Zenon DEF RInv, TypeOK, QueueTypeOK, ThreadTypeOK, ThreadPc,
         WorkPc, RawEvt, FinishWork, threads, history
    <2>3. HistoryTypeOK'
      BY <1>8, Zenon DEF RInv, TypeOK, QueueTypeOK, ThreadTypeOK, HistoryTypeOK,
         OneOwner, RawEvt, FinishWork, threads, history
    <2>4. Locks'
      BY <1>8, ActorAssumption, Zenon DEF RInv, TypeOK, ThreadTypeOK, Locks,
         FinishWork, threads, history
    <2>5. OneOwner'
      BY <1>8 DEF RInv, TypeOK, QueueTypeOK, ThreadTypeOK, OneOwner, Starting,
         RawEvt, FinishWork, threads, history
    <2>6. Alternating'
      BY <2>b, Zenon
    <2>7. Indices'
      <3>1. UNCHANGED <<seq_rd_idx, seq_wr_idx>> /\ Consumed /\ ~Consumed'
        BY <1>8, Zenon DEF FinishWork, Consumed
      <3>2. waiting_evt[OFF] \in 0 .. 2 /\ waiting_evt[ON] \in 0 .. 2
        BY Zenon DEF RInv, TypeOK, QueueTypeOK, RawEvt
      <3>3. CASE hmdfs_node_waiting_evt_sum = 0
        BY <1>8, <2>a, <3>1, <3>3 DEF FinishWork, RInv, Indices, QueueLen
      <3>4. CASE hmdfs_node_waiting_evt_sum > 0
        <4>1. pending_evt' # NR
          BY <1>8, <2>a, <3>4 DEF FinishWork
        <4>2. waiting_evt'[OFF] + waiting_evt'[ON] + 1 = waiting_evt[OFF] + waiting_evt[ON]
          BY <1>8, <2>a, <3>2, <3>4 DEF FinishWork, RInv, TypeOK, QueueTypeOK, RawEvt
        <4>3. waiting_evt'[OFF] \in 0 .. 2 /\ waiting_evt'[ON] \in 0 .. 2
          BY <2>b, Zenon DEF RawEvt
        <4>4. QueueLen' = QueueLen
          BY <2>a, <3>1, <3>2, <4>1, <4>2, <4>3 DEF QueueLen, hmdfs_node_waiting_evt_sum
        <4> QED
          BY <3>1, <4>4, Zenon DEF RInv, Indices
      <3> QED
        BY <1>8, <3>3, <3>4, Zenon DEF FinishWork
    <2> QED BY <2>1, <2>2, <2>3, <2>4, <2>5, <2>6, <2>7
           DEF RInv, TypeOK
  <1>9. CASE hmdfs_node_inc_evt_seq \/ AddPeer \/ hmdfs_del_peer
    <2>1. QueueTypeOK'
      BY <1>9 DEF RInv, TypeOK, QueueTypeOK, RawEvt, hmdfs_node_inc_evt_seq,
         AddPeer, hmdfs_del_peer, queue, threads, history
    <2>2. ThreadTypeOK'
      BY <1>9, Zenon DEF RInv, TypeOK, QueueTypeOK, ThreadTypeOK, ThreadPc,
         WorkPc, RawEvt, hmdfs_node_inc_evt_seq, AddPeer, hmdfs_del_peer, queue,
         threads, history
    <2>3. HistoryTypeOK'
      BY <1>9, Zenon DEF RInv, TypeOK, QueueTypeOK, ThreadTypeOK, HistoryTypeOK,
         OneOwner, RawEvt, hmdfs_node_inc_evt_seq, AddPeer, hmdfs_del_peer, queue,
         threads, history
    <2>4. Locks'
      BY <1>9, ActorAssumption, Zenon DEF RInv, TypeOK, ThreadTypeOK, Locks,
         hmdfs_node_inc_evt_seq, AddPeer, hmdfs_del_peer, queue, threads, history
    <2>5. OneOwner'
      BY <1>9, Zenon DEF RInv, TypeOK, QueueTypeOK, ThreadTypeOK, OneOwner,
         Starting, RawEvt, hmdfs_node_inc_evt_seq, AddPeer, hmdfs_del_peer, queue,
         threads, history
    <2>6. Alternating'
      BY <1>9, Zenon DEF RInv, TypeOK, QueueTypeOK, OneOwner, Alternating,
         RawEvt, hmdfs_node_inc_evt_seq, AddPeer, hmdfs_del_peer, queue, threads,
         history
    <2>7. Indices'
      <3>1. /\ UNCHANGED <<pending_evt, waiting_evt, seq_rd_idx, seq_wr_idx>>
            /\ Consumed' <=> Consumed
        BY <1>9, Zenon DEF hmdfs_node_inc_evt_seq, AddPeer, hmdfs_del_peer,
           queue, Consumed
      <3> QED
        BY <3>1, ZenonT(30) DEF RInv, Indices, QueueLen, hmdfs_node_waiting_evt_sum
    <2> QED BY <2>1, <2>2, <2>3, <2>4, <2>5, <2>6, <2>7
           DEF RInv, TypeOK
  <1>10. CASE UNCHANGED vars
    <2>1. QueueTypeOK'
      BY <1>10, Zenon DEF RInv, TypeOK, QueueTypeOK, RawEvt, vars, queue,
         threads, history
    <2>2. ThreadTypeOK'
      BY <1>10, Zenon DEF RInv, TypeOK, QueueTypeOK, ThreadTypeOK, ThreadPc,
         WorkPc, RawEvt, vars, queue, threads, history
    <2>3. HistoryTypeOK'
      BY <1>10, Zenon DEF RInv, TypeOK, QueueTypeOK, ThreadTypeOK,
         HistoryTypeOK, OneOwner, RawEvt, vars, queue, threads, history
    <2>4. Locks'
      BY <1>10, ActorAssumption, Zenon DEF RInv, TypeOK, ThreadTypeOK, Locks,
         vars, queue, threads, history
    <2>5. OneOwner'
      BY <1>10, Zenon DEF RInv, TypeOK, QueueTypeOK, ThreadTypeOK, OneOwner,
         Starting, RawEvt, vars, queue, threads, history
    <2>6. Alternating'
      BY <1>10, Zenon DEF RInv, TypeOK, QueueTypeOK, OneOwner, Alternating,
         RawEvt, vars, queue, threads, history
    <2>7. Indices'
      <3>1. /\ UNCHANGED <<pending_evt, waiting_evt, seq_rd_idx, seq_wr_idx>>
            /\ Consumed' <=> Consumed
        BY <1>10, Zenon DEF vars, queue, Consumed
      <3> QED
        BY <3>1, ZenonT(30) DEF RInv, Indices, QueueLen, hmdfs_node_waiting_evt_sum
    <2> QED BY <2>1, <2>2, <2>3, <2>4, <2>5, <2>6, <2>7
           DEF RInv, TypeOK
  <1> QED
    BY <1>1, <1>2, <1>3, <1>4, <1>5, <1>6, <1>7, <1>8, <1>9, <1>10, Zenon DEF
       Next

-----------------------------------------------------------------------------
(* Type correctness of the queue, and that counters, indices and ring      *)
(* describe one queue of at most four events: however many threads report  *)
(* however many events, hmdfs_queue_raw_node_evt never overwrites a        *)
(* sequence number that hmdfs_node_evt_work has still to read.             *)
THEOREM RingSafe == Spec => [](TypeOK /\ RingMatchesQueue)
  <1>1. RInv => TypeOK /\ RingMatchesQueue
    BY RingFromIndices, Zenon DEF RInv
  <1> QED BY <1>1, InitRInv, NextRInv, PTL DEF Spec

-----------------------------------------------------------------------------
(* The ring as a queue: what its k-th number is, and of which event.       *)
Slot(k) == (seq_rd_idx + k) % RAW_NODE_EVT_MAX_NR
Number(k) == seq_tbl[Slot(k)]
Event(k) == IF wpc = "idle" <=> k % 2 = 0 THEN pending_evt ELSE 1 - pending_evt
InRing == 0 .. QueueLen - 1

(* The queue ends with what was reported last.                             *)
LastWord == last_raw = IF pending_evt = NR THEN last_evt ELSE LastQueued

(* The numbers in the ring ascend, above those already called back.        *)
Ascending ==
  /\ last_async[2] <= evt_seq
  /\ \A k \in InRing : last_async[2] < Number(k) /\ Number(k) <= evt_seq
  /\ \A j, k \in InRing : j < k => Number(j) < Number(k)

(* The event called back last, seen from the pending one.                  *)
Turns ==
  IF pending_evt = NR THEN last_async[1] = last_evt
  ELSE last_async[1] = pending_evt <=> wpc # "idle"

Running ==
  cur_evt[0] # NR =>
    /\ wpc \in {"async", "async_unlocked", "async_relocked"}
    /\ cur_evt[0] = pending_evt /\ cur_evt_seq[0] = last_async[2]

(* evt_lock is handed over for seq_lock, so sync callbacks keep the order. *)
SyncOrder ==
  /\ last_sync[2] <= evt_seq
  /\ \A t \in Threads : pc[t] \in {"first_lock", "wait_lock"} =>
       /\ last_sync[2] < tseq[t] /\ tseq[t] <= evt_seq
       /\ pc[t] = "wait_lock" => /\ hmdfs_node_waiting_evt_sum > 0 /\ pending_evt # NR
                                 /\ tseq[t] = Number(QueueLen - 1)

(* The sync callbacks of an event in the ring have run, or its thread is   *)
(* about to run them.                                                      *)
InSync(t) == pc[t] \in {"first_lock", "wait_lock", "first_sync", "wait_sync"}

Reported ==
  \A k \in InRing :
    \/ <<Event(k), Number(k)>> \in synced
    \/ \E t \in Threads : InSync(t) /\ tevt[t] = Event(k) /\ tseq[t] = Number(k)

OInv == LastWord /\ Ascending /\ Turns /\ Running /\ SyncOrder /\ Reported

(* The ring has four slots and the indices 256 values.                     *)
LEMMA SlotFacts ==
  ASSUME NEW rd \in 0 .. 255
  PROVE  /\ \A k \in 0 .. 4 : (rd + k) % 4 \in 0 .. 3 /\ ((rd + k) % 256) % 4 = (rd + k) % 4
         /\ \A j, k \in 0 .. 3 : j # k => (rd + j) % 4 # (rd + k) % 4
         /\ \A k \in 2 .. 4 : ((((rd + k) % 256) + 254) % 256) % 4 = (rd + (k - 2)) % 4
         /\ \A k \in 0 .. 3 : (((rd + 1) % 256) + k) % 4 = (rd + (k + 1)) % 4
  OBVIOUS

(* A number is written to the slot after the first m.                      *)
LEMMA RingWrite ==
  ASSUME seq_rd_idx \in 0 .. 255, seq_tbl \in [0 .. 3 -> Nat], NEW m \in 0 .. 3,
         seq_rd_idx' = seq_rd_idx, NEW n,
         seq_tbl' = [seq_tbl EXCEPT ![(seq_rd_idx + m) % 4] = n]
  PROVE  Number(m)' = n /\ \A k \in 0 .. m - 1 : Number(k)' = Number(k)
  <1>1. (seq_rd_idx + m) % 4 \in 0 .. 3
    BY SlotFacts
  <1>2. ASSUME NEW k \in 0 .. m - 1 PROVE Number(k)' = Number(k)
    <2>1. (seq_rd_idx + k) % 4 \in 0 .. 3 /\ (seq_rd_idx + k) % 4 # (seq_rd_idx + m) % 4
      BY SlotFacts
    <2> QED
      BY <1>1, <2>1, Zenon DEF Number, Slot, RAW_NODE_EVT_MAX_NR
  <1>3. Number(m)' = n
    BY <1>1, Zenon DEF Number, Slot, RAW_NODE_EVT_MAX_NR
  <1> QED
    BY <1>2, <1>3, Zenon

(* What hmdfs_queue_raw_node_evt does to the queue, be it empty, be the    *)
(* event merged or not: m entries stay and the event follows them.         *)
Pushed(t, evt, m) ==
  /\ m \in 0 .. 3 /\ m <= QueueLen /\ QueueLen' = m + 1
  /\ \A k \in 0 .. m - 1 : Number(k)' = Number(k) /\ Event(k)' = Event(k)
  /\ Number(m)' = evt_seq + 1 /\ Event(m)' = evt
  /\ pending_evt' # NR /\ LastQueued' = evt
  /\ pc'[t] = "wait_lock" => hmdfs_node_waiting_evt_sum' > 0

LEMMA PushedFirst ==
  ASSUME RInv, NEW t \in Threads, NEW evt \in RawEvt,
         hmdfs_queue_raw_node_evt(t, evt), QueueFirst(t, evt)
  PROVE  Pushed(t, evt, 0)
  <1> USE DEF OFF, ON, NR, RAW_NODE_EVT_MAX_NR, UCHAR
  <1>1. /\ wpc = "idle" /\ wpc' = wpc /\ seq_rd_idx' = seq_rd_idx /\ seq_rd_idx \in 0 .. 255
        /\ pending_evt = NR /\ pending_evt' = evt /\ waiting_evt' = waiting_evt
        /\ waiting_evt[OFF] = 0 /\ waiting_evt[ON] = 0 /\ seq_tbl \in [0 .. 3 -> Nat]
        /\ evt \in {0, 1} /\ evt_seq' = evt_seq + 1
    BY DEF RInv, TypeOK, QueueTypeOK, OneOwner, Alternating, RawEvt, hmdfs_queue_raw_node_evt,
       QueueFirst, PushSeq
  <1>2. QueueLen = 0 /\ QueueLen' = 1 /\ LastQueued' = evt /\ Event(0)' = evt
    BY <1>1 DEF QueueLen, Consumed, hmdfs_node_waiting_evt_sum, LastQueued, Event
  <1>3. seq_wr_idx = seq_rd_idx
    BY <1>1, <1>2 DEF RInv, Indices
  <1>4. seq_tbl' = [seq_tbl EXCEPT ![(seq_rd_idx + 0) % 4] = evt_seq + 1]
    BY <1>1, <1>3 DEF QueueFirst, PushSeq
  <1>5. Number(0)' = evt_seq + 1
    BY <1>1, <1>4, SlotFacts DEF Number, Slot
  <1>6. pc'[t] # "wait_lock"
    BY Zenon DEF QueueFirst, GoSync, RInv, TypeOK, ThreadTypeOK
  <1> QED
    BY <1>1, <1>2, <1>5, <1>6 DEF Pushed

(* How many entries an event that is not the first leaves before it.       *)
Keeps(evt) == IF Merges(evt) THEN QueueLen - 2 ELSE QueueLen

LEMMA PushedWaiting ==
  ASSUME RInv, NEW t \in Threads, NEW evt \in RawEvt,
         hmdfs_queue_raw_node_evt(t, evt), hmdfs_update_node_waiting_evt(t, evt)
  PROVE  \E m \in 0 .. 3 : Pushed(t, evt, m)
  <1> USE DEF OFF, ON, NR, RAW_NODE_EVT_MAX_NR, UCHAR
  <1>1. /\ UNCHANGED <<wpc, seq_rd_idx, pending_evt>> /\ seq_rd_idx \in 0 .. 255
        /\ pending_evt \in {0, 1} /\ seq_tbl \in [0 .. 3 -> Nat] /\ QueueLen \in 0 .. 4
        /\ waiting_evt[OFF] \in 0 .. 2 /\ waiting_evt[ON] \in 0 .. 2
        /\ evt \in {0, 1} /\ evt_seq' = evt_seq + 1 /\ wpc \in WorkPc
        /\ seq_wr_idx = (seq_rd_idx + QueueLen) % 256
    BY QueueLenBound DEF RInv, TypeOK, QueueTypeOK, ThreadTypeOK, RawEvt, Indices,
       hmdfs_queue_raw_node_evt, hmdfs_update_node_waiting_evt, PushSeq
  <1>2. /\ QueueLen = waiting_evt[OFF] + waiting_evt[ON] + (IF wpc = "idle" THEN 1 ELSE 0)
        /\ QueueLen' = waiting_evt'[OFF] + waiting_evt'[ON] + (IF wpc = "idle" THEN 1 ELSE 0)
    BY <1>1 DEF QueueLen, Consumed, hmdfs_node_waiting_evt_sum
  <1>3. Alternating /\ evt # LastQueued
    BY Zenon DEF RInv, hmdfs_update_node_waiting_evt
  <1>4. /\ evt = 0 => /\ waiting_evt'[0] = waiting_evt[0] + (IF Merges(evt) THEN 0 ELSE 1)
                      /\ waiting_evt'[1] = waiting_evt[1] - (IF Merges(evt) THEN 1 ELSE 0)
        /\ evt = 1 => /\ waiting_evt'[1] = waiting_evt[1] + (IF Merges(evt) THEN 0 ELSE 1)
                      /\ waiting_evt'[0] = waiting_evt[0] - (IF Merges(evt) THEN 1 ELSE 0)
    BY <1>1 DEF hmdfs_update_node_waiting_evt, RInv, TypeOK, QueueTypeOK, RawEvt
  <1>5. /\ Keeps(evt) \in 0 .. 3 /\ Keeps(evt) <= QueueLen /\ QueueLen' = Keeps(evt) + 1
        /\ LastQueued' = evt /\ hmdfs_node_waiting_evt_sum' > 0
        /\ (wpc = "idle" <=> Keeps(evt) % 2 = 0) <=> evt = pending_evt
    <2>1. CASE evt = 0 /\ pending_evt = 0
      <3>1. (waiting_evt[0] = 0 /\ waiting_evt[1] = 1) \/ (waiting_evt[0] = 1 /\ waiting_evt[1] = 2)
        BY <1>1, <1>3, <2>1 DEF Alternating, LastQueued, hmdfs_node_waiting_evt_sum
      <3>2. Merges(evt) <=> waiting_evt[0] = 1
        BY <2>1, <3>1 DEF Merges
      <3>3. waiting_evt'[0] = 1 /\ waiting_evt'[1] = 1
        BY <1>4, <2>1, <3>1, <3>2
      <3>4. LastQueued' = evt /\ hmdfs_node_waiting_evt_sum' > 0
        BY <1>1, <2>1, <3>3 DEF LastQueued, hmdfs_node_waiting_evt_sum
      <3>5. /\ QueueLen = (IF Merges(evt) THEN 3 ELSE 1) + (IF wpc = "idle" THEN 1 ELSE 0)
            /\ QueueLen' = 2 + (IF wpc = "idle" THEN 1 ELSE 0)
        BY <1>2, <3>1, <3>2, <3>3
      <3> QED
        BY <2>1, <3>4, <3>5 DEF Keeps
    <2>2. CASE evt = 1 /\ pending_evt = 0
      BY <1>1, <1>2, <1>3, <1>4, <2>2 DEF Alternating, LastQueued, hmdfs_node_waiting_evt_sum,
         Merges, Keeps
    <2>3. CASE evt = 0 /\ pending_evt = 1
      BY <1>1, <1>2, <1>3, <1>4, <2>3 DEF Alternating, LastQueued, hmdfs_node_waiting_evt_sum,
         Merges, Keeps
    <2>4. CASE evt = 1 /\ pending_evt = 1
      BY <1>1, <1>2, <1>3, <1>4, <2>4 DEF Alternating, LastQueued, hmdfs_node_waiting_evt_sum,
         Merges, Keeps
    <2> QED
      BY <1>1, <2>1, <2>2, <2>3, <2>4, Zenon
  <1>6. PICK m \in 0 .. 3 : m = Keeps(evt)
    BY <1>5, Zenon
  <1>7. seq_tbl' = [seq_tbl EXCEPT ![(seq_rd_idx + m) % 4] = evt_seq + 1]
    <2>1. CASE Merges(evt)
      <3>1. QueueLen \in 2 .. 4 /\ m = QueueLen - 2
        BY <1>1, <1>6, <2>1 DEF Keeps
      <3>2. MergeIdx % 4 = (seq_rd_idx + (QueueLen - 2)) % 4
        BY <1>1, <3>1, SlotFacts DEF MergeIdx
      <3> QED
        BY <2>1, <3>1, <3>2, Zenon DEF hmdfs_update_node_waiting_evt, PushSeq
    <2>2. CASE ~Merges(evt)
      <3>1. seq_wr_idx % 4 = (seq_rd_idx + m) % 4
        BY <1>1, <1>6, <2>2, SlotFacts DEF Keeps
      <3> QED
        BY <2>2, <3>1, Zenon DEF hmdfs_update_node_waiting_evt, PushSeq
    <2> QED
      BY <2>1, <2>2, Zenon
  <1>8. Number(m)' = evt_seq + 1 /\ \A k \in 0 .. m - 1 : Number(k)' = Number(k)
    BY <1>1, <1>7, RingWrite, Zenon
  <1>9. Event(m)' = evt /\ \A k \in 0 .. m - 1 : Event(k)' = Event(k)
    BY <1>1, <1>5, <1>6 DEF Event
  <1>10. Pushed(t, evt, m)
    BY <1>1, <1>5, <1>6, <1>8, <1>9 DEF Pushed
  <1> QED
    BY <1>10, Zenon

(* The places of the ring after a report is put at place m.                *)
LEMMA RingGrows ==
  ASSUME NEW m \in 0 .. 3, QueueLen \in 0 .. 4, QueueLen' = m + 1, m <= QueueLen
  PROVE  /\ InRing' = 0 .. m /\ 0 .. m - 1 \subseteq InRing /\ m \in InRing'
         /\ \A k \in InRing' : k = m \/ (k \in 0 .. m - 1 /\ k \in InRing)
  BY DEF InRing

LEMMA RingNumbers ==
  ASSUME seq_rd_idx \in 0 .. 255, seq_tbl \in [0 .. 3 -> Nat], QueueLen \in 0 .. 4
  PROVE  \A k \in InRing : Number(k) \in Nat
  BY SlotFacts DEF InRing, Number, Slot, RAW_NODE_EVT_MAX_NR

(* A report that is no duplicate keeps the order.                          *)
LEMMA PushedOInv ==
  ASSUME RInv, OInv, NEW t \in Threads, NEW evt \in RawEvt, NEW m \in 0 .. 3,
         hmdfs_queue_raw_node_evt(t, evt), Pushed(t, evt, m),
         evt_seq' = evt_seq + 1, UNCHANGED last_evt,
         evt_lock' = t, pc'[t] \in {"first_lock", "wait_lock"},
         tevt' = [tevt EXCEPT ![t] = evt], tseq' = [tseq EXCEPT ![t] = evt_seq + 1],
         \A u \in Threads \ {t} : pc'[u] = pc[u],
         pending_evt' = pending_evt \/ (pending_evt = NR /\ evt # last_evt /\ pending_evt' = evt)
  PROVE  OInv'
  <1>1. /\ evt_seq \in Nat /\ QueueLen \in 0 .. 4 /\ tseq \in [Threads -> Nat]
        /\ tevt \in [Threads -> RawEvt \cup {NR}] /\ last_async[2] \in Nat /\ last_sync[2] \in Nat
        /\ seq_rd_idx \in 0 .. 255 /\ seq_tbl \in [0 .. 3 -> Nat]
    BY QueueLenBound DEF RInv, TypeOK, QueueTypeOK, ThreadTypeOK, HistoryTypeOK,
       RAW_NODE_EVT_MAX_NR, UCHAR
  <1>2. UNCHANGED <<wpc, cur_evt, cur_evt_seq, synced, last_sync, last_async>> /\ last_raw' = evt
    BY Zenon DEF hmdfs_queue_raw_node_evt
  <1>3. evt_lock = Free /\ pc[t] = "idle" /\ \A u \in Threads : pc[u] \notin {"first_lock", "wait_lock"}
    BY ActorAssumption, Zenon DEF hmdfs_queue_raw_node_evt, RInv, Locks
  <1>4. /\ InRing' = 0 .. m /\ 0 .. m - 1 \subseteq InRing /\ m \in InRing'
        /\ \A k \in InRing' : k = m \/ (k \in 0 .. m - 1 /\ k \in InRing)
    <2>1. QueueLen' = m + 1 /\ m <= QueueLen
      BY Zenon DEF Pushed
    <2> QED
      BY <1>1, <2>1, RingGrows, Zenon
  <1>5. LastWord'
    BY <1>2, Zenon DEF LastWord, Pushed
  <1>6. \A k \in InRing : Number(k) \in Nat
    BY <1>1, RingNumbers, Zenon
  <1>7. Ascending'
    <2>1. \A k \in InRing' : k = m \/ (k \in 0 .. m - 1 /\ k \in InRing /\ Number(k)' = Number(k))
      <3>1. \A k \in 0 .. m - 1 : Number(k)' = Number(k)
        BY Zenon DEF Pushed
      <3> QED
        BY <1>4, <3>1, Zenon
    <2>2. Number(m)' = evt_seq + 1
      BY Zenon DEF Pushed
    <2>3. ASSUME NEW k \in InRing' PROVE last_async'[2] < Number(k)' /\ Number(k)' <= evt_seq'
      <3>1. last_async' = last_async /\ evt_seq' = evt_seq + 1 /\ last_async[2] <= evt_seq
        BY <1>2, Zenon DEF OInv, Ascending
      <3>2. CASE k = m
        BY <1>1, <2>2, <3>1, <3>2
      <3>3. CASE k # m
        <4>1. k \in InRing /\ Number(k)' = Number(k)
          BY <2>1, <2>3, <3>3, Zenon
        <4>2. last_async[2] < Number(k) /\ Number(k) <= evt_seq /\ Number(k) \in Nat
          BY <1>6, <4>1, Zenon DEF OInv, Ascending
        <4> QED
          BY <1>1, <3>1, <4>1, <4>2
      <3> QED
        BY <3>2, <3>3, Zenon
    <2>4. ASSUME NEW j \in InRing', NEW k \in InRing', j < k PROVE Number(j)' < Number(k)'
      <3>1. j \in 0 .. m - 1 /\ j \in InRing /\ Number(j)' = Number(j)
        BY <1>4, <2>1, <2>4
      <3> QED
        BY <1>1, <1>6, <2>1, <2>2, <2>4, <3>1 DEF OInv, Ascending
    <2>5. last_async'[2] <= evt_seq'
      BY <1>1, <1>2 DEF OInv, Ascending
    <2> QED
      BY <2>3, <2>4, <2>5, Zenon DEF Ascending
  <1>8. Turns' /\ Running'
    BY <1>2 DEF OInv, Turns, Running, RInv, OneOwner, TypeOK, QueueTypeOK, RawEvt, Pushed
  <1>9. SyncOrder'
    <2>1. ASSUME NEW u \in Threads, pc'[u] \in {"first_lock", "wait_lock"} PROVE u = t
      BY <1>3, <2>1, Zenon
    <2>2. QueueLen' - 1 = m
      BY DEF Pushed
    <2>3. Number(QueueLen - 1)' = evt_seq + 1
      BY <2>2, Zenon DEF Pushed
    <2>4. tseq'[t] = evt_seq + 1 /\ pending_evt' # NR
      BY <1>1, Zenon DEF Pushed
    <2>5. last_sync'[2] <= evt_seq /\ last_sync'[2] \in Nat
      BY <1>1, <1>2, Zenon DEF OInv, SyncOrder
    <2> QED
      BY <1>1, <2>1, <2>3, <2>4, <2>5 DEF SyncOrder, Pushed
  <1>10. Reported'
    <2>1. ASSUME NEW k \in 0 .. m - 1
          PROVE  \/ <<Event(k)', Number(k)'>> \in synced'
                 \/ \E u \in Threads : InSync(u)' /\ tevt'[u] = Event(k)' /\ tseq'[u] = Number(k)'
      <3>1. k \in InRing /\ Number(k)' = Number(k) /\ Event(k)' = Event(k)
        BY <1>4, Zenon DEF Pushed
      <3>2. CASE <<Event(k), Number(k)>> \in synced
        BY <1>2, <3>1, <3>2, Zenon
      <3>3. ASSUME NEW u \in Threads, InSync(u), tevt[u] = Event(k), tseq[u] = Number(k)
            PROVE  InSync(u)' /\ tevt'[u] = Event(k)' /\ tseq'[u] = Number(k)'
        <4>1. u # t
          BY <1>3, <3>3, Zenon DEF InSync
        <4> QED
          BY <1>1, <3>1, <3>3, <4>1, Zenon DEF InSync
      <3> QED
        BY <3>1, <3>2, <3>3, Zenon DEF OInv, Reported
    <2>2. InSync(t)' /\ tevt'[t] = Event(m)' /\ tseq'[t] = Number(m)'
      BY <1>1, Zenon DEF InSync, Pushed
    <2>3. ASSUME NEW k \in InRing'
          PROVE  \/ <<Event(k)', Number(k)'>> \in synced'
                 \/ \E u \in Threads : InSync(u)' /\ tevt'[u] = Event(k)' /\ tseq'[u] = Number(k)'
      BY <1>4, <2>1, <2>2, Zenon
    <2> QED
      BY <2>3, Zenon DEF Reported
  <1> QED
    BY <1>5, <1>7, <1>8, <1>9, <1>10, Zenon DEF OInv

(* hmdfs_queue_raw_node_evt.                                               *)
LEMMA QueueOInv ==
  ASSUME RInv, OInv, NEW t \in Threads, NEW evt \in RawEvt, hmdfs_queue_raw_node_evt(t, evt)
  PROVE  OInv'
  <1>1. CASE Duplicate(evt)
    <2>1. UNCHANGED <<queue, seq_tbl, seq_rd_idx, evt_seq, threads, wpc, cur_evt, cur_evt_seq,
                      synced, last_sync, last_async>> /\ last_raw' = evt
      BY <1>1, Zenon DEF hmdfs_queue_raw_node_evt, Duplicate
    <2>2. LastWord'
      BY <1>1, <2>1, Zenon DEF Duplicate, LastWord, LastQueued,
         hmdfs_node_waiting_evt_sum, queue
    <2>3. QueueLen' = QueueLen /\ InRing' = InRing
      BY <2>1, Zenon DEF QueueLen, InRing, Consumed, hmdfs_node_waiting_evt_sum,
         queue
    <2>4. \A k \in InRing : Number(k)' = Number(k) /\ Event(k)' = Event(k)
      BY <2>1, Zenon DEF Number, Slot, Event, queue
    <2>5. Number(QueueLen - 1)' = Number(QueueLen - 1)
      BY <2>1, <2>3, Zenon DEF Number, Slot
    <2>6. Ascending' /\ Turns' /\ Running'
      BY <2>1, <2>3, <2>4, Zenon DEF OInv, Ascending, Turns, Running, queue
    <2>7. SyncOrder'
      BY <2>1, <2>5, Zenon DEF OInv, SyncOrder, hmdfs_node_waiting_evt_sum,
         queue, threads
    <2>8. Reported'
      BY <2>1, <2>3, <2>4, Zenon DEF OInv, Reported, InSync, threads
    <2> QED
      BY <2>2, <2>6, <2>7, <2>8, Zenon DEF OInv
  <1>2. CASE QueueFirst(t, evt)
    <2>1. PICK m \in 0 .. 3 : Pushed(t, evt, m)
      BY <1>2, PushedFirst
    <2>2. /\ evt_seq' = evt_seq + 1 /\ UNCHANGED last_evt /\ evt_lock' = t
          /\ pc'[t] \in {"first_lock", "wait_lock"}
          /\ tevt' = [tevt EXCEPT ![t] = evt] /\ tseq' = [tseq EXCEPT ![t] = evt_seq + 1]
          /\ \A u \in Threads \ {t} : pc'[u] = pc[u]
          /\ pending_evt = NR /\ evt # last_evt /\ pending_evt' = evt
      BY <1>2, Zenon DEF QueueFirst, PushSeq, GoSync, RInv, TypeOK, ThreadTypeOK
    <2> QED
      BY <2>1, <2>2, PushedOInv, Zenon
  <1>3. CASE hmdfs_update_node_waiting_evt(t, evt)
    <2>1. PICK m \in 0 .. 3 : Pushed(t, evt, m)
      BY <1>3, PushedWaiting, Zenon
    <2>2. /\ evt_seq' = evt_seq + 1 /\ UNCHANGED last_evt /\ evt_lock' = t
          /\ pc'[t] \in {"first_lock", "wait_lock"}
          /\ tevt' = [tevt EXCEPT ![t] = evt] /\ tseq' = [tseq EXCEPT ![t] = evt_seq + 1]
          /\ \A u \in Threads \ {t} : pc'[u] = pc[u]
          /\ pending_evt' = pending_evt
      BY <1>3, Zenon DEF hmdfs_update_node_waiting_evt, PushSeq, GoSync, RInv,
         TypeOK, ThreadTypeOK
    <2> QED
      BY <2>1, <2>2, PushedOInv, Zenon
  <1> QED
    BY <1>1, <1>2, <1>3, Zenon DEF hmdfs_queue_raw_node_evt

(* A step that leaves the queue alone, and what has been called back from  *)
(* it: LastWord, Ascending and Turns are kept.                             *)
QueueKept ==
  /\ UNCHANGED <<queue, seq_rd_idx, seq_tbl, last_async, last_raw>>
  /\ Consumed' <=> Consumed
  /\ evt_seq' \in Nat /\ evt_seq' >= evt_seq

LEMMA KeptOInv ==
  ASSUME RInv, OInv, QueueKept
  PROVE  /\ LastWord' /\ Ascending' /\ Turns'
         /\ QueueLen' = QueueLen /\ InRing' = InRing
         /\ Number(QueueLen - 1)' = Number(QueueLen - 1)
         /\ \A k \in InRing : Number(k)' = Number(k) /\ Event(k)' = Event(k) /\ Number(k) \in Nat
  <1>1. LastWord' /\ Turns'
    BY Zenon DEF QueueKept, OInv, LastWord, Turns, LastQueued,
       hmdfs_node_waiting_evt_sum, queue, Consumed
  <1>2. QueueLen' = QueueLen /\ InRing' = InRing
    BY Zenon DEF QueueKept, QueueLen, InRing, hmdfs_node_waiting_evt_sum, queue
  <1>3. \A k \in InRing : Number(k)' = Number(k) /\ Event(k)' = Event(k)
    BY Zenon DEF QueueKept, Number, Slot, Event, Consumed, queue
  <1>4. Number(QueueLen - 1)' = Number(QueueLen - 1)
    BY <1>2, Zenon DEF QueueKept, Number, Slot
  <1>5. evt_seq \in Nat /\ seq_rd_idx \in 0 .. 255 /\ seq_tbl \in [0 .. 3 -> Nat] /\ QueueLen \in 0 .. 4
        /\ last_async[2] \in Nat
    BY QueueLenBound DEF RInv, TypeOK, QueueTypeOK, HistoryTypeOK, RAW_NODE_EVT_MAX_NR, UCHAR
  <1>6. \A k \in InRing : Number(k) \in Nat
    BY <1>5, SlotFacts DEF InRing, Number, Slot, RAW_NODE_EVT_MAX_NR
  <1>7. Ascending'
    <2>1. \A k \in InRing' : last_async'[2] < Number(k)' /\ Number(k)' <= evt_seq'
      BY <1>2, <1>3, <1>5, <1>6 DEF OInv, Ascending, QueueKept
    <2>2. \A j, k \in InRing' : j < k => Number(j)' < Number(k)'
      BY <1>2, <1>3, Zenon DEF OInv, Ascending
    <2>3. last_async'[2] <= evt_seq'
      BY <1>5 DEF OInv, Ascending, QueueKept
    <2> QED
      BY <2>1, <2>2, <2>3, Zenon DEF Ascending
  <1> QED
    BY <1>1, <1>2, <1>3, <1>4, <1>6, <1>7, Zenon

(* evt_seq advances, a lock is given back or taken again: no thread moves. *)
LEMMA QuietOInv ==
  ASSUME RInv, OInv, QueueKept, UNCHANGED <<threads, synced, last_sync, cur_evt_seq>>,
         cur_evt'[0] = NR \/ (cur_evt' = cur_evt
           /\ (wpc' = wpc \/ wpc' \in {"async", "async_unlocked", "async_relocked"}))
  PROVE  OInv'
  <1>1. /\ evt_seq \in Nat /\ tseq \in [Threads -> Nat] /\ last_sync[2] \in Nat
        /\ evt_seq' \in Nat /\ evt_seq' >= evt_seq
    BY Zenon DEF RInv, TypeOK, QueueTypeOK, ThreadTypeOK, HistoryTypeOK,
       QueueKept
  <1>2. Running'
    BY Zenon DEF OInv, Running, QueueKept, queue
  <1>3. SyncOrder'
    <2>1. last_sync'[2] <= evt_seq'
      BY <1>1 DEF OInv, SyncOrder
    <2>2. ASSUME NEW t \in Threads, pc'[t] \in {"first_lock", "wait_lock"}
          PROVE  /\ last_sync'[2] < tseq'[t] /\ tseq'[t] <= evt_seq'
                 /\ pc'[t] = "wait_lock" =>
                      /\ hmdfs_node_waiting_evt_sum' > 0 /\ pending_evt' # NR
                      /\ tseq'[t] = Number(QueueLen - 1)'
      BY <1>1, <2>2, KeptOInv DEF OInv, SyncOrder, QueueKept, queue, threads,
         hmdfs_node_waiting_evt_sum
    <2> QED
      BY <2>1, <2>2, Zenon DEF SyncOrder
  <1>4. Reported'
    BY KeptOInv, Zenon DEF OInv, Reported, InSync, threads
  <1> QED
    BY <1>2, <1>3, <1>4, KeptOInv, Zenon DEF OInv

(* A thread moves on with its sync callbacks.                              *)
LEMMA SyncOInv ==
  ASSUME RInv, OInv, NEW t \in Threads, StartSync(t) \/ EndSync(t) \/ ScheduleWork(t)
  PROVE  OInv'
  <1>1. /\ evt_seq \in Nat /\ tseq \in [Threads -> Nat] /\ last_sync[2] \in Nat
        /\ pc \in [Threads -> ThreadPc] /\ tevt \in [Threads -> RawEvt \cup {NR}]
        /\ cur_evt \in [0 .. 1 -> RawEvt \cup {NR}] /\ cur_evt_seq \in [0 .. 1 -> Nat]
    BY Zenon DEF RInv, TypeOK, QueueTypeOK, ThreadTypeOK, HistoryTypeOK
  <1>2. QueueKept /\ UNCHANGED <<wpc, tevt, tseq, evt_seq>>
    <2>1. CASE StartSync(t)
      BY <1>1, <2>1 DEF QueueKept, StartSync, Consumed, history
    <2>2. CASE EndSync(t)
      BY <1>1, <2>2 DEF QueueKept, EndSync, Consumed, history
    <2>3. CASE ScheduleWork(t)
      BY <1>1, <2>3 DEF QueueKept, ScheduleWork, Consumed, history
    <2> QED
      BY <2>1, <2>2, <2>3, Zenon
  <1>3. Running'
    <2>1. cur_evt'[0] = cur_evt[0] /\ cur_evt_seq'[0] = cur_evt_seq[0]
      BY <1>1 DEF StartSync, EndSync, ScheduleWork
    <2> QED
      BY <1>2, <2>1, Zenon DEF OInv, Running, QueueKept, queue
  <1>4. SyncOrder'
    <2>1. ASSUME StartSync(t), NEW u \in Threads, pc[u] \in {"first_lock", "wait_lock"} PROVE u = t
      BY <2>1, Zenon DEF StartSync, RInv, Locks
    <2>2. \A u \in Threads : pc'[u] \in {"first_lock", "wait_lock"} => pc'[u] = pc[u] /\ u # t
      BY <1>1, Zenon DEF StartSync, EndSync, ScheduleWork
    <2>3. StartSync(t) => last_sync'[2] = tseq[t] /\ pc[t] \in {"first_lock", "wait_lock"}
      BY DEF StartSync
    <2>4. ~StartSync(t) => last_sync' = last_sync
      BY Zenon DEF EndSync, ScheduleWork, history
    <2>5. last_sync'[2] <= evt_seq'
      BY <1>1, <1>2, <2>3, <2>4, Zenon DEF OInv, SyncOrder
    <2>6. ASSUME NEW u \in Threads, pc'[u] \in {"first_lock", "wait_lock"}
          PROVE  /\ last_sync'[2] < tseq'[u] /\ tseq'[u] <= evt_seq'
                 /\ pc'[u] = "wait_lock" =>
                      /\ hmdfs_node_waiting_evt_sum' > 0 /\ pending_evt' # NR
                      /\ tseq'[u] = Number(QueueLen - 1)'
      <3>1. last_sync' = last_sync /\ pc'[u] = pc[u]
        BY <2>1, <2>2, <2>4, <2>6, Zenon
      <3> QED
        BY <1>2, <2>6, <3>1, KeptOInv, Zenon DEF OInv, SyncOrder, QueueKept,
           queue, hmdfs_node_waiting_evt_sum
    <2> QED
      BY <2>5, <2>6, Zenon DEF SyncOrder
  <1>5. Reported'
    <2>1. \A u \in Threads : InSync(u) => InSync(u)' \/ (EndSync(t) /\ u = t)
      BY <1>1, Zenon DEF StartSync, EndSync, ScheduleWork, InSync
    <2>2. synced \subseteq synced' /\ (EndSync(t) => <<tevt[t], tseq[t]>> \in synced')
      BY Zenon DEF StartSync, EndSync, ScheduleWork, history
    <2> SUFFICES ASSUME NEW k \in InRing
                 PROVE  \/ <<Event(k), Number(k)>> \in synced'
                        \/ \E u \in Threads : InSync(u)' /\ tevt[u] = Event(k) /\ tseq[u] = Number(k)
      BY <1>2, KeptOInv, Zenon DEF Reported
    <2>3. CASE <<Event(k), Number(k)>> \in synced
      BY <2>2, <2>3, Zenon
    <2>4. ASSUME NEW u \in Threads, InSync(u), tevt[u] = Event(k), tseq[u] = Number(k)
          PROVE  InSync(u)' \/ <<Event(k), Number(k)>> \in synced'
      BY <2>1, <2>2, <2>4, Zenon
    <2> QED
      BY <2>3, <2>4, Zenon DEF OInv, Reported
  <1> QED
    BY <1>2, <1>3, <1>4, <1>5, KeptOInv, Zenon DEF OInv

(* When the work starts, the sync callbacks of the event it calls back are *)
(* done: their thread would hold seq_lock, or be the first thread, or wait *)
(* for seq_lock with an event that comes later.                            *)
LEMMA HeadSynced ==
  ASSUME RInv, OInv, StartAsync
  PROVE  /\ QueueLen >= 1 /\ 0 \in InRing /\ Event(0) = pending_evt
         /\ <<pending_evt, Number(0)>> \in synced
  <1>1. /\ wpc = "idle" /\ pending_evt # NR /\ seq_lock = Free /\ QueueLen \in 0 .. 4
        /\ waiting_evt[OFF] \in 0 .. 2 /\ waiting_evt[ON] \in 0 .. 2
    BY QueueLenBound, Zenon DEF StartAsync, RInv, OneOwner, TypeOK, QueueTypeOK,
       RawEvt, RAW_NODE_EVT_MAX_NR
  <1>2. QueueLen = hmdfs_node_waiting_evt_sum + 1 /\ 0 \in InRing /\ QueueLen - 1 \in InRing
    BY <1>1 DEF QueueLen, Consumed, hmdfs_node_waiting_evt_sum, InRing
  <1>3. Event(0) = pending_evt
    BY <1>1 DEF Event
  <1>4. ASSUME NEW t \in Threads, InSync(t) PROVE pc[t] = "wait_lock" /\ tseq[t] # Number(0)
    <2>1. pc[t] \notin {"first_sync", "wait_sync"}
      BY <1>1, ActorAssumption, Zenon DEF RInv, Locks
    <2>2. pc[t] # "first_lock"
      BY Zenon DEF StartAsync, RInv, OneOwner, Starting
    <2>3. pc[t] = "wait_lock"
      BY <1>4, <2>1, <2>2, Zenon DEF InSync
    <2>4. hmdfs_node_waiting_evt_sum > 0 /\ tseq[t] = Number(QueueLen - 1)
      BY <2>3, Zenon DEF OInv, SyncOrder
    <2>5. 0 < QueueLen - 1
      BY <1>1, <1>2, <2>4 DEF hmdfs_node_waiting_evt_sum
    <2>6. Number(0) < Number(QueueLen - 1)
      BY <1>2, <2>5, Zenon DEF OInv, Ascending
    <2>7. Number(0) \in Nat
      BY SlotFacts DEF RInv, TypeOK, QueueTypeOK, Number, Slot, RAW_NODE_EVT_MAX_NR, UCHAR
    <2> QED
      BY <2>3, <2>4, <2>6, <2>7
  <1>5. <<Event(0), Number(0)>> \in synced
    BY <1>2, <1>4, Zenon DEF OInv, Reported
  <1>6. QueueLen >= 1
    BY <1>1, <1>2 DEF hmdfs_node_waiting_evt_sum
  <1> QED
    BY <1>2, <1>3, <1>5, <1>6, Zenon

(* The work takes the head of the ring.                                    *)
LEMMA StartAsyncOInv ==
  ASSUME RInv, OInv, StartAsync
  PROVE  OInv'
  <1> USE DEF RAW_NODE_EVT_MAX_NR, UCHAR
  <1>1. /\ seq_rd_idx \in 0 .. 255 /\ seq_tbl \in [0 .. 3 -> Nat] /\ QueueLen \in 0 .. 4
        /\ evt_seq \in Nat /\ pending_evt # NR /\ wpc = "idle" /\ wpc' = "async"
        /\ last_async[2] \in Nat /\ cur_evt \in [0 .. 1 -> RawEvt \cup {NR}]
        /\ cur_evt_seq \in [0 .. 1 -> Nat]
        /\ waiting_evt[OFF] \in 0 .. 2 /\ waiting_evt[ON] \in 0 .. 2
    BY QueueLenBound DEF RInv, TypeOK, QueueTypeOK, HistoryTypeOK, OneOwner, StartAsync, RawEvt
  <1>2. /\ UNCHANGED <<queue, seq_tbl, evt_seq, threads, synced, last_sync, last_raw>>
        /\ seq_rd_idx' = (seq_rd_idx + 1) % 256
    BY Zenon DEF StartAsync
  <1>3. QueueLen' = QueueLen - 1
    BY <1>1, <1>2 DEF QueueLen, Consumed, hmdfs_node_waiting_evt_sum, queue
  <1>4. ASSUME NEW k \in 0 .. 2 PROVE Number(k)' = Number(k + 1) /\ Number(k) \in Nat
    <2>1. (((seq_rd_idx + 1) % 256) + k) % 4 = (seq_rd_idx + (k + 1)) % 4
      BY <1>1, SlotFacts
    <2>2. (seq_rd_idx + k) % 4 \in 0 .. 3
      BY <1>1, SlotFacts
    <2> QED
      BY <1>1, <1>2, <2>1, <2>2, ZenonT(30) DEF Number, Slot
  <1>5. \A k \in 0 .. 2 : Event(k)' = Event(k + 1)
    BY <1>1, <1>2 DEF Event, queue
  <1>6. last_async' = <<pending_evt, Number(0)>>
    BY <1>1 DEF StartAsync, Number, Slot
  <1>7. /\ \A k \in InRing' : k \in 0 .. 2 /\ k + 1 \in InRing /\ k \in InRing
        /\ 0 \in InRing /\ QueueLen >= 1
    BY <1>1, <1>3, HeadSynced DEF InRing
  <1>8. Number(0) \in Nat
    BY <1>4
  <1>9. Ascending'
    <2>1. \A k \in InRing' : last_async'[2] < Number(k)' /\ Number(k)' <= evt_seq'
      <3> SUFFICES ASSUME NEW k \in InRing'
                   PROVE  last_async'[2] < Number(k)' /\ Number(k)' <= evt_seq'
        BY Zenon
      <3>1. k \in 0 .. 2 /\ k + 1 \in InRing /\ 0 < k + 1 /\ Number(k)' = Number(k + 1)
        BY <1>4, <1>7
      <3> QED
        BY <1>2, <1>6, <1>7, <3>1, Zenon DEF OInv, Ascending
    <2>2. ASSUME NEW j \in InRing', NEW k \in InRing', j < k PROVE Number(j)' < Number(k)'
      <3>1. /\ j \in 0 .. 2 /\ k \in 0 .. 2 /\ j + 1 \in InRing /\ k + 1 \in InRing /\ j + 1 < k + 1
            /\ Number(j)' = Number(j + 1) /\ Number(k)' = Number(k + 1)
        BY <1>4, <1>7, <2>2
      <3> QED
        BY <3>1, Zenon DEF OInv, Ascending
    <2>3. last_async'[2] <= evt_seq'
      BY <1>2, <1>6, <1>7, Zenon DEF OInv, Ascending
    <2> QED
      BY <2>1, <2>2, <2>3, Zenon DEF Ascending
  <1>10. LastWord'
    BY <1>2, Zenon DEF OInv, LastWord, LastQueued, hmdfs_node_waiting_evt_sum,
       queue
  <1>11. Turns' /\ Running'
    BY <1>1, <1>2, <1>6 DEF Turns, Running, StartAsync, Number, Slot, queue
  <1>12. SyncOrder'
    <2>1. ASSUME NEW t \in Threads, pc[t] = "wait_lock" PROVE Number(QueueLen - 1)' = Number(QueueLen - 1)
      <3>1. QueueLen >= 2
        BY <1>1, <2>1 DEF OInv, SyncOrder, QueueLen, Consumed, hmdfs_node_waiting_evt_sum
      <3>2. \A k \in 0 .. 2 : k = QueueLen - 2 => Number(k)' = Number(QueueLen - 1)
        BY <1>1, <1>4
      <3>3. \A k \in 0 .. 2 : k = QueueLen' - 1 => Number(k)' = Number(QueueLen - 1)'
        BY Zenon
      <3> QED
        BY <1>1, <1>3, <3>1, <3>2, <3>3
    <2> QED
      BY <1>2, <2>1, Zenon DEF OInv, SyncOrder, hmdfs_node_waiting_evt_sum,
         queue, threads
  <1>13. Reported'
    <2> SUFFICES ASSUME NEW k \in InRing'
                 PROVE  \/ <<Event(k)', Number(k)'>> \in synced'
                        \/ \E t \in Threads : InSync(t)' /\ tevt'[t] = Event(k)' /\ tseq'[t] = Number(k)'
      BY Zenon DEF Reported
    <2>1. k + 1 \in InRing /\ Number(k)' = Number(k + 1) /\ Event(k)' = Event(k + 1)
      BY <1>4, <1>5, <1>7, Zenon
    <2> QED
      BY <1>2, <2>1, Zenon DEF OInv, Reported, InSync, threads
  <1> QED
    BY <1>9, <1>10, <1>11, <1>12, <1>13, Zenon DEF OInv

(* The work promotes the next waiting event, or leaves the queue empty.    *)
LEMMA FinishOInv ==
  ASSUME RInv, OInv, FinishWork
  PROVE  OInv'
  <1> USE DEF OFF, ON, NR, RAW_NODE_EVT_MAX_NR, UCHAR
  <1>1. /\ pending_evt \in {0, 1} /\ wpc = "finish" /\ wpc' = "idle" /\ evt_lock = Free
        /\ waiting_evt[0] \in 0 .. 2 /\ waiting_evt[1] \in 0 .. 2 /\ Alternating
        /\ waiting_evt \in [{0, 1} -> 0 .. 2]
    BY Zenon DEF RInv, TypeOK, QueueTypeOK, OneOwner, RawEvt, FinishWork
  <1>2. UNCHANGED <<seq_rd_idx, seq_tbl, evt_seq, cur_evt, cur_evt_seq, threads, history>>
    BY Zenon DEF FinishWork
  <1>3. \A t \in Threads : pc[t] \notin {"first_lock", "wait_lock"}
    BY <1>1, ActorAssumption, Zenon DEF RInv, Locks
  <1>4. CASE waiting_evt[0] + waiting_evt[1] > 0
    <2>1. /\ pending_evt' = 1 - pending_evt /\ last_evt' = last_evt
          /\ pending_evt = 0 => waiting_evt'[1] = waiting_evt[1] - 1 /\ waiting_evt'[0] = waiting_evt[0]
          /\ pending_evt = 1 => waiting_evt'[0] = waiting_evt[0] - 1 /\ waiting_evt'[1] = waiting_evt[1]
      BY <1>1, <1>4 DEF FinishWork, hmdfs_node_waiting_evt_sum
    <2>2. waiting_evt'[0] + waiting_evt'[1] = waiting_evt[0] + waiting_evt[1] - 1
      BY <1>1, <2>1
    <2>3. QueueLen' = QueueLen /\ InRing' = InRing
      BY <1>1, <2>1, <2>2 DEF QueueLen, Consumed, hmdfs_node_waiting_evt_sum, InRing
    <2>4. \A k \in InRing : Number(k)' = Number(k)
      BY <1>2, Zenon DEF Number, Slot
    <2>5. \A k \in InRing : Event(k)' = Event(k)
      BY <1>1, <2>1 DEF Event
    <2>6. LastWord'
      <3>1. LastQueued' = LastQueued
        BY <1>1, <2>1, <2>2 DEF LastQueued, hmdfs_node_waiting_evt_sum
      <3> QED
        BY <1>1, <1>2, <2>1, <3>1 DEF OInv, LastWord, history
    <2>7. Ascending'
      BY <1>2, <2>3, <2>4, Zenon DEF OInv, Ascending, history
    <2>8. Turns' /\ Running'
      BY <1>1, <1>2, <2>1 DEF OInv, Turns, Running, history
    <2>9. SyncOrder'
      BY <1>2, <1>3, Zenon DEF OInv, SyncOrder, history, threads
    <2>10. Reported'
      BY <1>2, <2>3, <2>4, <2>5, Zenon DEF OInv, Reported, InSync, history,
         threads
    <2> QED
      BY <2>6, <2>7, <2>8, <2>9, <2>10, Zenon DEF OInv
  <1>5. CASE waiting_evt[0] + waiting_evt[1] = 0
    <2>1. pending_evt' = NR /\ last_evt' = pending_evt
      BY <1>1, <1>5 DEF FinishWork, hmdfs_node_waiting_evt_sum
    <2>2. InRing' = {}
      BY <2>1 DEF QueueLen, InRing
    <2>3. LastWord' /\ Turns' /\ Running'
      BY <1>1, <1>2, <1>5, <2>1 DEF OInv, LastWord, Turns, Running, LastQueued,
         hmdfs_node_waiting_evt_sum, history
    <2>4. Ascending'
      BY <1>2, <2>2, Zenon DEF OInv, Ascending, history
    <2>5. SyncOrder'
      BY <1>2, <1>3, Zenon DEF OInv, SyncOrder, history, threads
    <2>6. Reported'
      BY <2>2, Zenon DEF Reported
    <2> QED
      BY <2>3, <2>4, <2>5, <2>6, Zenon DEF OInv
  <1> QED
    BY <1>1, <1>4, <1>5

(* Every step keeps the order.                                             *)
LEMMA NextOInv == RInv /\ OInv /\ [Next]_vars => OInv'
  <1> SUFFICES ASSUME RInv, OInv, [Next]_vars PROVE OInv'
    BY Zenon
  <1>1. ASSUME NEW t \in Threads, \/ \E evt \in RawEvt : hmdfs_queue_raw_node_evt(t, evt)
                                  \/ StartSync(t) \/ EndSync(t) \/ ScheduleWork(t)
        PROVE  OInv'
    BY <1>1, QueueOInv, SyncOInv, Zenon
  <1>2. CASE StartAsync
    BY <1>2, StartAsyncOInv, Zenon
  <1>3. CASE FinishWork
    BY <1>3, FinishOInv, Zenon
  <1>4. CASE AsyncUnlock \/ AsyncRelock \/ EndAsync \/ hmdfs_node_inc_evt_seq \/ AddPeer
             \/ hmdfs_del_peer \/ UNCHANGED vars
    <2>1. evt_seq \in Nat /\ cur_evt \in [0 .. 1 -> RawEvt \cup {NR}]
      BY Zenon DEF RInv, TypeOK, QueueTypeOK, HistoryTypeOK
    <2>2. QueueKept
      BY <1>4, <2>1 DEF QueueKept, AsyncUnlock, AsyncRelock, EndAsync, hmdfs_node_inc_evt_seq,
         AddPeer, hmdfs_del_peer, vars, history, Consumed
    <2>3. /\ UNCHANGED <<threads, synced, last_sync, cur_evt_seq>>
          /\ cur_evt'[0] = NR \/ (cur_evt' = cur_evt
               /\ (wpc' = wpc \/ wpc' \in {"async", "async_unlocked", "async_relocked"}))
      BY <1>4, <2>1 DEF AsyncUnlock, AsyncRelock, EndAsync, hmdfs_node_inc_evt_seq, AddPeer,
         hmdfs_del_peer, vars, history
    <2> QED
      BY <2>2, <2>3, QuietOInv, Zenon
  <1> QED
    BY <1>1, <1>2, <1>3, <1>4, Zenon DEF Next

(* Reporting starts with an empty queue.                                   *)
LEMMA InitOInv == Init => OInv
  <1> SUFFICES ASSUME Init PROVE OInv
    BY Zenon
  <1>1. InRing = {}
    BY DEF Init, InRing, QueueLen
  <1>2. LastWord /\ Turns /\ Running
    BY DEF Init, LastWord, Turns, Running
  <1>3. Ascending /\ Reported /\ SyncOrder
    BY <1>1 DEF Init, Ascending, Reported, SyncOrder
  <1> QED
    BY <1>2, <1>3, Zenon DEF OInv

(* Duplicates and merges in the queue lose no final state of the peer, for *)
(* any number of threads and reports: once hmdfs_node_evt_work has worked  *)
(* the queue off, the last event it called back is the last one reported   *)
(* (hmdfs_queue_raw_node_evt).                                             *)
THEOREM ReportsKept == Spec => []LastReportWins
  <1>1. OInv => LastReportWins
    BY Zenon DEF OInv, LastWord, LastReportWins
  <1> QED
    BY <1>1, InitRInv, NextRInv, InitOInv, NextOInv, PTL DEF Spec

(* An ON callback that runs for a peer reported off line since is given an *)
(* outdated number, so that hmdfs_is_node_offlined notices, for any number *)
(* of threads and reports.  The numbers in the ring ascend and the events  *)
(* alternate, so after an ON that is being called back there is a later    *)
(* number for every report of OFF.                                         *)
THEOREM StaleNoticed == Spec => []StaleOnlineNoticed
  <1>1. RInv /\ OInv => StaleOnlineNoticed
    <2> SUFFICES ASSUME RInv, OInv, cur_evt[0] = ON, last_raw = OFF PROVE cur_evt_seq[0] # evt_seq
      BY Zenon DEF StaleOnlineNoticed
    <2>1. pending_evt = ON /\ wpc # "idle" /\ cur_evt_seq[0] = last_async[2]
      BY DEF OInv, Running, ON, NR
    <2>2. waiting_evt[OFF] \in 0 .. 2 /\ waiting_evt[ON] \in 0 .. 2 /\ LastQueued = OFF
      BY <2>1 DEF RInv, TypeOK, QueueTypeOK, RawEvt, OInv, LastWord, ON, NR
    <2>3. QueueLen >= 1
      BY <2>1, <2>2 DEF QueueLen, Consumed, LastQueued, hmdfs_node_waiting_evt_sum, ON, OFF, NR
    <2>4. 0 \in InRing
      BY <2>3, QueueLenBound DEF InRing, RInv, RAW_NODE_EVT_MAX_NR
    <2>5. Number(0) \in Nat /\ last_async[2] \in Nat /\ evt_seq \in Nat
      BY SlotFacts DEF RInv, TypeOK, QueueTypeOK, HistoryTypeOK, Number, Slot, RAW_NODE_EVT_MAX_NR,
         UCHAR
    <2> QED
      BY <2>1, <2>4, <2>5 DEF OInv, Ascending
  <1> QED
    BY <1>1, InitRInv, NextRInv, InitOInv, NextOInv, PTL DEF Spec

(* The three orders that the comment in hmdfs_queue_raw_node_evt promises: *)
(* sync callbacks run in the order of the reports and so do async ones, of *)
(* which ON and OFF alternate, and an async callback follows the sync      *)
(* callback of its own event, with that event's number.                    *)
THEOREM CallbackOrder == Spec => CallbacksInOrder
  <1> DEFINE Order ==
        /\ last_sync' # last_sync => last_sync'[2] > last_sync[2]
        /\ last_async' # last_async => /\ last_async'[2] > last_async[2]
                                       /\ last_async'[1] # last_async[1]
                                       /\ last_async' \in synced'
  <1>1. RInv /\ OInv /\ [Next]_vars => [Order]_vars
    <2> SUFFICES ASSUME RInv, OInv, Next PROVE Order
      BY Zenon
    <2>1. CASE UNCHANGED <<last_sync, last_async>>
      BY <2>1, Zenon
    <2>2. ASSUME NEW t \in Threads, StartSync(t) PROVE Order
      <3>1. last_async' = last_async /\ last_sync' = <<tevt[t], tseq[t]>>
            /\ pc[t] \in {"first_lock", "wait_lock"}
        BY <2>2, Zenon DEF StartSync
      <3>2. last_sync[2] < tseq[t] /\ last_sync[2] \in Nat /\ tseq[t] \in Nat
        BY <3>1, Zenon DEF OInv, SyncOrder, RInv, TypeOK, ThreadTypeOK,
           HistoryTypeOK
      <3> QED
        BY <3>1, <3>2, Zenon
    <2>3. CASE StartAsync
      <3>1. /\ last_sync' = last_sync /\ synced' = synced
            /\ last_async' = <<pending_evt, seq_tbl[seq_rd_idx % RAW_NODE_EVT_MAX_NR]>>
        BY <2>3, Zenon DEF StartAsync
      <3>2. Number(0) = seq_tbl[seq_rd_idx % RAW_NODE_EVT_MAX_NR]
        BY DEF Number, Slot, RInv, TypeOK, QueueTypeOK
      <3>3. <<pending_evt, Number(0)>> \in synced /\ last_async[2] < Number(0)
        BY <2>3, HeadSynced, Zenon DEF OInv, Ascending
      <3>4. last_async[1] # pending_evt
        BY <2>3, Zenon DEF StartAsync, OInv, Turns, RInv, OneOwner
      <3>5. Number(0) \in Nat /\ last_async[2] \in Nat
        BY SlotFacts DEF RInv, TypeOK, QueueTypeOK, HistoryTypeOK, Number, Slot,
           RAW_NODE_EVT_MAX_NR, UCHAR
      <3> QED
        BY <3>1, <3>2, <3>3, <3>4, <3>5, Zenon
    <2> QED
      BY <2>1, <2>2, <2>3, Zenon DEF Next, hmdfs_queue_raw_node_evt, EndSync,
         ScheduleWork, AsyncUnlock, AsyncRelock, EndAsync, FinishWork,
         hmdfs_node_inc_evt_seq, AddPeer, hmdfs_del_peer, history
  <1> QED
    BY <1>1, InitRInv, NextRInv, InitOInv, NextOInv, PTL DEF Spec, CallbacksInOrder

=============================================================================
