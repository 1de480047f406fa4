------------------------- MODULE StashFiles_proofs -------------------------
(***************************************************************************)
(* Proofs about the references the stash holds, for any set of inodes and  *)
(* any number of disconnects, lost connections and crashes.                *)
(***************************************************************************)
EXTENDS StashFiles, FiniteSetTheorems, SequenceTheorems, TLAPS

(* The types of what the proof of the references is about.                 *)
Types ==
  /\ inode \in [Inodes -> {"absent", "seen", "counted", "checked", "present"}]
  /\ stash_status \in [Inodes -> {NONE, STASHING, RESTORING}]
  /\ opens \in [Inodes -> Nat] /\ wr_opened_cnt \in [Inodes -> Int] /\ pin \in [Inodes -> Int]
  /\ stashed_inode_list \subseteq Inodes /\ prep \subseteq Inodes /\ todo \subseteq Inodes
  /\ life \in {"added", "deleted"}

(* The list "preparing" belongs to the one thread that holds               *)
(* offline_cb_lock, and is empty when it is released.                      *)
Preparing ==
  /\ dpc = "init" => offline_cb_lock = "sync"
  /\ wpc \in {"stash_init", "stash"} => offline_cb_lock = "work"
  /\ prep # {} => dpc = "init" \/ wpc = "stash_init"
  /\ \A i \in prep : inode[i] = "present" /\ stash_status[i] = NONE

(* An inode that is not yet, or no longer, in memory is in no list.        *)
Absent ==
  \A i \in Inodes : inode[i] # "present" =>
    opens[i] = 0 /\ stash_status[i] = NONE /\ i \notin stashed_inode_list

(* An inode in the list of stashed inodes refuses writes, and as long as   *)
(* the peer exists no other inode is left in that state.                   *)
Tracked == \A i \in stashed_inode_list : stash_status[i] = RESTORING

Restoring ==
  life = "added" => \A i \in Inodes : stash_status[i] = RESTORING => i \in stashed_inode_list

(* What the work is about to release, it holds.                            *)
Working ==
  /\ wpc = "stash" => \A i \in todo : stash_status[i] = STASHING
  /\ wpc \in {"copy", "reset"} => dst \in stashed_inode_list

(* After the DEL callback nothing is left that the stash would release.    *)
Deleted ==
  life = "deleted" =>
    /\ wpc = "idle" /\ dpc = "idle" /\ stashed_inode_list = {}
    /\ \A i \in Inodes : /\ opens[i] = 0 /\ stash_status[i] # STASHING
                         /\ inode[i] \in {"absent", "present"}

(* The counts themselves.                                                  *)
Counts ==
  \A i \in Inodes : /\ pin[i] = One(Stashing(i)) + One(i \in stashed_inode_list)
                    /\ wr_opened_cnt[i] = opens[i] + One(Stashing(i))

PInv ==
  Types /\ Preparing /\ Absent /\ Tracked /\ Restoring /\ Working /\ Deleted /\ Counts

(* PInv is inductive.  The invariant that the runs check needs all of it:  *)
(* that a release finds the reference it drops depends on who may be in    *)
(* which list (Tracked, Preparing, Absent), and that the list "preparing"  *)
(* is not overwritten depends on offline_cb_lock.                          *)
LEMMA PInvStep ==
  ASSUME PInv, [Next]_vars
  PROVE  PInv'
  <1> USE DEF NONE, STASHING, RESTORING, One, Stashing, inodes, lists, work, locks, conn
  <1>1. ASSUME NEW i \in Inodes, Lookup(i) PROVE PInv'
    BY <1>1, Zenon DEF Lookup, PInv, Types, Preparing, Absent, Tracked, Restoring, Working,
       Deleted, Counts
  <1>2. ASSUME NEW i \in Inodes, CountRebuild(i) PROVE PInv'
    BY <1>2, Zenon DEF CountRebuild, PInv, Types, Preparing, Absent, Tracked, Restoring,
       Working, Deleted, Counts
  <1>3. ASSUME NEW i \in Inodes, RecheckRebuild(i) PROVE PInv'
    BY <1>3, ZenonT(30), ZenonT(30) DEF RecheckRebuild, PInv, Types, Preparing,
       Absent, Tracked, Restoring, Working, Deleted, Counts
  <1>4. ASSUME NEW i \in Inodes, hmdfs_stash_rebuild_status(i) PROVE PInv'
    <2>1. CASE Track(i)
      <3>1. Types'
        BY <1>4, <2>1 DEF hmdfs_stash_rebuild_status, Track, PInv, Types
      <3>2. (Preparing /\ Absent /\ Tracked /\ Restoring /\ Working /\ Deleted)'
        BY <1>4, <2>1, ZenonT(30) DEF hmdfs_stash_rebuild_status, Track, PInv,
           Types, Preparing, Absent, Tracked, Restoring, Working, Deleted, Counts
      <3>3. i \notin prep /\ i \notin stashed_inode_list /\ stash_status[i] = NONE
        BY <1>4, Zenon DEF hmdfs_stash_rebuild_status, PInv, Preparing, Absent
      <3>4. Counts'
        <4>1. UNCHANGED <<opens, wr_opened_cnt, prep, wpc, todo, dpc>>
          BY <1>4, Zenon DEF hmdfs_stash_rebuild_status
        <4> QED
          BY <3>3, <2>1, <4>1 DEF Track, PInv, Types, Counts
      <3> QED
        BY <3>1, <3>2, <3>4, Zenon DEF PInv
    <2>2. CASE UNCHANGED <<stash_status, pin, stashed_inode_list>>
      BY <1>4, <2>2, ZenonT(30) DEF hmdfs_stash_rebuild_status, PInv, Types, Preparing,
         Absent, Tracked, Restoring, Working, Deleted, Counts
    <2> QED
      BY <1>4, <2>1, <2>2, Zenon DEF hmdfs_stash_rebuild_status, Untracked
  <1>5. ASSUME NEW i \in Inodes, hmdfs_file_open_remote(i) PROVE PInv'
    BY <1>5 DEF hmdfs_file_open_remote, add_wr_opened,
           PInv, Types, Preparing, Absent, Tracked, Restoring, Working, Deleted, Counts
  <1>6. ASSUME NEW i \in Inodes, hmdfs_file_release_remote(i) PROVE PInv'
    BY <1>6 DEF hmdfs_file_release_remote, del_wr_opened, Held,
           PInv, Types, Preparing, Absent, Tracked, Restoring, Working, Deleted, Counts
  <1>7. ASSUME NEW i \in Inodes, hmdfs_file_write(i) PROVE PInv'
    BY <1>7, Zenon DEF hmdfs_file_write, PInv, Types, Preparing, Absent, Tracked, Restoring,
       Working, Deleted, Counts
  <1>8. ASSUME NEW i \in Inodes, Writeback(i) PROVE PInv'
    BY <1>8, ZenonT(30) DEF Writeback, PInv, Types, Preparing, Absent, Tracked, Restoring,
       Working, Deleted, Counts
  <1>9. ASSUME NEW i \in Inodes, Evict(i) PROVE PInv'
    <2>1. ~Stashing(i) /\ i \notin stashed_inode_list
      BY <1>9 DEF Evict, PInv, Types, Counts
    <2>2. Types' /\ Counts'
      BY <2>1, <1>9, Zenon DEF Evict, PInv, Types, Counts
    <2>3. (Preparing /\ Absent /\ Tracked /\ Restoring /\ Working /\ Deleted)'
      BY <2>1, <1>9, ZenonT(30), ZenonT(30) DEF Evict, PInv, Types, Preparing,
         Absent, Tracked, Restoring, Working, Deleted
    <2> QED
      BY <2>2, <2>3, Zenon DEF PInv
  <1>10. CASE LinkStep
    <2>1. UNCHANGED <<inodes, stashed_inode_list, prep, work, life, dpc, offline_cb_lock>>
      BY <1>10, Zenon DEF LinkStep, peer_online, QueueOn, LinkDies, tcp_recv_thread,
         SenderStops, SenderCounts, LinkBack, HandshakeRequest
    <2> QED
      BY <2>1, ZenonT(30) DEF PInv, Types, Preparing, Absent, Tracked, Restoring, Working,
         Deleted, Counts
  <1>11. CASE hmdfs_disconnect_node
    BY <1>11, Zenon DEF hmdfs_disconnect_node, PInv, Types, Preparing, Absent, Tracked,
       Restoring, Working, Deleted, Counts
  <1>12. CASE DisconnectStatus
    BY <1>12, Zenon DEF DisconnectStatus, PInv, Types, Preparing, Absent, Tracked, Restoring,
       Working, Deleted, Counts
  <1>13. CASE QueueOff
    BY <1>13, Zenon DEF QueueOff, PInv, Types, Preparing, Absent, Tracked, Restoring, Working,
       Deleted, Counts
  <1>14. CASE hmdfs_stash_offline_prepare
    BY <1>14 DEF hmdfs_stash_offline_prepare, hmdfs_stash_fetch_ready_files, add_wr_opened,
           PInv, Types, Preparing, Absent, Tracked, Restoring, Working, Deleted, Counts
  <1>15. CASE PrepareEnd
    BY <1>15, Zenon DEF PrepareEnd, PInv, Types, Preparing, Absent, Tracked, Restoring,
       Working, Deleted, Counts
  <1>16. CASE InitCache
    BY <1>16 DEF InitCache, hmdfs_init_stash_file_cache,
           PInv, Types, Preparing, Absent, Tracked, Restoring, Working, Deleted, Counts
  <1>17. CASE StartWork
    BY <1>17, Zenon DEF StartWork, PInv, Types, Preparing, Absent, Tracked, Restoring,
       Working, Deleted, Counts
  <1>18. CASE StashFetch
    BY <1>18 DEF StashFetch, hmdfs_stash_fetch_ready_files, add_wr_opened,
           PInv, Types, Preparing, Absent, Tracked, Restoring, Working, Deleted, Counts
  <1>19. CASE StashCollect
    BY <1>19, Zenon DEF StashCollect, PInv, Types, Preparing, Absent, Tracked, Restoring,
       Working, Deleted, Counts
  <1>20. ASSUME NEW i \in Inodes, hmdfs_stash_remote_inode(i) PROVE PInv'
    <2>1. stash_status[i] = STASHING /\ i \notin stashed_inode_list /\ i \notin prep
      BY <1>20, Zenon DEF hmdfs_stash_remote_inode, PInv, Types, Preparing, Tracked, Working
    <2>2. CASE Release(i)
      <3>0. (Preparing /\ Absent /\ Tracked /\ Restoring /\ Working /\ Deleted)'
        BY <1>20, <2>2, ZenonT(30) DEF hmdfs_stash_remote_inode, Release, PInv, Types,
           Preparing, Absent, Tracked, Restoring, Working, Deleted
      <3>1. Types'
        BY <2>1, <2>2, <1>20 DEF hmdfs_stash_remote_inode, Release, del_wr_opened, PInv, Types
      <3>2. Counts'
        BY <2>1, <2>2, <1>20 DEF hmdfs_stash_remote_inode, Release, del_wr_opened, PInv, Types,
           Counts
      <3> QED
        BY <3>0, <3>1, <3>2, Zenon DEF PInv
    <2>3. CASE Stashed(i)
      <3>0. (Preparing /\ Absent /\ Tracked /\ Restoring /\ Working /\ Deleted)'
        BY <1>20, <2>3, ZenonT(30) DEF hmdfs_stash_remote_inode, Stashed, PInv, Types,
           Preparing, Absent, Tracked, Restoring, Working, Deleted
      <3>1. Types'
        BY <2>1, <2>3, <1>20 DEF hmdfs_stash_remote_inode, Stashed, del_wr_opened, PInv, Types
      <3>2. Counts'
        BY <2>1, <2>3, <1>20 DEF hmdfs_stash_remote_inode, Stashed, del_wr_opened, PInv, Types,
           Counts
      <3> QED
        BY <3>0, <3>1, <3>2, Zenon DEF PInv
    <2> QED
      BY <2>2, <2>3, <1>20, Zenon DEF hmdfs_stash_remote_inode, StashError
  <1>21. CASE StashEnd
    BY <1>21, Zenon DEF StashEnd, PInv, Types, Preparing, Absent, Tracked, Restoring, Working,
       Deleted, Counts
  <1>22. CASE FinishWork
    BY <1>22, Zenon DEF FinishWork, PInv, Types, Preparing, Absent, Tracked, Restoring,
       Working, Deleted, Counts
  <1>23. ASSUME NEW i \in Inodes, RebuildOpen(i) PROVE PInv'
    <2>1. CASE Track(i) /\ inode[i] = "absent"
      <3>1. Types'
        BY <2>1, <1>23 DEF RebuildOpen, Track, PInv, Types
      <3>3. Counts'
        BY <2>1, <1>23 DEF RebuildOpen, Track, PInv, Types, Preparing, Absent, Counts
      <3>2. (Preparing /\ Absent /\ Tracked /\ Restoring /\ Working /\ Deleted)'
        BY <2>1, <1>23, ZenonT(30) DEF RebuildOpen, Track, PInv, Types,
           Preparing, Absent, Tracked, Restoring, Working, Deleted, Counts
      <3> QED
        BY <3>1, <3>2, <3>3, Zenon DEF PInv
    <2>2. CASE UNCHANGED <<stash_status, pin, stashed_inode_list>>
      <3>1. \A j \in Inodes : inode'[j] = inode[j] \/ (inode'[j] = "present" /\ inode[j] = "absent")
        BY <1>23, ZenonT(30) DEF RebuildOpen, PInv, Types
      <3>2. /\ inode' \in [Inodes -> {"absent", "seen", "counted", "checked", "present"}]
            /\ todo' \subseteq todo /\ wpc = "rebuild" /\ wpc' \in {"rebuild", "rebuild_end"}
            /\ UNCHANGED <<wr_opened_cnt, opens, prep, life, dpc, offline_cb_lock>>
        BY <1>23, ZenonT(30) DEF RebuildOpen, PInv, Types
      <3> QED
        BY <2>2, <3>1, <3>2, ZenonT(30), ZenonT(30) DEF PInv, Types, Preparing,
           Absent, Tracked, Restoring, Working, Deleted, Counts
    <2> QED
      BY <2>1, <2>2, <1>23, Zenon DEF RebuildOpen, Untracked
  <1>24. CASE RebuildDone
    BY <1>24, Zenon DEF RebuildDone, PInv, Types, Preparing, Absent, Tracked, Restoring,
       Working, Deleted, Counts
  <1>25. CASE RebuildWait
    BY <1>25, Zenon DEF RebuildWait, PInv, Types, Preparing, Absent, Tracked, Restoring,
       Working, Deleted, Counts
  <1>26. CASE RestoreStart
    BY <1>26, ZenonT(30) DEF RestoreStart, PInv, Types, Preparing, Absent, Tracked, Restoring,
       Working, Deleted, Counts
  <1>27. ASSUME NEW i \in Inodes, RestoreOpen(i) PROVE PInv'
    <2>1. /\ wpc = "restore" /\ wpc' \in {"unlink", "copy", "reset", "relock"} /\ dst' = i
          /\ wpc' \in {"copy", "reset"} => i \in stashed_inode_list
          /\ UNCHANGED <<inode, stash_status, pin, stashed_inode_list, todo, prep, life, dpc,
                         offline_cb_lock>>
      BY <1>27, Zenon DEF RestoreOpen, RestoreFails
    <2>2. (Preparing /\ Tracked /\ Restoring /\ Working)'
      BY <2>1, Zenon DEF PInv, Types, Preparing, Tracked, Restoring, Working
    <2>3. CASE UNCHANGED <<wr_opened_cnt, opens>>
      BY <2>1, <2>2, <2>3, Zenon DEF PInv, Types, Absent, Deleted, Counts
    <2>4. CASE /\ i \in stashed_inode_list
               /\ opens' = [opens EXCEPT ![i] = @ + 1] /\ wr_opened_cnt' = add_wr_opened({i})
      <3>1. (Types /\ Counts)'
        BY <2>1, <2>4 DEF add_wr_opened, PInv, Types, Counts
      <3>2. (Absent /\ Deleted)'
        BY <2>1, <2>4, Zenon DEF PInv, Types, Absent, Deleted
      <3> QED
        BY <2>2, <3>1, <3>2, Zenon DEF PInv
    <2> QED
      BY <1>27, <2>3, <2>4, Zenon DEF RestoreOpen
  <1>28. CASE hmdfs_restore_src_to_dst
    BY <1>28, Zenon DEF hmdfs_restore_src_to_dst, RestoreFails, PInv, Types, Preparing,
       Absent, Tracked, Restoring, Working, Deleted, Counts
  <1>29. CASE hmdfs_reset_stashed_inode
    BY <1>29 DEF hmdfs_reset_stashed_inode, Untrack,
           PInv, Types, Preparing, Absent, Tracked, Restoring, Working, Deleted, Counts
  <1>30. CASE hmdfs_del_stash_file
    BY <1>30, Zenon DEF hmdfs_del_stash_file, PInv, Types, Preparing, Absent, Tracked,
       Restoring, Working, Deleted, Counts
  <1>31. CASE hmdfs_drop_stashed_inodes
    <2>1. Types'
      BY <1>31 DEF hmdfs_drop_stashed_inodes, Untrack, PInv, Types, Working, Counts
    <2>2. Counts'
      BY <1>31 DEF hmdfs_drop_stashed_inodes, Untrack, PInv, Types, Preparing, Tracked,
             Working, Counts
    <2>3. (Preparing /\ Absent /\ Tracked /\ Restoring /\ Working /\ Deleted)'
      BY <1>31, Zenon DEF hmdfs_drop_stashed_inodes, Untrack, PInv, Types, Preparing, Absent,
         Tracked, Restoring, Working, Deleted, Counts
    <2> QED
      BY <2>1, <2>2, <2>3, Zenon DEF PInv
  <1>32. CASE hmdfs_stash_del_do_cleanup
    <2>1. prep = {}
      BY <1>32, Zenon DEF hmdfs_stash_del_do_cleanup, PInv, Preparing
    <2>2. Types' /\ Deleted'
      BY <2>1, <1>32 DEF hmdfs_stash_del_do_cleanup, PInv, Types, Preparing, Absent,
             Tracked, Restoring, Working, Deleted, Counts
    <2>3. Counts'
      BY <2>1, <1>32 DEF hmdfs_stash_del_do_cleanup, PInv, Types, Preparing, Absent,
             Tracked, Restoring, Working, Deleted, Counts
    <2>4. (Preparing /\ Absent /\ Tracked /\ Restoring /\ Working)'
      BY <2>1, <1>32, Zenon DEF hmdfs_stash_del_do_cleanup, PInv, Types, Preparing, Absent,
         Tracked, Restoring, Working, Deleted, Counts
    <2> QED
      BY <2>2, <2>3, <2>4, Zenon DEF PInv
  <1>33. CASE Boot
    BY <1>33 DEF Boot, Zero,
           PInv, Types, Preparing, Absent, Tracked, Restoring, Working, Deleted, Counts
  <1>35. ASSUME NEW i \in Inodes, RestoreSkip(i) PROVE PInv'
    BY <1>35, Zenon DEF RestoreSkip, PInv, Types, Preparing, Absent, Tracked, Restoring,
       Working, Deleted, Counts
  <1>34. CASE UNCHANGED vars
    BY <1>34, Zenon DEF vars, PInv, Types, Preparing, Absent, Tracked, Restoring, Working,
       Deleted, Counts
  <1> QED
    BY <1>1, <1>2, <1>3, <1>4, <1>5, <1>6, <1>7, <1>8, <1>9, <1>10, <1>11,
       <1>12, <1>13, <1>14, <1>15, <1>16, <1>17, <1>18, <1>19, <1>20, <1>21, <1>22,
       <1>23, <1>24, <1>25, <1>26, <1>27, <1>28, <1>29, <1>30, <1>31, <1>32, <1>33,
       <1>34, <1>35, ZenonT(30), ZenonT(30) DEF Next, FileStep, DisconnectStep,
       WorkStep

-----------------------------------------------------------------------------
(* The data.                                                               *)

(* A stash file holds the version saved last, nobody has more than was     *)
(* written.                                                                *)
Versions ==
  /\ file \in [Inodes -> Nat] /\ srv \in [Inodes -> Nat]
  /\ ver \in [Inodes -> Nat] /\ saved \in [Inodes -> Nat]
  /\ \A i \in Inodes : /\ srv[i] <= ver[i] /\ saved[i] <= ver[i]
                       /\ file[i] = 0 \/ file[i] = saved[i]

(* The events: their numbers are behind evt_seq, and an ON event that is   *)
(* not behind tells the truth about the connection.                        *)
Counted(e) == e.evt = "on" /\ e.seq = evt_seq /\ ~late_on

EventTypes ==
  /\ link \in {"up", "dead", "stop"} /\ evt_seq \in Nat
  /\ evq \in Seq([evt : {"on", "off"}, seq : Nat])
  /\ \A k \in 1 .. Len(evq) : evq[k].seq <= evt_seq

Truthful ==
  \A k \in 1 .. Len(evq) :
    Counted(evq[k]) =>
      /\ dpc # "count"
      /\ spc # "count" /\ status # "shaking" => status = "online" /\ link # "stop"

(* The work handles the event at the head of the queue.                    *)
HeadOn ==
  /\ wpc # "idle" => evq # <<>>
  /\ wpc \in {"rebuild", "rebuild_end", "online", "restore", "copy", "reset", "unlink"}
       => Head(evq).evt = "on"

(* A stash file is known: its inode is tracked, or will be when it comes   *)
(* into memory, or was given up, or the file is about to go.               *)
Known ==
  life = "added" => \A i \in Inodes :
    file[i] # 0 => \/ i \in stashed_inode_list \/ Window(i)
                   \/ need_rebuild_stash_list /\ inode[i] # "present"

(* A stash file the rebuild has passed is known.                           *)
Rebuilding ==
  wpc = "rebuild" =>
    /\ need_rebuild_stash_list
    /\ \A i \in Inodes \ todo : file[i] # 0 => i \in stashed_inode_list \/ i \in given_up

(* The restore walks the stash files there are, but for those given up.    *)
RestoreWalk ==
  wpc \in {"restore", "copy", "reset", "unlink"} =>
    /\ ~need_rebuild_stash_list
    /\ \A i \in todo : file[i] # 0
    /\ \A i \in Inodes \ todo : file[i] # 0 => i \in given_up
    /\ wpc # "restore" => dst \in todo
    /\ wpc \in {"reset", "unlink"} => srv[dst] >= saved[dst] \/ dst \in given_up

(* A stash file holds what was written last, or its inode is exposed.      *)
Newest == \A i \in Inodes : file[i] # 0 /\ i \notin exposed => ver[i] = file[i]

Events == EventTypes /\ Truthful /\ HeadOn

Files == Versions /\ Known /\ Rebuilding /\ RestoreWalk /\ StashNotLost /\ Newest

(* The elements of the queue are events, and its head is the first.        *)
LEMMA EventFacts ==
  ASSUME EventTypes
  PROVE  /\ \A k \in 1 .. Len(evq) : evq[k].seq \in Nat /\ evq[k].evt \in {"on", "off"}
         /\ evq # <<>> => Len(evq) >= 1 /\ Head(evq) = evq[1] /\ 1 \in 1 .. Len(evq)
  <1>1. \A k \in 1 .. Len(evq) : evq[k] \in [evt : {"on", "off"}, seq : Nat]
    BY ElementOfSeq, Zenon DEF EventTypes
  <1>2. evq # <<>> => Len(evq) >= 1 /\ Head(evq) = evq[1]
    BY DEF EventTypes
  <1> QED
    BY <1>1, <1>2

(* A loss that is counted leaves every queued event behind evt_seq.        *)
LEMMA CountedLoss ==
  ASSUME EventTypes, evt_seq' = evt_seq + 1, evq' = evq, link' \in {"up", "dead", "stop"}
  PROVE  EventTypes' /\ Truthful'
  <1>1. \A k \in 1 .. Len(evq) : evq[k].seq \in Nat /\ evq[k].seq <= evt_seq
    BY EventFacts, Zenon DEF EventTypes
  <1>2. \A k \in 1 .. Len(evq) : evq[k].seq <= evt_seq' /\ evq[k].seq # evt_seq'
    BY <1>1 DEF EventTypes
  <1> QED
    BY <1>2 DEF EventTypes, Truthful, Counted

(* What Queue does to the queue, merging or not.                           *)
LEMMA Queued ==
  ASSUME EventTypes, NEW e \in {"on", "off"}, Queue(e)
  PROVE  /\ evq' \in Seq([evt : {"on", "off"}, seq : Nat]) /\ evt_seq' \in Nat
         /\ evq' # <<>> /\ (evq # <<>> => Head(evq') = Head(evq))
         /\ \A k \in 1 .. Len(evq') :
              evq'[k].seq <= evt_seq' /\ (evq'[k].seq = evt_seq' => evq'[k].evt = e)
  <1> DEFINE new == [evt |-> e, seq |-> evt_seq + 1]
  <1>1. new \in [evt : {"on", "off"}, seq : Nat] /\ evt_seq' = evt_seq + 1
    BY DEF Queue, EventTypes
  <1>2. \A k \in 1 .. Len(evq) : evq[k].seq \in Nat /\ evq[k].seq <= evt_seq
    BY EventFacts, Zenon DEF EventTypes
  <1>3. PICK n \in 0 .. Len(evq) :
          /\ evq # <<>> => n >= 1
          /\ evq' = Append(SubSeq(evq, 1, n), new)
    <2>1. CASE e = "off" /\ Len(evq) >= 3
      <3>1. Len(evq) - 2 \in 0 .. Len(evq) /\ Len(evq) - 2 >= 1
        BY <2>1 DEF EventTypes
      <3> QED
        BY <3>1, <2>1, Zenon DEF Queue
    <2>2. CASE ~(e = "off" /\ Len(evq) >= 3)
      <3>1. SubSeq(evq, 1, Len(evq)) = evq
        BY DEF EventTypes
      <3>2. Len(evq) \in 0 .. Len(evq) /\ (evq # <<>> => Len(evq) >= 1)
        BY EventFacts DEF EventTypes
      <3>3. evq' = Append(evq, new)
        BY <2>2, Zenon DEF Queue
      <3> QED
        BY <3>1, <3>2, <3>3, Zenon
    <2> QED
      BY <2>1, <2>2, Zenon
  <1> DEFINE kept == SubSeq(evq, 1, n)
  <1>4. /\ kept \in Seq([evt : {"on", "off"}, seq : Nat]) /\ Len(kept) = n
        /\ \A k \in 1 .. n : kept[k] = evq[k]
    <2>1. n \in Nat /\ \A k \in 1 .. n : k \in 1 .. Len(evq)
      BY <1>3 DEF EventTypes
    <2>2. \A k \in 1 .. n : evq[k] \in [evt : {"on", "off"}, seq : Nat]
      BY <2>1, ElementOfSeq, Zenon DEF EventTypes
    <2> QED
      BY <2>1, <2>2, SubSeqProperties
  <1>5. /\ evq' \in Seq([evt : {"on", "off"}, seq : Nat]) /\ Len(evq') = n + 1
        /\ evq'[n + 1] = new /\ \A k \in 1 .. n : evq'[k] = evq[k]
    <2> HIDE DEF new, kept
    <2> QED
      BY <1>1, <1>3, <1>4 DEF kept
  <1>6. \A k \in 1 .. Len(evq') :
          evq'[k].seq <= evt_seq' /\ (evq'[k].seq = evt_seq' => evq'[k].evt = e)
    BY <1>1, <1>2, <1>3, <1>5 DEF EventTypes
  <1>7. evq' # <<>> /\ (evq # <<>> => Head(evq') = Head(evq))
    BY <1>3, <1>5, EventFacts
  <1> QED
    BY <1>1, <1>5, <1>6, <1>7, Zenon DEF EventTypes

(* A request that fails leaves the events as they are or counts a loss.    *)
LEMMA FailedRequest ==
  ASSUME EventTypes, Truthful, SendFails, UNCHANGED <<evq, late_on, dpc, spc, status>>
  PROVE  EventTypes' /\ Truthful'
  <1>1. CASE status = "online" /\ link = "dead"
    BY <1>1, CountedLoss, Zenon DEF SendFails
  <1>2. CASE ~(status = "online" /\ link = "dead")
    BY <1>2, Zenon DEF SendFails, EventTypes, Truthful, Counted
  <1> QED
    BY <1>1, <1>2, Zenon

(* hmdfs_is_node_offlined misses a lost connection only if the loss is not *)
(* yet counted.                                                            *)
LEMMA MissedLoss ==
  ASSUME EventTypes, Truthful, evq # <<>>, Head(evq).evt = "on", SendFails,
         ~hmdfs_is_node_offlined, ~Connected
  PROVE  Uncounted
  <1>1. Head(evq) = evq[1] /\ 1 \in 1 .. Len(evq)
    BY EventFacts, Zenon
  <1>2. evq[1].seq \in Nat /\ evq[1].seq <= evt_seq /\ evq[1].seq = evt_seq'
    BY <1>1, EventFacts, Zenon DEF EventTypes, hmdfs_is_node_offlined
  <1>3. ~(status = "online" /\ link = "dead") /\ evt_seq' = evt_seq
    BY <1>2 DEF SendFails, EventTypes
  <1>4. SUFFICES ASSUME ~Uncounted PROVE FALSE
    BY Zenon
  <1>5. Counted(evq[1])
    BY <1>1, <1>2, <1>3, <1>4, Zenon DEF Counted, Uncounted
  <1>6. status = "online" /\ link # "stop"
    BY <1>1, <1>4, <1>5, Zenon DEF Truthful, Uncounted
  <1> QED
    BY <1>3, <1>6, Zenon DEF EventTypes, SendFails, Connected

(* An action of the work that leaves the connection and the queue alone.   *)
LEMMA EventsKept ==
  ASSUME Events, UNCHANGED <<link, status, evt_seq, evq, late_on, dpc, spc>>, HeadOn'
  PROVE  Events'
  BY Zenon DEF Events, EventTypes, Truthful, Counted

(* Every action keeps the events truthful: each way to lose a connection   *)
(* either counts it or is one of the three that Uncounted names.           *)
LEMMA EventsStep ==
  ASSUME Events, [Next]_vars
  PROVE  Events'
  <1> USE DEF conn, work, history
  <1>1. CASE \E i \in Inodes : FileStep(i)
    <2>1. UNCHANGED <<link, status, evt_seq, evq, late_on, dpc, spc, wpc>>
      BY <1>1, ZenonT(30), ZenonT(30) DEF FileStep, Lookup, CountRebuild,
         RecheckRebuild, hmdfs_stash_rebuild_status, hmdfs_file_open_remote,
         hmdfs_file_release_remote, hmdfs_file_write, Writeback, Evict
    <2> QED
      BY <2>1, EventsKept, Zenon DEF Events, HeadOn
  <1>2. CASE peer_online
    BY <1>2, Zenon DEF peer_online, Events, EventTypes, Truthful, HeadOn, Counted
  <1>3. CASE QueueOn
    <2>1. CASE last_evt.evt = "on"
      <3>1. UNCHANGED <<link, status, evt_seq, evq, late_on, dpc, spc, wpc>>
        BY <1>3, <2>1, Zenon DEF QueueOn
      <3> QED
        BY <3>1, EventsKept, Zenon DEF Events, HeadOn
    <2>2. CASE last_evt.evt # "on"
      <3>1. /\ Queue("on") /\ late_on' = (~Connected \/ dpc # "idle")
            /\ UNCHANGED <<link, status, dpc, spc, wpc>>
        BY <1>3, <2>2, Zenon DEF QueueOn
      <3>2. EventTypes' /\ HeadOn'
        BY <3>1, Queued, Zenon DEF Events, EventTypes, HeadOn
      <3>3. ~late_on' => Connected /\ dpc = "idle"
        BY <3>1, Zenon
      <3>4. Truthful'
        BY <3>1, <3>3, Zenon DEF Truthful, Counted, Connected
      <3> QED
        BY <3>2, <3>4, Zenon DEF Events
    <2> QED
      BY <2>1, <2>2, Zenon
  <1>4. CASE LinkDies
    BY <1>4, Zenon DEF LinkDies, Events, EventTypes, Truthful, HeadOn, Counted
  <1>5. CASE tcp_recv_thread
    <2>1. EventTypes' /\ Truthful'
      BY <1>5, CountedLoss, Zenon DEF tcp_recv_thread, Events, EventTypes
    <2> QED
      BY <2>1, <1>5, Zenon DEF tcp_recv_thread, Events, HeadOn
  <1>6. CASE SenderStops
    BY <1>6, Zenon DEF SenderStops, Events, EventTypes, Truthful, HeadOn, Counted
  <1>7. CASE SenderCounts
    <2>1. EventTypes' /\ Truthful'
      BY <1>7, CountedLoss, Zenon DEF SenderCounts, Events, EventTypes
    <2> QED
      BY <2>1, <1>7, Zenon DEF SenderCounts, Events, HeadOn
  <1>8. CASE LinkBack
    BY <1>8, Zenon DEF LinkBack, Events, EventTypes, Truthful, HeadOn, Counted
  <1>9. CASE HandshakeRequest
    BY <1>9, Zenon DEF HandshakeRequest, Events, EventTypes, Truthful, HeadOn, Counted
  <1>10. CASE hmdfs_disconnect_node
    <2>1. EventTypes' /\ Truthful'
      BY <1>10, CountedLoss, Zenon DEF hmdfs_disconnect_node, Events, EventTypes
    <2> QED
      BY <2>1, <1>10, Zenon DEF hmdfs_disconnect_node, Events, HeadOn
  <1>11. CASE DisconnectStatus
    BY <1>11, Zenon DEF DisconnectStatus, Events, EventTypes, Truthful, HeadOn, Counted
  <1>12. CASE QueueOff
    <2>1. Queue("off") /\ UNCHANGED <<link, wpc>>
      BY <1>12, Zenon DEF QueueOff
    <2>2. EventTypes' /\ HeadOn'
      BY <2>1, Queued, Zenon DEF Events, EventTypes, HeadOn
    <2>3. Truthful'
      BY <2>1, Queued, Zenon DEF Events, Truthful, Counted
    <2> QED
      BY <2>2, <2>3, Zenon DEF Events
  <1>13. CASE hmdfs_stash_offline_prepare \/ PrepareEnd \/ InitCache
    <2>1. /\ UNCHANGED <<link, status, evt_seq, evq, late_on, spc, wpc>>
          /\ dpc' = dpc \/ dpc' # "count"
      BY <1>13, Zenon DEF hmdfs_stash_offline_prepare, PrepareEnd, InitCache,
         hmdfs_init_stash_file_cache
    <2>2. EventTypes' /\ HeadOn'
      BY <2>1, Zenon DEF Events, EventTypes, HeadOn
    <2>3. Truthful'
      BY <2>1, Zenon DEF Events, Truthful, Counted
    <2> QED
      BY <2>2, <2>3, Zenon DEF Events
  <1>14. CASE StartWork
    <2>1. evq # <<>> /\ Head(evq).evt \in {"on", "off"}
      BY <1>14, EventFacts, Zenon DEF StartWork, Events
    <2> QED
      BY <2>1, <1>14, Zenon DEF StartWork, Events, EventTypes, Truthful, HeadOn, Counted
  <1>15. CASE StashFetch \/ StashCollect \/ StashEnd
    <2>1. UNCHANGED <<link, status, evt_seq, evq, late_on, dpc, spc>>
      BY <1>15, Zenon DEF StashFetch, StashCollect, StashEnd
    <2>2. HeadOn'
      BY <1>15, Zenon DEF StashFetch, StashCollect, StashEnd, Events, HeadOn
    <2> QED
      BY <2>1, <2>2, EventsKept, Zenon
  <1>16. CASE FinishWork
    <2>1. /\ evq # <<>> /\ evq' = Tail(evq) /\ wpc' = "idle"
          /\ UNCHANGED <<conn, dpc, spc, late_on>>
      BY <1>16, Zenon DEF FinishWork, Events, HeadOn
    <2>2. /\ evq' \in Seq([evt : {"on", "off"}, seq : Nat])
          /\ \A k \in 1 .. Len(evq') : evq'[k] = evq[k + 1] /\ k + 1 \in 1 .. Len(evq)
      <3>1. evq \in Seq([evt : {"on", "off"}, seq : Nat])
        BY Zenon DEF Events, EventTypes
      <3> QED
        BY <2>1, <3>1, HeadTailProperties
    <2>3. EventTypes' /\ HeadOn'
      BY <2>1, <2>2, Zenon DEF Events, EventTypes, HeadOn
    <2>4. Truthful'
      BY <2>1, <2>2, Zenon DEF Events, Truthful, Counted
    <2> QED
      BY <2>3, <2>4, Zenon DEF Events
  <1>17. CASE \E i \in Inodes : RebuildOpen(i)
    <2>1. HeadOn' /\ UNCHANGED <<status, evq, late_on, dpc, spc>>
      BY <1>17, Zenon DEF RebuildOpen, Events, HeadOn
    <2>2. CASE UNCHANGED <<link, evt_seq>>
      BY <2>1, <2>2, EventsKept, Zenon
    <2>3. CASE SendFails
      BY <2>1, <2>3, FailedRequest, Zenon DEF Events
    <2> QED
      BY <2>2, <2>3, <1>17, Zenon DEF RebuildOpen, Shutdown, OtherError
  <1>18. CASE \E i \in Inodes : RestoreOpen(i)
    <2>1. HeadOn' /\ UNCHANGED <<status, evq, late_on, dpc, spc>>
      BY <1>18, ZenonT(30) DEF RestoreOpen, RestoreFails, Events, HeadOn
    <2>2. CASE UNCHANGED <<link, evt_seq>>
      BY <2>1, <2>2, EventsKept, Zenon
    <2>3. CASE SendFails
      BY <2>1, <2>3, FailedRequest, Zenon DEF Events
    <2> QED
      BY <2>2, <2>3, <1>18, Zenon DEF RestoreOpen, RestoreFails, Shutdown, OtherError
  <1>19. CASE hmdfs_restore_src_to_dst
    <2>1. HeadOn' /\ UNCHANGED <<status, evq, late_on, dpc, spc>>
      BY <1>19, ZenonT(30), ZenonT(30) DEF hmdfs_restore_src_to_dst,
         RestoreFails, Events, HeadOn
    <2>2. CASE UNCHANGED <<link, evt_seq>>
      BY <2>1, <2>2, EventsKept, Zenon
    <2>3. CASE SendFails
      BY <2>1, <2>3, FailedRequest, Zenon DEF Events
    <2> QED
      BY <2>2, <2>3, <1>19, Zenon DEF hmdfs_restore_src_to_dst, RestoreFails, Shutdown,
         OtherError
  <1>20. CASE \E i \in Inodes : hmdfs_stash_remote_inode(i)
    <2>1. UNCHANGED <<link, status, evt_seq, evq, late_on, dpc, spc>>
      BY <1>20, Zenon DEF hmdfs_stash_remote_inode
    <2>2. HeadOn'
      BY <1>20, Zenon DEF hmdfs_stash_remote_inode, Events, HeadOn
    <2> QED
      BY <2>1, <2>2, EventsKept, Zenon
  <1>21. CASE RebuildDone \/ RebuildWait \/ RestoreStart
    <2>1. UNCHANGED <<link, status, evt_seq, evq, late_on, dpc, spc>>
      BY <1>21, Zenon DEF RebuildDone, RebuildWait, RestoreStart
    <2>2. HeadOn'
      BY <1>21, Zenon DEF RebuildDone, RebuildWait, RestoreStart, Events, HeadOn
    <2> QED
      BY <2>1, <2>2, EventsKept, Zenon
  <1>22. CASE hmdfs_reset_stashed_inode \/ hmdfs_del_stash_file \/ hmdfs_drop_stashed_inodes
    <2>1. UNCHANGED <<link, status, evt_seq, evq, late_on, dpc, spc>>
      BY <1>22, Zenon DEF hmdfs_reset_stashed_inode, hmdfs_del_stash_file,
         hmdfs_drop_stashed_inodes
    <2>2. HeadOn'
      BY <1>22, Zenon DEF hmdfs_reset_stashed_inode, hmdfs_del_stash_file,
         hmdfs_drop_stashed_inodes, Events, HeadOn
    <2> QED
      BY <2>1, <2>2, EventsKept, Zenon
  <1>23. CASE hmdfs_stash_del_do_cleanup
    BY <1>23, Zenon DEF hmdfs_stash_del_do_cleanup, Events, EventTypes, Truthful, HeadOn,
       Counted
  <1>24. CASE Boot
    <2>1. evq' = <<>> /\ evt_seq' = 0 /\ wpc' = "idle" /\ link' = "stop"
      BY <1>24, Zenon DEF Boot
    <2>2. EventTypes'
      BY <2>1 DEF EventTypes
    <2>3. Truthful' /\ HeadOn'
      BY <2>1 DEF Truthful, HeadOn
    <2> QED
      BY <2>2, <2>3, Zenon DEF Events
  <1>26. CASE \E i \in Inodes : RestoreSkip(i)
    <2>1. UNCHANGED <<link, status, evt_seq, evq, late_on, dpc, spc, wpc>>
      BY <1>26, Zenon DEF RestoreSkip
    <2> QED
      BY <2>1, EventsKept, Zenon DEF Events, HeadOn
  <1>25. CASE UNCHANGED vars
    BY <1>25, Zenon DEF vars, Events, EventTypes, Truthful, HeadOn, Counted
  <1> QED
    BY <1>1, <1>2, <1>3, <1>4, <1>5, <1>6, <1>7, <1>8, <1>9, <1>10, <1>11,
       <1>12, <1>13, <1>14, <1>15, <1>16, <1>17, <1>18, <1>19, <1>20, <1>21, <1>22,
       <1>23, <1>24, <1>25, <1>26, ZenonT(30), ZenonT(30) DEF Next, LinkStep,
       DisconnectStep, WorkStep

(* An action that leaves alone the files and who is to restore them.       *)
LEMMA FilesKept ==
  ASSUME Files, Rebuilding', RestoreWalk', \A i \in Inodes : Window(i)' <=> Window(i),
         UNCHANGED <<file, srv, ver, saved, inode, stashed_inode_list,
                     need_rebuild_stash_list, life, given_up, exposed>>
  PROVE  Files'
  BY Zenon DEF Files, Versions, Known, StashNotLost, Newest

(* Every action keeps the files: Known and Rebuilding carry a stash file   *)
(* over a reboot into the list of its inode, RestoreWalk carries the       *)
(* outcome of a restore to the deletion of the file, and Newest says that  *)
(* what is restored is what was written last.                              *)
LEMMA FilesStep ==
  ASSUME PInv, Events, Files, [Next]_vars
  PROVE  Files'
  <1> USE DEF NONE, STASHING, RESTORING, disk, inodes, lists, work, history
  <1>1. ASSUME NEW i \in Inodes, Lookup(i) PROVE Files'
    BY <1>1, ZenonT(30), ZenonT(30) DEF Lookup, PInv, Types, Absent, Tracked,
       Deleted, Files, Versions, Known, Rebuilding, RestoreWalk, StashNotLost,
       Newest, Window
  <1>2. ASSUME NEW i \in Inodes, CountRebuild(i) PROVE Files'
    BY <1>2, Zenon DEF CountRebuild, PInv, Types, Absent, Tracked, Deleted, Files, Versions,
       Known, Rebuilding, RestoreWalk, StashNotLost, Newest, Window
  <1>3. ASSUME NEW i \in Inodes, RecheckRebuild(i) PROVE Files'
    BY <1>3, ZenonT(30), ZenonT(30) DEF RecheckRebuild, PInv, Types, Absent,
       Tracked, Deleted, Files, Versions, Known, Rebuilding, RestoreWalk,
       StashNotLost, Newest, Window
  <1>4. ASSUME NEW i \in Inodes, hmdfs_stash_rebuild_status(i) PROVE Files'
    <2>1. UNCHANGED <<disk, ver, saved, exposed, life, need_rebuild_stash_list, work>>
      BY <1>4, Zenon DEF hmdfs_stash_rebuild_status
    <2>2. /\ \A j \in Inodes : inode'[j] = IF j = i THEN "present" ELSE inode[j]
          /\ stashed_inode_list \subseteq stashed_inode_list' /\ given_up \subseteq given_up'
          /\ file[i] # 0 => i \in stashed_inode_list' \/ i \in given_up'
      BY <1>4, ZenonT(30) DEF hmdfs_stash_rebuild_status, Track, Untracked, PInv, Types
    <2>3. (Versions /\ Rebuilding /\ RestoreWalk /\ StashNotLost /\ Newest)'
      BY <2>1, <2>2, Zenon DEF Files, Versions, Rebuilding, RestoreWalk, StashNotLost, Newest
    <2>4. Known'
      BY <2>1, <2>2, Zenon DEF Files, Known, Window
    <2> QED
      BY <2>3, <2>4, Zenon DEF Files
  <1>5. ASSUME NEW i \in Inodes, hmdfs_file_open_remote(i) \/ hmdfs_file_release_remote(i)
        PROVE  Files'
    <2>1. UNCHANGED work /\ UNCHANGED <<file, srv, ver, saved, inode, stashed_inode_list,
                                     need_rebuild_stash_list, life, given_up, exposed>>
      BY <1>5, Zenon DEF hmdfs_file_open_remote, hmdfs_file_release_remote
    <2> QED
      BY <2>1, FilesKept, Zenon DEF Files, Rebuilding, RestoreWalk, Window
  <1>6. ASSUME NEW i \in Inodes, hmdfs_file_write(i) PROVE Files'
    <2>1. opens[i] > 0
      <3>1. opens[i] \in Nat /\ opens[i] > Held(i)
        BY <1>6, Zenon DEF hmdfs_file_write, PInv, Types
      <3>2. Held(i) \in {0, 1}
        BY Zenon DEF Held, One
      <3> QED
        BY <3>1, <3>2
    <2>2. inode[i] = "present" /\ life # "deleted"
      BY <2>1 DEF PInv, Types, Absent, Deleted
    <2>3. i \notin stashed_inode_list
      BY <2>2, <1>6, Zenon DEF hmdfs_file_write, PInv, Types, Tracked
    <2>4. PICK v \in Nat : v > ver[i] /\ ver' = [ver EXCEPT ![i] = v]
      <3>1. PICK v \in 1 .. MaxVer : NewVersion(v) /\ ver' = [ver EXCEPT ![i] = v]
        BY <1>6, Zenon DEF hmdfs_file_write
      <3>2. v \in Nat /\ ver[i] < v
        BY <3>1, MaxVerAssumption DEF NewVersion
      <3> QED
        BY <3>1, <3>2, Zenon DEF Files, Versions
    <2>5. Versions'
      <3>1. UNCHANGED <<file, srv, saved>>
        BY <1>6, Zenon DEF hmdfs_file_write
      <3>2. ver' \in [Inodes -> Nat] /\ \A j \in Inodes : ver[j] <= ver'[j]
        BY <2>4 DEF Files, Versions
      <3> QED
        BY <3>1, <3>2 DEF Files, Versions
    <2>6. (Known /\ Rebuilding /\ RestoreWalk /\ StashNotLost)'
      BY <1>6, Zenon DEF hmdfs_file_write, Files, Versions, Known, Rebuilding, RestoreWalk,
         StashNotLost, Window
    <2>7. file[i] # 0 => i \in exposed'
      BY <2>2, <2>3, <1>6, Zenon DEF hmdfs_file_write, PInv, Types, Files, Known
    <2>8. exposed \subseteq exposed' /\ file' = file /\ \A j \in Inodes : j # i => ver'[j] = ver[j]
      BY <2>4, <1>6, Zenon DEF hmdfs_file_write, Files, Versions
    <2>9. Newest'
      BY <2>7, <2>8, Zenon DEF Files, Newest
    <2> QED
      BY <2>5, <2>6, <2>9, Zenon DEF Files
  <1>7. ASSUME NEW i \in Inodes, Writeback(i) PROVE Files'
    <2>1. UNCHANGED <<file, ver, saved>> /\ (UNCHANGED srv \/ srv' = [srv EXCEPT ![i] = ver[i]])
      BY <1>7, Zenon DEF Writeback
    <2>2. Versions'
      BY <2>1 DEF Files, Versions
    <2>3. (Known /\ Rebuilding /\ Newest)'
      BY <2>1, <1>7, Zenon DEF Writeback, Files, Versions, Known, Rebuilding, RestoreWalk,
         StashNotLost, Newest, Window
    <2>4. \A j \in Inodes : srv[j] >= saved[j] => (srv[j] >= saved[j])'
      BY <2>1, Zenon DEF Files, Versions
    <2>5. UNCHANGED <<work, todo, dst, wpc, need_rebuild_stash_list, given_up>>
      BY <1>7, Zenon DEF Writeback, work, lists, history
    <2>6. StashNotLost'
      BY <2>1, <2>4, <2>5, Zenon DEF Files, StashNotLost
    <2>7. RestoreWalk'
      BY <2>1, <2>4, <2>5, ZenonT(30) DEF Files, RestoreWalk, PInv, Types
    <2> QED
      BY <2>2, <2>3, <2>6, <2>7, Zenon DEF Files
  <1>8. ASSUME NEW i \in Inodes, Evict(i) PROVE Files'
    <2>1. i \notin stashed_inode_list
      <3>1. 0 = One(Stashing(i)) + One(i \in stashed_inode_list)
        BY <1>8, Zenon DEF Evict, PInv, Counts
      <3>2. One(Stashing(i)) \in {0, 1}
        BY Zenon DEF One
      <3>3. i \in stashed_inode_list => One(i \in stashed_inode_list) = 1
        BY Zenon DEF One
      <3> QED
        BY <3>1, <3>2, <3>3
    <2>2. UNCHANGED <<file, srv, ver, saved, stashed_inode_list, need_rebuild_stash_list, life,
                      given_up, exposed, work>>
      BY <1>8, Zenon DEF Evict
    <2>3. inode[i] = "present" /\ \A j \in Inodes : j # i => inode'[j] = inode[j]
      BY <1>8, Zenon DEF Evict, PInv, Types
    <2>4. inode'[i] = "absent"
      BY <1>8, Zenon DEF Evict, PInv, Types
    <2>5. (Versions /\ Rebuilding /\ RestoreWalk /\ StashNotLost /\ Newest)'
      BY <2>2, Zenon DEF Files, Versions, Rebuilding, RestoreWalk, StashNotLost, Newest
    <2>6. Known'
      BY <2>2, <2>3, <2>4, Zenon DEF Files, Known, Window
    <2> QED
      BY <2>5, <2>6, Zenon DEF Files
  <1>9. CASE LinkStep
    <2>1. UNCHANGED work /\ UNCHANGED <<file, srv, ver, saved, inode, stashed_inode_list,
                                     need_rebuild_stash_list, life, given_up, exposed>>
      BY <1>9, Zenon DEF LinkStep, peer_online, QueueOn, LinkDies, tcp_recv_thread,
         SenderStops, SenderCounts, LinkBack, HandshakeRequest
    <2> QED
      BY <2>1, FilesKept, Zenon DEF Files, Rebuilding, RestoreWalk, Window
  <1>10. CASE hmdfs_disconnect_node \/ DisconnectStep
    <2>1. UNCHANGED work /\ UNCHANGED <<file, srv, ver, saved, inode, stashed_inode_list,
                                     need_rebuild_stash_list, life, given_up, exposed>>
      BY <1>10, Zenon DEF hmdfs_disconnect_node, DisconnectStep, DisconnectStatus, QueueOff,
         hmdfs_stash_offline_prepare, PrepareEnd
    <2> QED
      BY <2>1, FilesKept, Zenon DEF Files, Rebuilding, RestoreWalk, Window
  <1>11. CASE InitCache
    <2>1. UNCHANGED work /\ UNCHANGED <<file, srv, ver, saved, inode, stashed_inode_list,
                                     need_rebuild_stash_list, life, given_up, exposed>>
      BY <1>11, Zenon DEF InitCache, hmdfs_init_stash_file_cache
    <2> QED
      BY <2>1, FilesKept, Zenon DEF Files, Rebuilding, RestoreWalk, Window
  <1>12. CASE StartWork
    <2>1. UNCHANGED <<file, srv, ver, saved, inode, stashed_inode_list,
                      need_rebuild_stash_list, life, given_up, exposed>>
      BY <1>12, Zenon DEF StartWork
    <2>2. (Rebuilding /\ RestoreWalk)' /\ \A j \in Inodes : Window(j)' <=> Window(j)
      BY <1>12, Zenon DEF StartWork, Files, Rebuilding, RestoreWalk, Window
    <2> QED
      BY <2>1, <2>2, FilesKept, Zenon
  <1>13. CASE StashFetch \/ StashCollect
    <2>1. UNCHANGED <<file, srv, ver, saved, inode, stashed_inode_list,
                      need_rebuild_stash_list, life, given_up, exposed>>
      BY <1>13, Zenon DEF StashFetch, StashCollect
    <2>2. (Rebuilding /\ RestoreWalk)' /\ \A j \in Inodes : Window(j)' <=> Window(j)
      BY <1>13, Zenon DEF StashFetch, StashCollect, Files, Rebuilding, RestoreWalk, Window
    <2> QED
      BY <2>1, <2>2, FilesKept, Zenon
  <1>14. ASSUME NEW i \in Inodes, hmdfs_stash_remote_inode(i) PROVE Files'
    <2>1. /\ i \notin stashed_inode_list /\ wpc = "stash" /\ wpc' = "stash" /\ life = "added"
          /\ inode[i] = "present"
      BY <1>14, Zenon DEF hmdfs_stash_remote_inode, PInv, Types, Absent, Tracked, Deleted,
         Working
    <2>2. UNCHANGED <<srv, ver, inode, need_rebuild_stash_list, life>>
      BY <1>14, Zenon DEF hmdfs_stash_remote_inode
    <2>3. (Rebuilding /\ RestoreWalk)'
      BY <2>1, Zenon DEF Rebuilding, RestoreWalk
    <2>4. CASE Release(i) /\ file' \in {file, [file EXCEPT ![i] = 0]}
      <3>1. /\ UNCHANGED <<saved, stashed_inode_list, given_up, exposed>>
            /\ file' \in {file, [file EXCEPT ![i] = 0]}
        BY <2>4, Zenon DEF Release
      <3>2. file[i] # 0 => i \in given_up
        BY <2>1, Zenon DEF Files, Known, Window
      <3>3. Versions'
        BY <2>2, <3>1 DEF Files, Versions
      <3>4. \A j \in Inodes : file'[j] = file[j] \/ (file'[j] = 0 /\ j = i)
        BY <3>1, Zenon DEF Files, Versions
      <3>5. (Known /\ Newest)'
        BY <2>1, <2>2, <3>1, <3>4, Zenon DEF Files, Known, Newest, Window
      <3>6. StashNotLost'
        BY <2>2, <3>1, <3>2, <3>4, Zenon DEF Files, StashNotLost
      <3> QED
        BY <2>3, <3>3, <3>5, <3>6, Zenon DEF Files
    <2>5. CASE Stashed(i)
      <3>1. /\ file' = [file EXCEPT ![i] = ver[i]] /\ saved' = [saved EXCEPT ![i] = ver[i]]
            /\ stashed_inode_list' = stashed_inode_list \cup {i}
            /\ given_up' = given_up \ {i} /\ exposed' = exposed \ {i}
        BY <2>5, Zenon DEF Stashed
      <3>2. Versions'
        BY <2>2, <3>1 DEF Files, Versions
      <3>3. (Known /\ Newest)'
        BY <2>1, <2>2, <3>1, ZenonT(30) DEF Files, Versions, Known, Newest, Window
      <3>4. StashNotLost'
        BY <2>2, <3>1, ZenonT(30) DEF Files, Versions, StashNotLost
      <3> QED
        BY <2>3, <3>2, <3>3, <3>4, Zenon DEF Files
    <2> QED
      BY <2>4, <2>5, <1>14, Zenon DEF hmdfs_stash_remote_inode, StashError
  <1>15. CASE StashEnd \/ FinishWork
    <2>1. UNCHANGED <<file, srv, ver, saved, inode, stashed_inode_list,
                      need_rebuild_stash_list, life, given_up, exposed>>
      BY <1>15, Zenon DEF StashEnd, FinishWork
    <2>2. (Rebuilding /\ RestoreWalk)' /\ \A j \in Inodes : Window(j)' <=> Window(j)
      BY <1>15, Zenon DEF StashEnd, FinishWork, Files, Rebuilding, RestoreWalk, Window
    <2> QED
      BY <2>1, <2>2, FilesKept, Zenon
  <1>16. ASSUME NEW i \in Inodes, RebuildOpen(i) PROVE Files'
    <2>0. /\ OtherError(i) => i \in given_up' /\ given_up \subseteq given_up'
          /\ Shutdown => UNCHANGED given_up
      BY <1>16, MissedLoss, Zenon DEF OtherError, Shutdown, RebuildOpen, Events, HeadOn
    <2>1. /\ wpc = "rebuild" /\ life = "added" /\ need_rebuild_stash_list
          /\ UNCHANGED <<disk, ver, saved, exposed, need_rebuild_stash_list, life>>
          /\ stashed_inode_list \subseteq stashed_inode_list' /\ given_up \subseteq given_up'
          /\ \A j \in Inodes : j # i => inode'[j] = inode[j]
      BY <2>0, <1>16, ZenonT(30) DEF RebuildOpen, Track, Untracked, PInv, Types, Deleted,
         Files, Rebuilding
    <2>2. CASE /\ Shutdown /\ wpc' = "rebuild_end"
               /\ UNCHANGED <<inode, stashed_inode_list>>
      BY <2>1, <2>2, Zenon DEF Shutdown, Files, Versions, Known, Rebuilding, RestoreWalk,
         StashNotLost, Newest, Window
    <2>3. CASE /\ todo' = todo \ {i} /\ UNCHANGED wpc
               /\ file[i] # 0 => i \in stashed_inode_list' \/ i \in given_up'
      <3>1. Rebuilding'
        BY <2>1, <2>3, Zenon DEF Files, Rebuilding
      <3>2. Known'
        BY <2>1, <2>3, Zenon DEF Files, Known, Window
      <3> QED
        BY <2>1, <2>3, <3>1, <3>2, Zenon DEF Files, Versions, RestoreWalk, StashNotLost,
           Newest
    <2>4. inode[i] = "present" /\ file[i] # 0 => i \in stashed_inode_list \/ i \in given_up
      BY <2>1, Zenon DEF Files, Known, Window
    <2> QED
      BY <2>0, <2>1, <2>2, <2>3, <2>4, <1>16, ZenonT(30), ZenonT(30) DEF
         RebuildOpen, Track, Untracked
  <1>17. CASE RebuildDone
    BY <1>17, Zenon DEF RebuildDone, PInv, Types, Absent, Tracked, Deleted, Files, Versions,
       Known, Rebuilding, RestoreWalk, StashNotLost, Newest, Window
  <1>18. CASE RebuildWait \/ RestoreStart
    <2>1. UNCHANGED <<file, srv, ver, saved, inode, stashed_inode_list,
                      need_rebuild_stash_list, life, given_up, exposed>>
      BY <1>18, Zenon DEF RebuildWait, RestoreStart
    <2>2. Rebuilding' /\ \A j \in Inodes : Window(j)' <=> Window(j)
      BY <1>18, Zenon DEF RebuildWait, RestoreStart, Files, Rebuilding, Window
    <2>3. RestoreWalk'
      BY <1>18, Zenon DEF RebuildWait, RestoreStart, Files, RestoreWalk
    <2> QED
      BY <2>1, <2>2, <2>3, FilesKept, Zenon
  <1>19. ASSUME NEW i \in Inodes, RestoreOpen(i) PROVE Files'
    <2>0. /\ OtherError(i) => i \in given_up' /\ given_up \subseteq given_up'
          /\ Shutdown => UNCHANGED given_up
      BY <1>19, MissedLoss, Zenon DEF OtherError, Shutdown, RestoreOpen, Events, HeadOn
    <2>1. RestoreFails(i) => wpc' = "relock" \/ (wpc' = "reset" /\ i \in given_up')
      BY <2>0, Zenon DEF RestoreFails
    <2>2. i \notin stashed_inode_list => i \in given_up /\ given_up' = given_up
      BY <1>19, Zenon DEF RestoreOpen, PInv, Types, Absent, Tracked, Deleted, Files, Known,
         RestoreWalk, Window
    <2>3. given_up \subseteq given_up'
      BY <2>0, <1>19, Zenon DEF RestoreOpen, RestoreFails
    <2>4. RestoreWalk'
      BY <2>1, <2>2, <2>3, <1>19, ZenonT(30) DEF RestoreOpen, Files, RestoreWalk
    <2>5. (Versions /\ Known /\ Rebuilding /\ StashNotLost /\ Newest)'
      BY <2>1, <2>3, <1>19, Zenon DEF RestoreOpen, PInv, Types, Absent, Tracked, Deleted,
         Files, Versions, Known, Rebuilding, RestoreWalk, StashNotLost, Newest, Window
    <2> QED
      BY <2>4, <2>5, Zenon DEF Files
  <1>20. CASE hmdfs_restore_src_to_dst
    <2>0. /\ OtherError(dst) => dst \in given_up' /\ given_up \subseteq given_up'
          /\ Shutdown => UNCHANGED given_up
      BY <1>20, MissedLoss, Zenon DEF OtherError, Shutdown, hmdfs_restore_src_to_dst, Events,
         HeadOn
    <2>1. RestoreFails(dst) => wpc' = "relock" \/ (wpc' = "reset" /\ dst \in given_up')
      BY <2>0, Zenon DEF RestoreFails
    <2>2. dst \in Inodes /\ file[dst] = saved[dst] /\ given_up \subseteq given_up'
      BY <2>0, <1>20, Zenon DEF hmdfs_restore_src_to_dst, RestoreFails, PInv, Types, Files,
         Versions, RestoreWalk
    <2>3. /\ UNCHANGED <<file, ver, saved>>
          /\ UNCHANGED srv \/ srv' = [srv EXCEPT ![dst] = saved[dst]]
      BY <2>2, <1>20, Zenon DEF hmdfs_restore_src_to_dst
    <2>4. Versions' /\ StashNotLost'
      BY <2>2, <2>3, Zenon DEF Files, Versions, StashNotLost
    <2>5. RestoreWalk'
      <3>1. wpc' = "reset" => srv'[dst] >= saved'[dst] \/ dst \in given_up'
        <4>1. CASE srv' = [srv EXCEPT ![dst] = saved[dst]]
          BY <2>2, <2>3, <4>1 DEF Files, Versions
        <4>2. CASE RestoreFails(dst)
          BY <2>1, <4>2, Zenon
        <4> QED
          BY <2>2, <4>1, <4>2, <1>20, Zenon DEF hmdfs_restore_src_to_dst
      <3>2. wpc' \in {"reset", "relock"}
        BY <2>1, <1>20, Zenon DEF hmdfs_restore_src_to_dst
      <3> QED
        BY <2>2, <3>1, <3>2, <1>20, Zenon DEF hmdfs_restore_src_to_dst, Files, RestoreWalk
    <2>6. (Known /\ Rebuilding /\ Newest)'
      BY <2>1, <2>2, <1>20, Zenon DEF hmdfs_restore_src_to_dst, Files, Versions, Known,
         Rebuilding, RestoreWalk, StashNotLost, Newest, Window
    <2> QED
      BY <2>4, <2>5, <2>6, Zenon DEF Files
  <1>21. CASE hmdfs_reset_stashed_inode
    BY <1>21, Zenon DEF hmdfs_reset_stashed_inode, Untrack, PInv, Types, Absent, Tracked,
       Deleted, Files, Versions, Known, Rebuilding, RestoreWalk, StashNotLost, Newest, Window
  <1>22. CASE hmdfs_del_stash_file
    BY <1>22, ZenonT(30) DEF hmdfs_del_stash_file, PInv, Types, Absent, Tracked, Deleted,
       Files, Versions, Known, Rebuilding, RestoreWalk, StashNotLost, Newest, Window
  <1>23. CASE hmdfs_drop_stashed_inodes
    BY <1>23, Zenon DEF hmdfs_drop_stashed_inodes, Untrack, PInv, Types, Absent, Tracked,
       Deleted, Files, Versions, Known, Rebuilding, RestoreWalk, StashNotLost, Newest, Window
  <1>24. CASE hmdfs_stash_del_do_cleanup
    BY <1>24, Zenon DEF hmdfs_stash_del_do_cleanup, PInv, Types, Absent, Tracked, Deleted,
       Files, Versions, Known, Rebuilding, RestoreWalk, StashNotLost, Newest, Window
  <1>25. CASE Boot
    BY <1>25, Zenon DEF Boot, Files, Versions, Known, Rebuilding, RestoreWalk, StashNotLost,
       Newest, Window
  <1>27. ASSUME NEW i \in Inodes, RestoreSkip(i) PROVE Files'
    BY <1>27, ZenonT(30) DEF RestoreSkip, PInv, Types, Files, Versions, Known, Rebuilding,
       RestoreWalk, StashNotLost, Newest, Window
  <1>26. CASE UNCHANGED vars
    BY <1>26, ZenonT(30) DEF vars, PInv, Types, Absent, Tracked, Deleted, Files, Versions,
       Known, Rebuilding, RestoreWalk, StashNotLost, Newest, Window
  <1> QED
    BY <1>1, <1>2, <1>3, <1>4, <1>5, <1>6, <1>7, <1>8, <1>9, <1>10, <1>11,
       <1>12, <1>13, <1>14, <1>15, <1>16, <1>17, <1>18, <1>19, <1>20, <1>21, <1>22,
       <1>23, <1>24, <1>25, <1>26, <1>27, ZenonT(30), ZenonT(30) DEF Next,
       FileStep, WorkStep

-----------------------------------------------------------------------------
(* The inductive invariant.                                                *)
SInv == PInv /\ Events /\ Files

(* A peer just allocated (alloc_peer) satisfies the invariant.             *)
LEMMA SInvInit ==
  ASSUME Init
  PROVE  SInv
  <1>1. Types
    <2>1. /\ inode = [i \in Inodes |-> "absent"] /\ stash_status = [i \in Inodes |-> NONE]
          /\ opens = Zero /\ wr_opened_cnt = Zero /\ pin = Zero
          /\ stashed_inode_list = {} /\ prep = {} /\ todo = {} /\ life = "added"
      BY Zenon DEF Init
    <2> QED
      BY <2>1 DEF Zero, NONE, STASHING, RESTORING, Types
  <1>2. Counts
    <2>1. \A i \in Inodes : ~Stashing(i) /\ i \notin stashed_inode_list
      BY Zenon DEF Init, Zero, NONE, STASHING, Stashing
    <2>2. \A i \in Inodes : pin[i] = 0 /\ wr_opened_cnt[i] = 0 /\ opens[i] = 0
      BY Zenon DEF Init, Zero
    <2> SUFFICES ASSUME NEW i \in Inodes
                 PROVE  /\ pin[i] = One(Stashing(i)) + One(i \in stashed_inode_list)
                        /\ wr_opened_cnt[i] = opens[i] + One(Stashing(i))
      BY Zenon DEF Counts
    <2>3. One(Stashing(i)) = 0 /\ One(i \in stashed_inode_list) = 0
      BY <2>1, Zenon DEF One
    <2>4. 0 = 0 + 0
      OBVIOUS
    <2> QED
      BY <2>2, <2>3, <2>4, Zenon
  <1>3. Preparing /\ Absent /\ Tracked /\ Restoring /\ Working /\ Deleted
    BY Zenon DEF Init, Zero, NONE, STASHING, RESTORING, Preparing, Absent, Tracked, Restoring,
       Working, Deleted
  <1>4. Events
    <2>1. evq = <<>> /\ evt_seq = 0 /\ wpc = "idle" /\ link = "stop"
      BY Zenon DEF Init
    <2>2. EventTypes
      BY <2>1 DEF EventTypes
    <2>3. Truthful /\ HeadOn
      BY <2>1 DEF Truthful, HeadOn
    <2> QED
      BY <2>2, <2>3, Zenon DEF Events
  <1>5. Versions
    <2>1. file = Zero /\ srv = Zero /\ ver = Zero /\ saved = Zero
      BY Zenon DEF Init
    <2> QED
      BY <2>1 DEF Zero, Versions
  <1>6. Known /\ Rebuilding /\ RestoreWalk /\ StashNotLost /\ Newest
    BY Zenon DEF Init, Zero, Known, Rebuilding, RestoreWalk, StashNotLost, Newest
  <1> QED
    BY <1>1, <1>2, <1>3, <1>4, <1>5, <1>6, Zenon DEF SInv, PInv, Files

(* The three lemmas together.                                              *)
LEMMA SInvInvariant == Spec => []SInv
  <1>1. Init => SInv
    BY SInvInit, Zenon
  <1>2. SInv /\ [Next]_vars => SInv'
    BY PInvStep, EventsStep, FilesStep, Zenon DEF SInv
  <1> QED
    BY <1>1, <1>2, PTL DEF Spec

(* The references and counts of the stash are exact: ihold and             *)
(* hmdfs_remote_add_wr_opened_inode_nolock are undone on every path, for   *)
(* any set of inodes and any number of losses and restarts.                *)
THEOREM PinsSafe == Spec => []PinsExact
  <1>1. SInv => PinsExact
    <2> SUFFICES ASSUME SInv, NEW i \in Inodes
                 PROVE  /\ pin[i] = One(Stashing(i)) + One(i \in stashed_inode_list)
                        /\ wr_opened_cnt[i] = opens[i] + One(Stashing(i))
                        /\ life = "deleted" => pin[i] = 0 /\ wr_opened_cnt[i] = 0
      BY Zenon DEF PinsExact
    <2>1. /\ pin[i] = One(Stashing(i)) + One(i \in stashed_inode_list)
          /\ wr_opened_cnt[i] = opens[i] + One(Stashing(i))
      BY Zenon DEF SInv, PInv, Counts
    <2>2. ASSUME life = "deleted"
          PROVE  pin[i] = 0 /\ wr_opened_cnt[i] = 0
      <3>1. ~Stashing(i) /\ i \notin stashed_inode_list /\ opens[i] = 0
        BY <2>2, Zenon DEF SInv, PInv, Preparing, Deleted, Stashing
      <3>2. One(Stashing(i)) = 0 /\ One(i \in stashed_inode_list) = 0
        BY <3>1, Zenon DEF One
      <3>3. pin[i] = 0 + 0 /\ wr_opened_cnt[i] = 0 + 0
        BY <2>1, <3>1, <3>2, Zenon
      <3>4. 0 + 0 = 0
        OBVIOUS
      <3> QED
        BY <3>3, <3>4, Zenon
    <2> QED
      BY <2>1, <2>2, Zenon
  <1> QED
    BY <1>1, SInvInvariant, PTL

(* An inode that refuses writes because it is to be restored is in the     *)
(* list hmdfs_stash_online_do_restore walks, so that none stays unwritable *)
(* for good: for any set of inodes and any number of losses and restarts.  *)
THEOREM RestoringKnown == Spec => []RestoringTracked
  <1>1. SInv => RestoringTracked
    BY Zenon DEF SInv, PInv, Types, Absent, Tracked, Restoring, RestoringTracked, NONE,
       STASHING, RESTORING
  <1> QED
    BY <1>1, SInvInvariant, PTL

(* What was stashed is lost only to an error hmdfs_is_node_offlined does   *)
(* not put down to the loss of the peer (hmdfs_restore_files,              *)
(* hmdfs_rebuild_stash_list), and of the ways to lose a connection only    *)
(* those that are counted late lead there: for any set of inodes and any   *)
(* number of losses, errors and restarts.                                  *)
THEOREM StashSafe == Spec => []StashNotLost
  <1>1. SInv => StashNotLost
    BY Zenon DEF SInv, Files
  <1> QED
    BY <1>1, SInvInvariant, PTL

(* While a stash file exists its inode is not writable                     *)
(* (hmdfs_rebuild_stash_list and hmdfs_file_write_iter_remote), but while  *)
(* hmdfs_del_stash_file is due and after its rebuild or restore was given  *)
(* up: for any set of inodes and any number of losses, errors and          *)
(* restarts.                                                               *)
THEOREM WritesWait == Spec => []WritableHasNoStash
  <1>1. SInv => WritableHasNoStash
    BY Zenon DEF SInv, PInv, Types, Tracked, Files, Known, WritableHasNoStash, NONE, RESTORING
  <1> QED
    BY <1>1, SInvInvariant, PTL

(* hmdfs_restore_src_to_dst never overwrites newer data of the peer, but   *)
(* what was written while a stash file was left behind: between            *)
(* hmdfs_reset_stashed_inode and hmdfs_del_stash_file, or after the inode  *)
(* was given up.                                                           *)
THEOREM RestoreNeverOlder == Spec => NeverOlder
  <1> DEFINE Forward == \A i \in Inodes : srv'[i] >= srv[i] \/ i \in exposed
  <1>1. SInv /\ [Next]_vars => [Forward]_vars
    <2> SUFFICES ASSUME SInv, Next PROVE Forward
      BY Zenon
    <2>1. srv \in [Inodes -> Nat]
      BY Zenon DEF SInv, Files, Versions
    <2>2. CASE UNCHANGED srv
      BY <2>1, <2>2
    <2>3. ASSUME NEW i \in Inodes, Writeback(i) PROVE Forward
      <3>1. UNCHANGED srv \/ srv' = [srv EXCEPT ![i] = ver[i]]
        BY <2>3, Zenon DEF Writeback
      <3>2. ver[i] \in Nat /\ srv[i] <= ver[i]
        BY Zenon DEF SInv, Files, Versions
      <3> QED
        BY <2>1, <3>1, <3>2
    <2>4. CASE hmdfs_restore_src_to_dst
      <3>1. dst \in stashed_inode_list /\ dst \in Inodes /\ file[dst] # 0
        BY <2>4, Zenon DEF hmdfs_restore_src_to_dst, SInv, PInv, Types, Working, Files,
           RestoreWalk
      <3>2. dst \in exposed \/ file[dst] = ver[dst]
        BY <3>1, Zenon DEF SInv, Files, Newest
      <3>3. srv' = srv \/ srv' = [srv EXCEPT ![dst] = file[dst]]
        BY <2>4, Zenon DEF hmdfs_restore_src_to_dst
      <3>4. srv[dst] <= ver[dst] /\ ver[dst] \in Nat
        BY <3>1, Zenon DEF SInv, Files, Versions
      <3>5. srv'[dst] >= srv[dst] \/ dst \in exposed
        BY <2>1, <3>1, <3>2, <3>3, <3>4
      <3>6. \A j \in Inodes : j # dst => srv'[j] = srv[j]
        BY <2>1, <3>3, Zenon
      <3> QED
        BY <2>1, <3>5, <3>6
    <2>5. UNCHANGED srv \/ (\E i \in Inodes : Writeback(i)) \/ hmdfs_restore_src_to_dst
      <3> USE DEF disk
      <3>1. ASSUME NEW i \in Inodes, FileStep(i) PROVE UNCHANGED srv \/ Writeback(i)
        BY <3>1, Zenon DEF FileStep, Lookup, CountRebuild, RecheckRebuild,
           hmdfs_stash_rebuild_status, hmdfs_file_open_remote, hmdfs_file_release_remote,
           hmdfs_file_write, Evict
      <3>2. LinkStep => UNCHANGED srv
        BY Zenon DEF LinkStep, peer_online, QueueOn, LinkDies, tcp_recv_thread, SenderStops,
           SenderCounts, LinkBack, HandshakeRequest
      <3>3. hmdfs_disconnect_node \/ DisconnectStep \/ InitCache => UNCHANGED srv
        BY Zenon DEF hmdfs_disconnect_node, DisconnectStep, DisconnectStatus, QueueOff,
           hmdfs_stash_offline_prepare, PrepareEnd, InitCache, hmdfs_init_stash_file_cache
      <3>4. WorkStep => UNCHANGED srv \/ hmdfs_restore_src_to_dst
        BY Zenon DEF WorkStep, StartWork, StashFetch, StashCollect, StashEnd, FinishWork,
           hmdfs_stash_remote_inode, RebuildOpen, RestoreOpen, RestoreSkip, RebuildDone,
           RebuildWait, RestoreStart, hmdfs_reset_stashed_inode, hmdfs_del_stash_file,
           hmdfs_drop_stashed_inodes
      <3>5. hmdfs_stash_del_do_cleanup \/ Boot => UNCHANGED srv
        BY Zenon DEF hmdfs_stash_del_do_cleanup, Boot
      <3> QED
        BY <3>1, <3>2, <3>3, <3>4, <3>5, Zenon DEF Next
    <2> QED
      BY <2>2, <2>3, <2>4, <2>5, Zenon
  <1> QED
    BY <1>1, SInvInvariant, PTL DEF Spec, NeverOlder

-----------------------------------------------------------------------------
(* The inodes that hmdfs_remote_init_stash_status has counted in           *)
(* rebuild_inode_status_nr.                                                *)
Counting == {i \in Inodes : inode[i] \in {"counted", "checked"}}

(* The counter is exact, and once need_rebuild_stash_list is cleared and   *)
(* the counter awaited nobody is left that has seen the flag set.          *)
RInv ==
  /\ IsFiniteSet(Counting) /\ rebuild_inode_status_nr = Cardinality(Counting)
  /\ ~need_rebuild_stash_list /\ wpc \notin {"rebuild", "rebuild_end"}
       => \A i \in Inodes : inode[i] # "checked"
  /\ wpc \in {"restore", "copy", "reset", "unlink"} => ~need_rebuild_stash_list

(* A step that counts no inode and shows none of them the flag.            *)
LEMMA NotCounting ==
  ASSUME RInv, Counting' = Counting,
         \A i \in Inodes : inode'[i] = "checked" => inode[i] = "checked",
         UNCHANGED <<rebuild_inode_status_nr, need_rebuild_stash_list>>,
         wpc' \in {"rebuild", "rebuild_end"} \/ wpc \notin {"rebuild", "rebuild_end"},
         wpc' \in {"restore", "copy", "reset", "unlink"}
           => wpc \in {"restore", "copy", "reset", "unlink"} \/ ~need_rebuild_stash_list
  PROVE  RInv'
  BY Zenon DEF RInv

(* An inode is looked up, and waits for the rebuild or is done with it.    *)
LEMMA CountingStep ==
  ASSUME Types, RInv, NEW i \in Inodes, FileStep(i)
  PROVE  RInv'
  <1>1. CASE UNCHANGED <<inode, lists, work>>
    BY <1>1, NotCounting, Zenon DEF lists, work, Counting
  <1>2. CASE Lookup(i) \/ Evict(i)
    <2>1. /\ inode[i] \in {"absent", "present"}
          /\ \E x \in {"absent", "seen", "present"} : inode' = [inode EXCEPT ![i] = x]
          /\ UNCHANGED <<lists, work>>
      BY <1>2, Zenon DEF Lookup, Evict, Types, disk, inodes
    <2>2. Counting' = Counting /\ \A q \in Inodes : inode'[q] = "checked" => inode[q] = "checked"
      BY <2>1, Zenon DEF Counting, Types
    <2> QED
      BY <2>1, <2>2, NotCounting, Zenon DEF lists, work
  <1>3. CASE CountRebuild(i)
    <2>1. Counting' = Counting \cup {i} /\ i \notin Counting
      BY <1>3, Zenon DEF Counting, CountRebuild, Types
    <2>2. IsFiniteSet(Counting') /\ Cardinality(Counting') = Cardinality(Counting) + 1
      BY <2>1, FS_AddElement, Zenon DEF RInv
    <2>3. \A q \in Inodes : inode'[q] = "checked" => inode[q] = "checked"
      BY <1>3, Zenon DEF CountRebuild, Types
    <2> QED
      BY <1>3, <2>2, <2>3, Zenon DEF RInv, CountRebuild, work
  <1>4. CASE RecheckRebuild(i) /\ need_rebuild_stash_list
    <2>1. Counting' = Counting
      BY <1>4, Zenon DEF Counting, RecheckRebuild, Types
    <2> QED
      BY <1>4, <2>1, Zenon DEF RInv, RecheckRebuild, work
  <1>5. CASE \/ RecheckRebuild(i) /\ ~need_rebuild_stash_list
             \/ hmdfs_stash_rebuild_status(i)
    <2>1. /\ inode' = [inode EXCEPT ![i] = "present"] /\ inode[i] \in {"counted", "checked"}
          /\ rebuild_inode_status_nr' = rebuild_inode_status_nr - 1
          /\ UNCHANGED <<need_rebuild_stash_list, wpc>>
      BY <1>5, Zenon DEF RecheckRebuild, hmdfs_stash_rebuild_status, work
    <2>2. Counting' = Counting \ {i} /\ i \in Counting
      BY <2>1, Zenon DEF Counting, Types
    <2>3. IsFiniteSet(Counting') /\ Cardinality(Counting') = Cardinality(Counting) - 1
      BY <2>2, FS_RemoveElement, Zenon DEF RInv
    <2>4. \A q \in Inodes : inode'[q] = "checked" => inode[q] = "checked"
      BY <2>1, Zenon DEF Types
    <2> QED
      BY <2>1, <2>3, <2>4, Zenon DEF RInv
  <1> QED
    BY <1>1, <1>2, <1>3, <1>4, <1>5, Zenon DEF FileStep, hmdfs_file_open_remote,
       hmdfs_file_release_remote, hmdfs_file_write, Writeback, disk, inodes, lists, work

(* RInv is inductive.                                                      *)
LEMMA RInvStep ==
  ASSUME Types, RInv, [Next]_vars
  PROVE  RInv'
  <1>1. CASE \E i \in Inodes : FileStep(i)
    BY <1>1, CountingStep, Zenon
  <1>2. CASE \/ LinkStep \/ hmdfs_disconnect_node \/ DisconnectStep \/ InitCache
             \/ hmdfs_stash_del_do_cleanup \/ UNCHANGED vars
    <2>1. UNCHANGED <<inode, rebuild_inode_status_nr, need_rebuild_stash_list, wpc>>
      BY <1>2, Zenon DEF LinkStep, peer_online, QueueOn, LinkDies, tcp_recv_thread,
         SenderStops, SenderCounts, LinkBack, HandshakeRequest, hmdfs_disconnect_node,
         DisconnectStep, DisconnectStatus, QueueOff, hmdfs_stash_offline_prepare, PrepareEnd,
         InitCache, hmdfs_init_stash_file_cache, hmdfs_stash_del_do_cleanup, vars, inodes,
         lists, work
    <2>2. Counting' = Counting
      BY <2>1, Zenon DEF Counting
    <2> QED
      BY <2>1, <2>2, NotCounting, Zenon
  <1>3. CASE StartWork \/ StashFetch \/ StashCollect \/ StashEnd \/ FinishWork
             \/ \E i \in Inodes : hmdfs_stash_remote_inode(i)
    <2>1. /\ UNCHANGED <<inode, rebuild_inode_status_nr, need_rebuild_stash_list>>
          /\ wpc \notin {"rebuild", "rebuild_end"}
          /\ wpc' \notin {"restore", "copy", "reset", "unlink"}
      BY <1>3, Zenon DEF StartWork, StashFetch, StashCollect, StashEnd, FinishWork,
         hmdfs_stash_remote_inode, inodes, lists
    <2>2. Counting' = Counting
      BY <2>1, Zenon DEF Counting
    <2> QED
      BY <2>1, <2>2, NotCounting, Zenon
  <1>4. ASSUME NEW i \in Inodes, RebuildOpen(i) PROVE RInv'
    <2>1. /\ UNCHANGED <<rebuild_inode_status_nr, need_rebuild_stash_list>>
          /\ wpc' \in {"rebuild", "rebuild_end"}
          /\ inode[i] \in {"absent", "present"}
          /\ UNCHANGED inode \/ inode' = [inode EXCEPT ![i] = "present"]
      BY <1>4, Zenon DEF RebuildOpen
    <2>2. Counting' = Counting /\ \A q \in Inodes : inode'[q] = "checked" => inode[q] = "checked"
      BY <2>1, Zenon DEF Counting, Types
    <2> QED
      BY <2>1, <2>2, NotCounting, Zenon
  <1>5. CASE RebuildDone
    <2>1. Counting' = Counting
      BY <1>5, Zenon DEF Counting, RebuildDone, inodes
    <2> QED
      BY <1>5, <2>1, Zenon DEF RebuildDone, RInv
  <1>6. CASE RebuildWait
    <2>1. /\ UNCHANGED <<inode, rebuild_inode_status_nr, need_rebuild_stash_list>>
          /\ wpc' = "online"
      BY <1>6, Zenon DEF RebuildWait, inodes, lists
    <2>2. Counting' = Counting
      BY <2>1, Zenon DEF Counting
    <2>3. need_rebuild_stash_list \/ Counting = {}
      BY <1>6, FS_EmptySet, Zenon DEF RebuildWait, RInv
    <2>4. ~need_rebuild_stash_list => \A i \in Inodes : inode[i] # "checked"
      BY <2>3, Zenon DEF Counting
    <2> QED
      BY <2>1, <2>2, <2>4, Zenon DEF RInv
  <1>7. CASE \/ RestoreStart \/ hmdfs_restore_src_to_dst \/ hmdfs_reset_stashed_inode
             \/ hmdfs_del_stash_file \/ hmdfs_drop_stashed_inodes
             \/ \E i \in Inodes : RestoreOpen(i) \/ RestoreSkip(i)
    <2>1. /\ UNCHANGED <<inode, rebuild_inode_status_nr, need_rebuild_stash_list>>
          /\ wpc \notin {"rebuild", "rebuild_end"}
          /\ wpc' \in {"restore", "copy", "reset", "unlink"}
               => wpc \in {"restore", "copy", "reset", "unlink"} \/ ~need_rebuild_stash_list
      BY <1>7, Zenon DEF RestoreStart, hmdfs_restore_src_to_dst, hmdfs_reset_stashed_inode,
         hmdfs_del_stash_file, hmdfs_drop_stashed_inodes, RestoreOpen, RestoreSkip, inodes,
         lists
    <2>2. Counting' = Counting
      BY <2>1, Zenon DEF Counting
    <2> QED
      BY <2>1, <2>2, NotCounting, Zenon
  <1>8. CASE Boot
    <2>1. Counting' = {} /\ \A i \in Inodes : inode'[i] # "checked"
      BY <1>8, Zenon DEF Counting, Boot
    <2> QED
      BY <1>8, <2>1, FS_EmptySet, Zenon DEF Boot, RInv
  <1> QED
    BY <1>1, <1>2, <1>3, <1>4, <1>5, <1>6, <1>7, <1>8, ZenonT(30) DEF Next, WorkStep

(* While hmdfs_restore_files walks the list of stashed inodes without its  *)
(* lock, no inode that is being created adds itself to it: the work has    *)
(* waited for rebuild_inode_status_nr, which counts exactly the inodes     *)
(* that may still do so, for any number of lookups, rebuilds and crashes.  *)
THEOREM RestoresAlone == Spec => []RestoreAlone
  <1>1. Init => RInv
    <2> SUFFICES ASSUME Init PROVE RInv
      BY Zenon
    <2>1. Counting = {}
      BY Zenon DEF Counting, Init
    <2> QED
      BY <2>1, FS_EmptySet, Zenon DEF Init, RInv
  <1>2. SInv /\ RInv /\ [Next]_vars => RInv'
    BY RInvStep, Zenon DEF SInv, PInv
  <1>3. RInv => RestoreAlone
    BY Zenon DEF RInv, RestoreAlone
  <1> QED
    BY <1>1, <1>2, <1>3, SInvInvariant, PTL DEF Spec

=============================================================================
