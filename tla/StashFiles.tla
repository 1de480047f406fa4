----------------------------- MODULE StashFiles -----------------------------
(***************************************************************************)
(* The stash of one peer (hmdfs/stash.c): what was written to remote       *)
(* files and not yet sent when the peer goes off line is kept in one local *)
(* file per inode, survives a reboot, and is sent when the peer is back.   *)
(*                                                                         *)
(* Three actors: the thread that disconnects the peer, which prepares the  *)
(* inodes (the synchronous OFFLINE callback); the work evt_dwork, which    *)
(* stashes, rebuilds the list of stashed inodes after a reboot and         *)
(* restores (the asynchronous callbacks); and any thread that looks up,    *)
(* opens, writes or closes a file.  The pages of one inode are in module   *)
(* Writepage and the event queue in NodeEvents: here an inode's data is a  *)
(* version number and the queue is a sequence.                             *)
(***************************************************************************)
EXTENDS Integers, Sequences

CONSTANTS Inodes,
          MaxVer,     \* bound on the versions written, over all inodes
          MaxOff,     \* bound on disconnects
          MaxBreak,   \* bound on connections lost or shaken
          MaxOpen,    \* bound on the files open at once, per inode
          MaxBoot,    \* bound on crashes and remounts
          MaxFault    \* bound on all three together

ASSUME MaxVerAssumption == MaxVer \in Nat

NONE == "none"              \* HMDFS_REMOTE_INODE_NONE
STASHING == "stashing"
RESTORING == "restoring"

VARIABLES
  \* on disk, of this device and of the peer
  file,                     \* version in the linked stash file, 0 if there is none
  srv,                      \* version the peer's file holds
  \* struct hmdfs_inode_info
  inode,                    \* "absent", being created, "present"
  stash_status,
  wr_opened_cnt, opens,     \* the counter, and the files open for write
  pin,                      \* references the stash holds (ihold)
  ver,                      \* version written last
  data,                     \* where it is: "clean", "dirty", or "cached" in the stash file
  \* struct hmdfs_peer
  stashed_inode_list,
  need_rebuild_stash_list, rebuild_inode_status_nr,
  status, evt_seq, seq_lock, offline_cb_lock,
  link,                     \* its connection: "up", "dead" (not noticed), "stop"
  evq, last_evt,            \* events for the asynchronous callbacks; the one queued last
  life,                     \* "added" or "deleted"
  \* threads
  dpc, opc, spc,            \* hmdfs_disconnect_node, peer_online, a sending thread
  prep,                     \* the list "preparing" of hmdfs_stash_fetch_ready_files
  wpc, todo, dst,           \* the work: step, inodes left, inode being restored
  noff, nbreak, nboot,      \* counters of the bounds
  \* history
  saved,                    \* version linked last
  late_on,                  \* the ON event got its number after the loss was counted
  given_up,                 \* inodes whose rebuild or restore met an error (OtherError)
  exposed                   \* inodes written since, with that stash file still there

disk    == <<file, srv>>
inodes  == <<inode, stash_status, wr_opened_cnt, opens, pin, ver, data>>
lists   == <<stashed_inode_list, need_rebuild_stash_list, rebuild_inode_status_nr>>
conn    == <<status, evt_seq, link>>
locks   == <<seq_lock, offline_cb_lock>>
work    == <<wpc, todo, dst>>
bounds  == <<noff, nbreak, nboot>>
history == <<saved, late_on, given_up, exposed>>
vars == <<disk, inodes, lists, conn, locks, evq, last_evt, life, dpc, opc, spc, prep,
          work, bounds, history>>

MoreFaults == noff + nbreak + nboot < MaxFault

One(b) == IF b THEN 1 ELSE 0
Zero == [i \in Inodes |-> 0]

Init ==
  /\ file = Zero /\ srv = Zero /\ ver = Zero
  /\ inode = [i \in Inodes |-> "absent"]
  /\ stash_status = [i \in Inodes |-> NONE]
  /\ data = [i \in Inodes |-> "clean"]
  /\ wr_opened_cnt = Zero /\ opens = Zero /\ pin = Zero
  /\ stashed_inode_list = {} /\ need_rebuild_stash_list = FALSE
  /\ rebuild_inode_status_nr = 0
  /\ status = "offline" /\ evt_seq = 0 /\ link = "stop"
  /\ seq_lock = "free" /\ offline_cb_lock = "free"
  /\ evq = <<>> /\ last_evt = [evt |-> "none", seq |-> 0] /\ life = "added"
  /\ dpc = "idle" /\ opc = "idle" /\ spc = "idle" /\ prep = {}
  /\ wpc = "idle" /\ todo = {} /\ dst = CHOOSE i \in Inodes : TRUE
  /\ noff = 0 /\ nbreak = 0 /\ nboot = 0
  /\ saved = Zero /\ late_on = FALSE /\ given_up = {} /\ exposed = {}

-----------------------------------------------------------------------------
(* Files of the application.                                               *)

add_wr_opened(s) == [i \in Inodes |-> wr_opened_cnt[i] + One(i \in s)]
del_wr_opened(i) == [wr_opened_cnt EXCEPT ![i] = @ - 1]

Lookup_NoRebuild(i) ==   \* mutant: need_rebuild_stash_list is not looked at
  /\ life = "added" /\ inode[i] = "absent"
  /\ inode' = [inode EXCEPT ![i] = "present"]
  /\ UNCHANGED <<disk, stash_status, wr_opened_cnt, opens, pin, ver, data, lists,
                 conn, locks, evq, last_evt, life, dpc, opc, spc, prep, work, bounds, history>>

(* fill_inode_remote with hmdfs_remote_init_stash_status: the first look   *)
(* at need_rebuild_stash_list.                                             *)
Lookup(i) ==
  /\ life = "added" /\ inode[i] = "absent"
  /\ inode' = [inode EXCEPT ![i] = IF need_rebuild_stash_list THEN "seen" ELSE "present"]
  /\ UNCHANGED <<disk, stash_status, wr_opened_cnt, opens, pin, ver, data, lists,
                 conn, locks, evq, last_evt, life, dpc, opc, spc, prep, work, bounds, history>>

CountRebuild(i) ==
  /\ inode[i] = "seen"
  /\ inode' = [inode EXCEPT ![i] = "counted"]
  /\ rebuild_inode_status_nr' = rebuild_inode_status_nr + 1
  /\ UNCHANGED <<disk, stash_status, wr_opened_cnt, opens, pin, ver, data,
                 stashed_inode_list, need_rebuild_stash_list, conn, locks, evq, last_evt,
                 life, dpc, opc, spc, prep, work, bounds, history>>

(* The second look, after the counter is visible.                          *)
RecheckRebuild(i) ==
  /\ inode[i] = "counted"
  /\ \/ /\ need_rebuild_stash_list
        /\ inode' = [inode EXCEPT ![i] = "checked"]
        /\ UNCHANGED rebuild_inode_status_nr
     \/ /\ ~need_rebuild_stash_list
        /\ inode' = [inode EXCEPT ![i] = "present"]
        /\ rebuild_inode_status_nr' = rebuild_inode_status_nr - 1
  /\ UNCHANGED <<disk, stash_status, wr_opened_cnt, opens, pin, ver, data,
                 stashed_inode_list, need_rebuild_stash_list, conn, locks, evq, last_evt,
                 life, dpc, opc, spc, prep, work, bounds, history>>

(* hmdfs_stash_rebuild_status: an inode with a stash file is restored,     *)
(* unless the file cannot be looked up.                                    *)
Track(i) ==
  /\ stash_status' = [stash_status EXCEPT ![i] = RESTORING]
  /\ pin' = [pin EXCEPT ![i] = @ + 1]
  /\ stashed_inode_list' = stashed_inode_list \cup {i}

Untracked(i) ==
  given_up' = given_up \cup {i} /\ UNCHANGED <<stash_status, pin, stashed_inode_list>>

hmdfs_stash_rebuild_status(i) ==
  /\ inode[i] = "checked"
  /\ \/ /\ IF file[i] # 0 THEN Track(i) ELSE UNCHANGED <<stash_status, pin, stashed_inode_list>>
        /\ UNCHANGED given_up
     \/ Untracked(i)
  /\ inode' = [inode EXCEPT ![i] = "present"]
  /\ rebuild_inode_status_nr' = rebuild_inode_status_nr - 1
  /\ UNCHANGED <<disk, wr_opened_cnt, opens, ver, data, need_rebuild_stash_list,
                 conn, locks, evq, last_evt, life, dpc, opc, spc, prep, work, bounds, saved,
                 late_on, exposed>>

Connected == status = "online" /\ link = "up"

(* An open for write; only the first open of an inode asks the peer.       *)
hmdfs_file_open_remote(i) ==
  /\ life = "added" /\ inode[i] = "present"
  /\ opens[i] > 0 \/ Connected
  /\ opens[i] < MaxOpen
  /\ opens' = [opens EXCEPT ![i] = @ + 1]
  /\ wr_opened_cnt' = add_wr_opened({i})
  /\ UNCHANGED <<disk, inode, stash_status, pin, ver, data, lists, conn, locks, evq, last_evt,
                 life, dpc, opc, spc, prep, work, bounds, history>>

(* The restore's own file is open until its fput; the release comes later. *)
Held(i) == One(wpc = "copy" /\ dst = i)

hmdfs_file_release_remote(i) ==
  /\ opens[i] > Held(i)
  /\ opens' = [opens EXCEPT ![i] = @ - 1]
  /\ wr_opened_cnt' = del_wr_opened(i)
  /\ UNCHANGED <<disk, inode, stash_status, pin, ver, data, lists, conn, locks, evq, last_evt,
                 life, dpc, opc, spc, prep, work, bounds, history>>

(* Versions are numbered in the order of the writes, over all inodes.      *)
NewVersion(v) ==
  /\ \A j \in Inodes : ver[j] < v
  /\ v = 1 \/ \E j \in Inodes : ver[j] = v - 1

hmdfs_file_write_Unchecked(i) ==   \* mutant: check_stash is false
  /\ opens[i] > Held(i) /\ status = "online"
  /\ \E v \in 1 .. MaxVer : NewVersion(v) /\ ver' = [ver EXCEPT ![i] = v]
  /\ data' = [data EXCEPT ![i] = "dirty"]
  /\ UNCHANGED <<disk, inode, stash_status, wr_opened_cnt, opens, pin, lists, conn,
                 locks, evq, last_evt, life, dpc, opc, spc, prep, work, bounds, history>>

(* The inode can be written though it has a stash file: its restore or its *)
(* rebuild was given up, or has reset the inode and not yet removed the    *)
(* file.                                                                   *)
Window(i) == i \in given_up \/ (wpc = "unlink" /\ dst = i)

(* A write is refused while the peer is off line or the inode is being     *)
(* stashed or restored (hmdfs_is_file_unwritable).                         *)
hmdfs_file_write(i) ==
  /\ opens[i] > Held(i) /\ status = "online"
  /\ stash_status[i] = NONE
  /\ \E v \in 1 .. MaxVer : NewVersion(v) /\ ver' = [ver EXCEPT ![i] = v]
  /\ data' = [data EXCEPT ![i] = "dirty"]
  /\ exposed' = IF file[i] # 0 /\ Window(i) THEN exposed \cup {i} ELSE exposed
  /\ UNCHANGED <<disk, inode, stash_status, wr_opened_cnt, opens, pin, lists, conn,
                 locks, evq, last_evt, life, dpc, opc, spc, prep, work, bounds, saved,
                 late_on, given_up>>

(* hmdfs_remote_do_writepage: to the stash file while the inode is         *)
(* stashing, else to the peer; a page that fails is redirtied.             *)
Writeback(i) ==
  /\ data[i] = "dirty"
  /\ \/ /\ stash_status[i] = STASHING
        /\ data' = [data EXCEPT ![i] = "cached"]
        /\ UNCHANGED srv
     \/ /\ stash_status[i] # STASHING /\ Connected
        /\ data' = [data EXCEPT ![i] = "clean"]
        /\ srv' = [srv EXCEPT ![i] = ver[i]]
  /\ UNCHANGED <<file, inode, stash_status, wr_opened_cnt, opens, pin, ver, lists,
                 conn, locks, evq, last_evt, life, dpc, opc, spc, prep, work, bounds, history>>

(* The kernel drops an inode nobody holds; a new one starts with NONE.     *)
Evict(i) ==
  /\ inode[i] = "present"
  /\ opens[i] = 0 /\ pin[i] = 0 /\ data[i] = "clean"
  /\ inode' = [inode EXCEPT ![i] = "absent"]
  /\ stash_status' = [stash_status EXCEPT ![i] = NONE]
  /\ UNCHANGED <<disk, wr_opened_cnt, opens, pin, ver, data, lists, conn, locks, evq, last_evt,
                 life, dpc, opc, spc, prep, work, bounds, history>>
-----------------------------------------------------------------------------
(* The connection.                                                         *)

(* peer_online: the status first, then the event.                          *)
peer_online ==
  /\ life = "added" /\ dpc = "idle" /\ opc = "idle" /\ spc = "idle"
  /\ status \in {"offline", "shaking"}
  /\ status' = "online" /\ link' = "up" /\ opc' = "queue"
  /\ UNCHANGED <<disk, inodes, lists, evt_seq, locks, evq, last_evt, life, dpc, spc, prep,
                 work, bounds, history>>

(* hmdfs_queue_raw_node_evt: an event that repeats the last one is         *)
(* dropped, OFF after a waiting OFF and ON replaces them.                  *)
Queue(e) ==
  LET new == [evt |-> e, seq |-> evt_seq + 1] IN
  /\ evq' = IF e = "off" /\ Len(evq) >= 3
            THEN Append(SubSeq(evq, 1, Len(evq) - 2), new)
            ELSE Append(evq, new)
  /\ evt_seq' = evt_seq + 1 /\ last_evt' = new

QueueOn ==
  /\ opc = "queue" /\ seq_lock = "free"
  /\ opc' = "idle"
  /\ \/ /\ last_evt.evt = "on"
        /\ UNCHANGED <<evq, last_evt, evt_seq, late_on>>
     \/ /\ last_evt.evt # "on"
        /\ Queue("on")
        /\ late_on' = (~Connected \/ dpc # "idle")
  /\ UNCHANGED <<disk, inodes, lists, status, link, locks, life, dpc, spc,
                 prep, work, bounds, saved, given_up, exposed>>

(* The connection breaks without notice.                                   *)
LinkDies ==
  /\ link = "up" /\ status # "offline" /\ nbreak < MaxBreak /\ MoreFaults
  /\ link' = "dead" /\ nbreak' = nbreak + 1
  /\ UNCHANGED <<disk, inodes, lists, status, evt_seq, locks, evq, last_evt, life,
                 dpc, opc, spc, prep, work, noff, nboot, history>>

(* tcp_recv_thread counts the loss before it stops the connection.  The    *)
(* same thread runs peer_online.                                           *)
tcp_recv_thread ==
  /\ link = "dead" /\ opc = "idle"
  /\ link' = "stop" /\ evt_seq' = evt_seq + 1
  /\ UNCHANGED <<disk, inodes, lists, status, locks, evq, last_evt, life, dpc, opc,
                 spc, prep, work, bounds, history>>

(* hmdfs_sendmessage of another thread stops it first and counts later.    *)
SenderStops ==
  /\ link = "dead" /\ status = "online" /\ spc = "idle"
  /\ link' = "stop" /\ spc' = "count"
  /\ UNCHANGED <<disk, inodes, lists, status, evt_seq, locks, evq, last_evt, life,
                 dpc, opc, prep, work, bounds, history>>

SenderCounts ==
  /\ spc = "count"
  /\ spc' = "idle" /\ evt_seq' = evt_seq + 1
  /\ UNCHANGED <<disk, inodes, lists, status, link, locks, evq, last_evt, life, dpc,
                 opc, prep, work, bounds, history>>

(* The agent brings a new connection while the peer is still on line: its  *)
(* handshake completes without an event.                                   *)
LinkBack ==
  /\ life = "added" /\ dpc = "idle" /\ status = "online" /\ link = "stop"
  /\ link' = "up"
  /\ UNCHANGED <<disk, inodes, lists, status, evt_seq, locks, evq, last_evt, life,
                 dpc, opc, spc, prep, work, bounds, history>>

(* A handshake request on a second socket.                                 *)
HandshakeRequest ==
  /\ life = "added" /\ dpc = "idle" /\ opc = "idle"
  /\ status = "online" /\ nbreak < MaxBreak /\ MoreFaults
  /\ status' = "shaking" /\ nbreak' = nbreak + 1
  /\ UNCHANGED <<disk, inodes, lists, evt_seq, link, locks, evq, last_evt, life, dpc,
                 opc, spc, prep, work, noff, nboot, history>>

(* hmdfs_disconnect_node: counted, then off line, then, once the receive   *)
(* thread has stopped, the OFF event.                                      *)
hmdfs_disconnect_node ==
  /\ life = "added" /\ dpc = "idle" /\ status # "offline" /\ noff < MaxOff /\ MoreFaults
  /\ dpc' = "count" /\ evt_seq' = evt_seq + 1
  /\ UNCHANGED <<disk, inodes, lists, status, link, locks, evq, last_evt, life, opc,
                 spc, prep, work, bounds, history>>

DisconnectStatus ==
  /\ dpc = "count"
  /\ dpc' = "queue" /\ status' = "offline" /\ link' = "stop"
  /\ UNCHANGED <<disk, inodes, lists, evt_seq, locks, evq, last_evt, life, opc, spc,
                 prep, work, bounds, history>>

QueueOff ==
  /\ dpc = "queue" /\ opc = "idle" /\ seq_lock = "free"
  /\ noff' = noff + 1
  /\ Queue("off")
  /\ seq_lock' = "sync" /\ dpc' = "prepare"
  /\ UNCHANGED <<disk, inodes, lists, status, link, offline_cb_lock, life,
                 opc, spc, prep, work, nbreak, nboot, history>>

-----------------------------------------------------------------------------
(* Off line: hmdfs_stash_offline_prepare, called by QueueOff's thread under *)
(* seq_lock, and hmdfs_stash_offline_do_stash, called by the work.         *)

hmdfs_stash_fetch_ready_files_NoCount ==   \* mutant: close() may take the inode off the list
  LET ready == {i \in Inodes : wr_opened_cnt[i] > 0 /\ stash_status[i] = NONE} IN
  /\ prep' = ready
  /\ wr_opened_cnt' = wr_opened_cnt
  /\ pin' = [i \in Inodes |-> pin[i] + One(i \in ready)]

(* Every inode open for write that is neither stashed nor restored; the    *)
(* extra count keeps it on the list when it is closed.                     *)
hmdfs_stash_fetch_ready_files ==
  LET ready == {i \in Inodes : wr_opened_cnt[i] > 0 /\ stash_status[i] = NONE} IN
  /\ prep' = ready
  /\ wr_opened_cnt' = add_wr_opened(ready)
  /\ pin' = [i \in Inodes |-> pin[i] + One(i \in ready)]

hmdfs_stash_offline_prepare ==
  /\ dpc = "prepare" /\ offline_cb_lock = "free"
  /\ offline_cb_lock' = "sync" /\ dpc' = "init"
  /\ hmdfs_stash_fetch_ready_files
  /\ UNCHANGED <<disk, inode, stash_status, opens, ver, data, lists, conn, seq_lock,
                 evq, last_evt, life, opc, spc, work, bounds, history>>

hmdfs_init_stash_file_cache(i) ==
  /\ i \in prep
  /\ prep' = prep \ {i}
  /\ stash_status' = [stash_status EXCEPT ![i] = STASHING]
  /\ UNCHANGED <<disk, inode, wr_opened_cnt, opens, pin, ver, data, lists, conn, locks,
                 evq, last_evt, life, dpc, opc, spc, work, bounds, history>>

PrepareEnd ==
  /\ dpc = "init" /\ prep = {}
  /\ dpc' = "idle" /\ seq_lock' = "free" /\ offline_cb_lock' = "free"
  /\ UNCHANGED <<disk, inodes, lists, conn, evq, last_evt, life, opc, spc, prep, work,
                 bounds, history>>

(* hmdfs_node_evt_work takes seq_lock and calls back; the stash callbacks  *)
(* release seq_lock at once.                                               *)
StartWork ==
  /\ life = "added" /\ wpc = "idle" /\ evq # <<>> /\ seq_lock = "free"
  /\ IF Head(evq).evt = "off"
     THEN wpc' = "stash_lock" /\ UNCHANGED <<todo, seq_lock>>
     ELSE IF need_rebuild_stash_list
     THEN /\ wpc' = "rebuild" /\ todo' = {i \in Inodes : file[i] # 0}
          /\ UNCHANGED seq_lock
     ELSE wpc' = "online" /\ seq_lock' = "work" /\ UNCHANGED todo
  /\ UNCHANGED <<disk, inodes, lists, conn, offline_cb_lock, evq, last_evt, life, dpc,
                 opc, spc, prep, dst, bounds, history>>

StashFetch ==
  /\ wpc = "stash_lock" /\ offline_cb_lock = "free"
  /\ offline_cb_lock' = "work" /\ wpc' = "stash_init"
  /\ hmdfs_stash_fetch_ready_files
  /\ UNCHANGED <<disk, inode, stash_status, opens, ver, data, lists, conn, seq_lock,
                 evq, last_evt, life, dpc, opc, spc, todo, dst, bounds, history>>

StashCollect ==
  /\ wpc = "stash_init" /\ prep = {}
  /\ wpc' = "stash"
  /\ todo' = {i \in Inodes : wr_opened_cnt[i] > 0 /\ stash_status[i] = STASHING}
  /\ UNCHANGED <<disk, inodes, lists, conn, locks, evq, last_evt, life, dpc, opc, spc,
                 prep, dst, bounds, history>>

(* hmdfs_stash_remote_inode: what is dirty goes to the stash file, which   *)
(* is linked under the inode's number and replaces an older one; the inode *)
(* is then restored.  With nothing to stash it is released.                *)
Stashed(i) ==
  /\ data[i] # "clean"
  /\ data' = [data EXCEPT ![i] = "clean"]
  /\ file' = [file EXCEPT ![i] = ver[i]]
  /\ saved' = [saved EXCEPT ![i] = ver[i]]
  /\ stash_status' = [stash_status EXCEPT ![i] = RESTORING]
  /\ stashed_inode_list' = stashed_inode_list \cup {i}
  /\ given_up' = given_up \ {i} /\ exposed' = exposed \ {i}
  /\ UNCHANGED pin

Release(i) ==
  /\ stash_status' = [stash_status EXCEPT ![i] = NONE]
  /\ pin' = [pin EXCEPT ![i] = @ - 1]
  /\ UNCHANGED <<saved, stashed_inode_list, given_up, exposed>>

(* An error of the flush, the fsync or the link: what is in the cache file *)
(* goes with it, a page that is still dirty stays so, and an older stash   *)
(* file may have been unlinked already.                                    *)
StashError(i) ==
  /\ data' = [data EXCEPT ![i] = IF @ = "dirty" THEN "dirty" ELSE "clean"]
  /\ file' \in {file, [file EXCEPT ![i] = 0]}
  /\ Release(i)

hmdfs_stash_remote_inode(i) ==
  /\ wpc = "stash" /\ i \in todo
  /\ todo' = todo \ {i}
  /\ wr_opened_cnt' = del_wr_opened(i)
  /\ \/ Stashed(i)
     \/ data[i] = "clean" /\ UNCHANGED <<data, file>> /\ Release(i)
     \/ StashError(i)
  /\ UNCHANGED <<srv, inode, opens, ver, need_rebuild_stash_list,
                 rebuild_inode_status_nr, conn, locks, evq, last_evt, life, dpc, opc,
                 spc, prep, wpc, dst, bounds, late_on>>

StashEnd ==
  /\ wpc = "stash" /\ todo = {}
  /\ wpc' = "relock" /\ offline_cb_lock' = "free"
  /\ UNCHANGED <<disk, inodes, lists, conn, seq_lock, evq, last_evt, life, dpc, opc,
                 spc, prep, todo, dst, bounds, history>>

FinishWork_Forgets ==   \* mutant: waiting events are not taken up
  /\ \/ wpc = "relock" /\ seq_lock = "free"
     \/ wpc = "skip"
  /\ seq_lock' = "free"
  /\ wpc' = "idle" /\ evq' = <<>>
  /\ UNCHANGED <<disk, inodes, lists, conn, offline_cb_lock, last_evt, life, dpc, opc,
                 spc, prep, todo, dst, bounds, history>>

(* seq_lock is taken again, the callback returns, and the next event is    *)
(* taken up.                                                               *)
FinishWork ==
  /\ \/ wpc = "relock" /\ seq_lock = "free"
     \/ wpc = "skip"
  /\ seq_lock' = "free"
  /\ wpc' = "idle" /\ evq' = Tail(evq)
  /\ UNCHANGED <<disk, inodes, lists, conn, offline_cb_lock, last_evt, life, dpc, opc,
                 spc, prep, todo, dst, bounds, history>>

-----------------------------------------------------------------------------
(* On line: hmdfs_stash_online_prepare and hmdfs_stash_online_do_restore.  *)

(* A request of the work fails.  hmdfs_sendmessage on a connection found   *)
(* dead stops it and counts the loss.                                      *)
SendFails ==
  IF status = "online" /\ link = "dead"
  THEN link' = "stop" /\ evt_seq' = evt_seq + 1
  ELSE UNCHANGED <<link, evt_seq>>

hmdfs_is_node_offlined == evt_seq' # Head(evq).seq

(* What hides a lost connection from hmdfs_is_node_offlined.               *)
Uncounted == spc = "count" \/ late_on \/ status = "shaking"

(* An error that is put down to the loss of the peer: -ESHUTDOWN.          *)
Shutdown == SendFails /\ hmdfs_is_node_offlined /\ UNCHANGED given_up

(* Any other: a connection lost in a way that is not counted yet, or the   *)
(* peer answers with an error or too late, or an error of this device.     *)
OtherError(i) ==
  \/ /\ ~Connected /\ SendFails /\ ~hmdfs_is_node_offlined
     /\ given_up' = IF Uncounted THEN given_up \cup {i} ELSE given_up
  \/ given_up' = given_up \cup {i} /\ UNCHANGED <<link, evt_seq>>

(* hmdfs_rebuild_stash_list: opening the file of a stash file brings its   *)
(* inode in, which tracks it.  -ESHUTDOWN ends the loop, any other error   *)
(* skips the file.                                                         *)
RebuildOpen(i) ==
  /\ wpc = "rebuild" /\ i \in todo /\ inode[i] \in {"absent", "present"}
  /\ \/ /\ Connected \/ opens[i] > 0
        /\ \/ inode[i] = "absent" /\ Track(i) /\ UNCHANGED given_up
           \/ inode[i] = "absent" /\ Untracked(i)
           \/ inode[i] = "present" /\ UNCHANGED <<stash_status, pin, stashed_inode_list, given_up>>
        /\ inode' = [inode EXCEPT ![i] = "present"]
        /\ todo' = todo \ {i}
        /\ UNCHANGED <<wpc, link, evt_seq>>
     \/ /\ \/ Shutdown /\ wpc' = "rebuild_end" /\ UNCHANGED todo
           \/ OtherError(i) /\ todo' = todo \ {i} /\ UNCHANGED wpc
        /\ UNCHANGED <<inode, stash_status, pin, stashed_inode_list>>
  /\ UNCHANGED <<disk, wr_opened_cnt, opens, ver, data, need_rebuild_stash_list,
                 rebuild_inode_status_nr, status, locks, evq, last_evt, life, dpc, opc,
                 spc, prep, dst, bounds, saved, late_on, exposed>>

RebuildDone ==
  /\ wpc = "rebuild" /\ todo = {}
  /\ need_rebuild_stash_list' = FALSE
  /\ wpc' = "rebuild_end"
  /\ UNCHANGED <<disk, inodes, stashed_inode_list, rebuild_inode_status_nr, conn, locks,
                 evq, last_evt, life, dpc, opc, spc, prep, todo, dst, bounds, history>>

RebuildWait_NoWait ==   \* mutant: the counter is not awaited
  /\ wpc = "rebuild_end"
  /\ seq_lock = "free"
  /\ seq_lock' = "work" /\ wpc' = "online"
  /\ UNCHANGED <<disk, inodes, lists, conn, offline_cb_lock, evq, last_evt, life, dpc,
                 opc, spc, prep, todo, dst, bounds, history>>

(* Inodes that are being created have to be on the list, or to have seen   *)
(* that it is complete, before the list is used.                           *)
RebuildWait ==
  /\ wpc = "rebuild_end"
  /\ need_rebuild_stash_list \/ rebuild_inode_status_nr = 0
  /\ seq_lock = "free"
  /\ seq_lock' = "work" /\ wpc' = "online"
  /\ UNCHANGED <<disk, inodes, lists, conn, offline_cb_lock, evq, last_evt, life, dpc,
                 opc, spc, prep, todo, dst, bounds, history>>

RestoreStart ==
  /\ wpc = "online"
  /\ \/ need_rebuild_stash_list /\ wpc' = "skip" /\ UNCHANGED <<todo, seq_lock>>
     \/ /\ ~need_rebuild_stash_list
        /\ wpc' = "restore" /\ todo' = {i \in Inodes : file[i] # 0}
        /\ seq_lock' = "free"
  /\ UNCHANGED <<disk, inodes, lists, conn, offline_cb_lock, evq, last_evt, life, dpc,
                 opc, spc, prep, dst, bounds, history>>

RestoreFails_NotKept(i) ==   \* mutant: every error gives the file up
  \/ Shutdown /\ wpc' = "reset"
  \/ OtherError(i) /\ wpc' = "reset"

(* -ESHUTDOWN keeps the stash file and ends the restore; with any other    *)
(* error the file is given up.                                             *)
RestoreFails(i) ==
  \/ Shutdown /\ wpc' = "relock"
  \/ OtherError(i) /\ wpc' = "reset"

(* hmdfs_restore_file: the stash file of an inode that is not tracked is   *)
(* given up, else its destination is opened for write.                     *)
RestoreOpen(i) ==
  /\ wpc = "restore" /\ i \in todo
  /\ dst' = i
  /\ \/ /\ i \notin stashed_inode_list
        /\ wpc' = "unlink"
        /\ UNCHANGED <<wr_opened_cnt, opens, link, evt_seq, given_up>>
     \/ /\ i \in stashed_inode_list /\ (Connected \/ opens[i] > 0)
        /\ opens' = [opens EXCEPT ![i] = @ + 1]
        /\ wr_opened_cnt' = add_wr_opened({i})
        /\ wpc' = "copy"
        /\ UNCHANGED <<link, evt_seq, given_up>>
     \/ /\ i \in stashed_inode_list
        /\ RestoreFails(i)
        /\ UNCHANGED <<wr_opened_cnt, opens>>
  /\ UNCHANGED <<disk, inode, stash_status, pin, ver, data, lists, status, locks, evq,
                 last_evt, life, dpc, opc, spc, prep, todo, bounds, saved, late_on,
                 exposed>>

(* hmdfs_open_stash_file fails, or the walk of the directory ends early:   *)
(* the stash file stays, its inode will be dropped from the list.          *)
RestoreSkip(i) ==
  /\ wpc = "restore" /\ i \in todo
  /\ todo' = todo \ {i}
  /\ given_up' = given_up \cup {i}
  /\ UNCHANGED <<disk, inodes, lists, conn, locks, evq, last_evt, life, dpc, opc, spc, prep,
                 wpc, dst, bounds, saved, late_on, exposed>>

(* hmdfs_restore_src_to_dst: copied and fsynced.  The data may have        *)
(* reached the peer though the fsync fails.                                *)
hmdfs_restore_src_to_dst ==
  /\ wpc = "copy"
  /\ \/ /\ Connected
        /\ srv' = [srv EXCEPT ![dst] = file[dst]]
        /\ wpc' = "reset"
        /\ UNCHANGED <<link, evt_seq, given_up>>
     \/ /\ RestoreFails(dst)
        /\ srv' \in {srv, [srv EXCEPT ![dst] = file[dst]]}
  /\ UNCHANGED <<file, inodes, lists, status, locks, evq, last_evt, life, dpc, opc, spc,
                 prep, todo, dst, bounds, saved, late_on, exposed>>

Untrack(s) ==
  /\ stashed_inode_list' = stashed_inode_list \ s
  /\ pin' = [i \in Inodes |-> pin[i] - One(i \in s)]

(* hmdfs_reset_stashed_inode makes the inode writable again ...            *)
hmdfs_reset_stashed_inode ==
  /\ wpc = "reset"
  /\ Untrack({dst})
  /\ stash_status' = [stash_status EXCEPT ![dst] = NONE]
  /\ wpc' = "unlink"
  /\ UNCHANGED <<disk, inode, wr_opened_cnt, opens, ver, data, need_rebuild_stash_list,
                 rebuild_inode_status_nr, conn, locks, evq, last_evt, life, dpc, opc,
                 spc, prep, todo, dst, bounds, history>>

(* ... and hmdfs_del_stash_file follows.                                   *)
hmdfs_del_stash_file ==
  /\ wpc = "unlink"
  /\ file' = [file EXCEPT ![dst] = 0]
  /\ todo' = todo \ {dst}
  /\ wpc' = "restore"
  /\ exposed' = exposed \ {dst}
  /\ UNCHANGED <<srv, inodes, lists, conn, locks, evq, last_evt, life, dpc, opc, spc,
                 prep, dst, bounds, saved, late_on, given_up>>

hmdfs_drop_stashed_inodes ==
  /\ wpc = "restore" /\ todo = {}
  /\ Untrack(stashed_inode_list)
  /\ stash_status' = [i \in Inodes |-> IF i \in stashed_inode_list THEN NONE
                                       ELSE stash_status[i]]
  /\ wpc' = "relock"
  /\ UNCHANGED <<disk, inode, wr_opened_cnt, opens, ver, data, need_rebuild_stash_list,
                 rebuild_inode_status_nr, conn, locks, evq, last_evt, life, dpc, opc,
                 spc, prep, todo, dst, bounds, history>>

-----------------------------------------------------------------------------
(* The end of the peer.                                                    *)

(* hmdfs_connections_stop, every file being closed: evt_dwork is cancelled *)
(* and hmdfs_stash_del_do_cleanup releases what it would have stashed or   *)
(* restored.                                                               *)
hmdfs_stash_del_do_cleanup ==
  LET preparing == {i \in Inodes : wr_opened_cnt[i] > 0 /\ stash_status[i] = STASHING} IN
  /\ life = "added" /\ status = "offline" /\ nboot < MaxBoot /\ MoreFaults
  /\ dpc = "idle" /\ opc = "idle" /\ spc = "idle" /\ wpc = "idle"
  /\ \A i \in Inodes : opens[i] = 0 /\ inode[i] \in {"absent", "present"} /\ data[i] # "dirty"
  /\ life' = "deleted"
  /\ stash_status' = [i \in Inodes |-> IF i \in preparing THEN NONE ELSE stash_status[i]]
  /\ wr_opened_cnt' = [i \in Inodes |-> wr_opened_cnt[i] - One(i \in preparing)]
  /\ data' = [i \in Inodes |-> IF i \in preparing THEN "clean" ELSE data[i]]
  /\ pin' = [i \in Inodes |-> pin[i] - One(i \in preparing)
                                   - One(i \in stashed_inode_list)]
  /\ stashed_inode_list' = {}
  /\ UNCHANGED <<disk, inode, opens, ver, need_rebuild_stash_list,
                 rebuild_inode_status_nr, conn, locks, evq, last_evt, dpc, opc, spc,
                 prep, work, bounds, history>>

(* The device crashes, or has been unmounted, and the peer is added again: *)
(* the ADD callback (hmdfs_rebuild_check_work_fn) finds the stash files.   *)
Boot ==
  /\ nboot < MaxBoot /\ MoreFaults
  /\ nboot' = nboot + 1
  /\ need_rebuild_stash_list' = (\E i \in Inodes : file[i] # 0)
  /\ inode' = [i \in Inodes |-> "absent"]
  /\ stash_status' = [i \in Inodes |-> NONE]
  /\ data' = [i \in Inodes |-> "clean"]
  /\ wr_opened_cnt' = Zero /\ opens' = Zero /\ pin' = Zero
  /\ stashed_inode_list' = {} /\ rebuild_inode_status_nr' = 0
  /\ status' = "offline" /\ evt_seq' = 0 /\ link' = "stop"
  /\ seq_lock' = "free" /\ offline_cb_lock' = "free"
  /\ evq' = <<>> /\ last_evt' = [evt |-> "none", seq |-> 0] /\ life' = "added"
  /\ dpc' = "idle" /\ opc' = "idle" /\ spc' = "idle" /\ prep' = {}
  /\ wpc' = "idle" /\ todo' = {} /\ dst' = dst
  /\ late_on' = FALSE
  /\ UNCHANGED <<disk, ver, noff, nbreak, saved, given_up, exposed>>

-----------------------------------------------------------------------------
FileStep(i) ==
  \/ Lookup(i) \/ CountRebuild(i) \/ RecheckRebuild(i) \/ hmdfs_stash_rebuild_status(i)
  \/ hmdfs_file_open_remote(i) \/ hmdfs_file_release_remote(i) \/ hmdfs_file_write(i)
  \/ Writeback(i) \/ Evict(i)

LinkStep ==
  \/ peer_online \/ QueueOn \/ LinkDies \/ tcp_recv_thread \/ SenderStops
  \/ SenderCounts \/ LinkBack \/ HandshakeRequest

InitCache == \E i \in Inodes : hmdfs_init_stash_file_cache(i)

DisconnectStep ==
  \/ DisconnectStatus \/ QueueOff \/ hmdfs_stash_offline_prepare \/ PrepareEnd

WorkStep ==
  \/ StartWork \/ StashFetch \/ StashCollect \/ StashEnd \/ FinishWork
  \/ \E i \in Inodes : hmdfs_stash_remote_inode(i) \/ RebuildOpen(i) \/ RestoreOpen(i)
                      \/ RestoreSkip(i)
  \/ RebuildDone \/ RebuildWait \/ RestoreStart
  \/ hmdfs_restore_src_to_dst \/ hmdfs_reset_stashed_inode \/ hmdfs_del_stash_file
  \/ hmdfs_drop_stashed_inodes

Next ==
  \/ \E i \in Inodes : FileStep(i)
  \/ LinkStep
  \/ hmdfs_disconnect_node \/ DisconnectStep
  \/ InitCache
  \/ WorkStep
  \/ hmdfs_stash_del_do_cleanup \/ Boot

Spec == Init /\ [][Next]_vars

(* Threads that have begun something run on, and so does the work.  Nobody *)
(* has to look up, open, write or close a file, connect or disconnect.     *)
Fairness ==
  /\ WF_vars(WorkStep) /\ WF_vars(InitCache) /\ WF_vars(DisconnectStep)
  /\ WF_vars(QueueOn) /\ WF_vars(SenderCounts)
  /\ \A i \in Inodes : WF_vars(CountRebuild(i) \/ RecheckRebuild(i)
                                \/ hmdfs_stash_rebuild_status(i))

FairSpec == Spec /\ Fairness

-----------------------------------------------------------------------------
(* The state has its type; in particular no count of write-opens, of       *)
(* references or of inodes being rebuilt (rebuild_inode_status_nr) is      *)
(* taken below zero, and at most four events wait for evt_dwork.           *)
TypeOK ==
  /\ file \in [Inodes -> 0 .. MaxVer] /\ srv \in [Inodes -> 0 .. MaxVer]
  /\ ver \in [Inodes -> 0 .. MaxVer] /\ saved \in [Inodes -> 0 .. MaxVer]
  /\ inode \in [Inodes -> {"absent", "seen", "counted", "checked", "present"}]
  /\ stash_status \in [Inodes -> {NONE, STASHING, RESTORING}]
  /\ data \in [Inodes -> {"clean", "dirty", "cached"}]
  /\ opens \in [Inodes -> Nat] /\ wr_opened_cnt \in [Inodes -> Nat]
  /\ pin \in [Inodes -> Nat]
  /\ stashed_inode_list \subseteq Inodes /\ need_rebuild_stash_list \in BOOLEAN
  /\ rebuild_inode_status_nr \in Nat
  /\ status \in {"offline", "shaking", "online"} /\ link \in {"up", "dead", "stop"}
  /\ seq_lock \in {"free", "sync", "work"} /\ offline_cb_lock \in {"free", "sync", "work"}
  /\ prep \subseteq Inodes /\ todo \subseteq Inodes /\ dst \in Inodes
  /\ Len(evq) <= 4

(* The stash is preparing or stashing the inode.                           *)
Stashing(i) == i \in prep \/ stash_status[i] = STASHING

(* hmdfs_remote_add_wr_opened_inode_nolock and ihold are paired with their *)
(* undoing on every path: the stash holds an inode once while it prepares  *)
(* or stashes it and once while it is to be restored, and the count of     *)
(* write-opens is the files open plus the one of the stash.  After the DEL *)
(* callback it holds none, or the file system could not be unmounted.      *)
PinsExact ==
  \A i \in Inodes :
    /\ pin[i] = One(Stashing(i)) + One(i \in stashed_inode_list)
    /\ wr_opened_cnt[i] = opens[i] + One(Stashing(i))
    /\ life = "deleted" => pin[i] = 0 /\ wr_opened_cnt[i] = 0

(* An inode that refuses writes because it is to be restored is in the     *)
(* list of the inodes to restore, and in memory.                           *)
RestoringTracked ==
  life = "added" =>
    \A i \in Inodes :
      /\ stash_status[i] = RESTORING <=> i \in stashed_inode_list
      /\ stash_status[i] # NONE => inode[i] = "present"

(* The list is walked without its lock while files are restored: nobody    *)
(* may be adding an inode to it (hmdfs_stash_online_prepare waits for      *)
(* rebuild_inode_status_nr).                                               *)
RestoreAlone ==
  wpc \in {"restore", "copy", "reset", "unlink"} => \A i \in Inodes : inode[i] # "checked"

(* While an inode has a stash file it cannot be written, but for the       *)
(* moment between hmdfs_reset_stashed_inode and hmdfs_del_stash_file and   *)
(* after its rebuild or restore was given up with the file left behind     *)
(* (hmdfs_rebuild_stash_list, hmdfs_restore_files).                        *)
WritableHasNoStash ==
  \A i \in Inodes :
    life = "added" /\ inode[i] = "present" /\ stash_status[i] = NONE /\ file[i] # 0
      => Window(i)

(* What has been stashed stays in the stash file until the peer has it,    *)
(* over disconnects, crashes and remounts, unless its rebuild or restore   *)
(* met an error that hmdfs_is_node_offlined does not put down to the loss  *)
(* of the peer: an error the peer answers with, a timeout, an error of     *)
(* this device, and of the ways to lose a connection only those in which   *)
(* the loss is counted late (Uncounted).                                   *)
StashNotLost ==
  \A i \in Inodes : file[i] = saved[i] \/ srv[i] >= saved[i] \/ i \in given_up

(* The peer's file is never set back to an older version (by a restore, or *)
(* a late writeback), unless the newer one was written when a stash file   *)
(* was left behind: in the moment between hmdfs_reset_stashed_inode and    *)
(* hmdfs_del_stash_file, with a crash before the latter, or after the      *)
(* inode was given up.                                                     *)
NeverOlder == [][\A i \in Inodes : srv'[i] >= srv[i] \/ i \in exposed]_vars

(* The peer is connected, and no loss has been counted since its ON event. *)
Steady == Connected /\ last_evt.evt = "on" /\ last_evt.seq = evt_seq

(* No inode refuses writes for ever.  It does not stay in the state in     *)
(* which it is stashed: every synchronous OFFLINE callback is followed by  *)
(* the asynchronous one.  And if the peer stays connected since its last   *)
(* ON event, every stashed inode is restored and can be written again      *)
(* (evt_dwork runs the ON callbacks, hmdfs_stash_online_do_restore).       *)
StashEnds ==
  \A i \in Inodes :
    /\ stash_status[i] = STASHING ~> stash_status[i] # STASHING
    /\ <>[]Steady => (stash_status[i] = RESTORING ~> stash_status[i] = NONE)

(* docs/hmdfs_architecture.md: an entry whose transmission fails stays in  *)
(* the stash.                                                              *)
FailedKept == \A i \in Inodes : file[i] = saved[i] \/ srv[i] >= saved[i]
=============================================================================
