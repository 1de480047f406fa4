-------------------------- MODULE FidReopen_proofs --------------------------
(***************************************************************************)
(* Proofs about FidReopen, for any number of processes that open, read,    *)
(* write and reopen the file at once, of file ids and of disconnections:   *)
(* the count of openers is exact and opens exclude one another; the server *)
(* keeps no file that nobody will close, but for the ids in orphans; and a *)
(* read that nothing interfered with succeeds.                             *)
(***************************************************************************)
EXTENDS FidReopen, FiniteSetTheorems, TLAPS

\* The processes info->ref counts.
Openers == {p \in Procs : pc[p] \notin {"closed", "opening"}}

\* Places with inode_lock, and places without the file open.
Locked == {"opening", "reopening"}
NotOpen == {"closed", "opening"}

(* info->ref counts the processes that have the file open; inode_lock is   *)
(* held by one process at most, and by none that is not waiting for the    *)
(* server's answer to an open; and while the first open waits for its      *)
(* answer nobody has the file open (hmdfs_file_open_remote,                *)
(* hmdfs_file_release_remote and hmdfs_remote_file_reopen).                *)
UsersCounted ==
  /\ ref = Cardinality(Openers)
  /\ i_rwsem \in Procs \cup {None}
  /\ \A p \in Procs : i_rwsem = p <=> pc[p] \in Locked
  /\ \A p \in Procs : pc[p] = "opening" => ref = 0

CInv == pc \in [Procs -> PC] /\ UsersCounted

(* A step of a process that neither takes nor drops the lock or the file.  *)
LEMMA MovedCounted ==
  ASSUME CInv, NEW p \in Procs, NEW to \in PC, Go(p, to),
         pc[p] \notin Locked \cup NotOpen, to \notin Locked \cup NotOpen,
         UNCHANGED <<ref, i_rwsem>>
  PROVE  CInv'
  <1>1. pc' \in [Procs -> PC] /\ pc'[p] = to /\ \A q \in Procs : q # p => pc'[q] = pc[q]
    BY Zenon DEF CInv, Go
  <1>2. Openers' = Openers
    BY <1>1, Zenon DEF Openers, NotOpen
  <1>3. \A q \in Procs : /\ i_rwsem' = q <=> pc'[q] \in Locked
                         /\ pc'[q] = "opening" => ref' = 0
    BY <1>1, Zenon DEF CInv, UsersCounted, Locked
  <1> QED
    BY <1>1, <1>2, <1>3, Zenon DEF CInv, UsersCounted

(* A step that takes or drops the lock, with the set of those who have the *)
(* file open and their count given.                                        *)
LEMMA LockCounted ==
  ASSUME CInv, NEW p \in Procs, NEW to \in PC, Go(p, to),
         ref' = Cardinality(Openers'),
         i_rwsem' = IF to \in Locked THEN p ELSE None,
         i_rwsem \in {p, None},
         \A q \in Procs : pc'[q] = "opening" => ref' = 0
  PROVE  CInv'
  <1>1. pc' \in [Procs -> PC] /\ pc'[p] = to /\ \A q \in Procs : q # p => pc'[q] = pc[q]
    BY Zenon DEF CInv, Go
  <1>2. None \notin Procs
    BY ProcAssumption, Zenon DEF None
  <1>3. ASSUME NEW q \in Procs PROVE i_rwsem' = q <=> pc'[q] \in Locked
    <2>1. CASE q = p
      BY <1>1, <1>2, <2>1, Zenon
    <2>2. CASE q # p
      BY <1>1, <1>2, <2>2, Zenon DEF CInv, UsersCounted
    <2> QED
      BY <2>1, <2>2, Zenon
  <1> QED
    BY <1>1, <1>3, Zenon DEF CInv, UsersCounted

LEMMA NextCounted ==
  ASSUME CInv, [Next]_vars
  PROVE  CInv'
  <1>1. /\ pc \in [Procs -> PC] /\ IsFiniteSet(Openers) /\ ref = Cardinality(Openers) /\ ref \in Nat
        /\ \A q \in Procs : i_rwsem = q <=> pc[q] \in Locked
        /\ \A q \in Procs : pc[q] = "opening" => ref = 0
    BY ProcAssumption, FS_Subset, FS_CardinalityType, Zenon DEF CInv, UsersCounted, Openers
  <1>2. None \notin Procs
    BY ProcAssumption, Zenon DEF None
  <1>3. CASE UNCHANGED <<pc, ref, i_rwsem>>
    BY <1>3, Zenon DEF CInv, UsersCounted, Openers
  <1>4. ASSUME NEW p \in Procs, hmdfs_file_open_remote(p) PROVE CInv'
    <2>1. pc[p] = "closed" /\ i_rwsem = None
      BY <1>4, Zenon DEF hmdfs_file_open_remote
    <2>2. CASE ref = 0
      <3>1. Go(p, "opening") /\ i_rwsem' = p /\ ref' = ref
        BY <1>4, <2>2, Zenon DEF hmdfs_file_open_remote
      <3>2. Openers' = Openers
        BY <1>1, <2>1, <3>1, Zenon DEF Openers, Go
      <3> QED
        BY <1>1, <2>1, <2>2, <3>1, <3>2, LockCounted, Zenon DEF Locked, PC
    <2>3. CASE ref # 0
      <3>1. Go(p, "open") /\ i_rwsem' = i_rwsem /\ ref' = ref + 1
        BY <1>4, <2>3, Zenon DEF hmdfs_file_open_remote
      <3>2. Openers' = Openers \cup {p} /\ p \notin Openers
        BY <1>1, <2>1, <3>1, Zenon DEF Openers, Go
      <3>3. ref' = Cardinality(Openers')
        BY <1>1, <3>1, <3>2, FS_AddElement, Zenon
      <3>4. \A q \in Procs : pc'[q] # "opening"
        BY <1>1, <1>2, <2>1, <3>1, Zenon DEF Go, Locked
      <3> QED
        BY <2>1, <3>1, <3>3, <3>4, LockCounted, Zenon DEF Locked, PC
    <2> QED
      BY <2>2, <2>3, Zenon
  <1>5. ASSUME NEW p \in Procs, OpenReply(p) PROVE CInv'
    <2>1. pc[p] = "opening" /\ i_rwsem = p /\ Go(p, "open") /\ i_rwsem' = None /\ ref' = 1 /\ ref = 0
      BY <1>1, <1>5, Zenon DEF OpenReply, Locked
    <2>2. Openers = {}
      BY <1>1, <2>1, FS_EmptySet, Zenon
    <2>3. Openers' = {p}
      BY <1>1, <2>1, <2>2, Zenon DEF Openers, Go
    <2>4. \A q \in Procs : pc'[q] # "opening"
      BY <1>1, <2>1, Zenon DEF Go, Locked
    <2> QED
      BY <2>1, <2>3, <2>4, FS_Singleton, LockCounted, Zenon DEF Locked, PC
  <1>6. ASSUME NEW p \in Procs, OpenStale(p) \/ OpenFails(p) PROVE CInv'
    <2>1. pc[p] = "opening" /\ i_rwsem = p /\ Go(p, "closed") /\ i_rwsem' = None /\ ref' = ref
      BY <1>1, <1>6, Zenon DEF OpenStale, OpenFails, Locked
    <2>2. Openers' = Openers
      BY <1>1, <2>1, Zenon DEF Openers, Go
    <2>3. \A q \in Procs : pc'[q] # "opening"
      BY <1>1, <2>1, Zenon DEF Go, Locked
    <2> QED
      BY <1>1, <2>1, <2>2, <2>3, LockCounted, Zenon DEF Locked, PC
  <1>7. ASSUME NEW p \in Procs, hmdfs_file_release_remote(p) PROVE CInv'
    <2>1. pc[p] = "open" /\ i_rwsem = None /\ Go(p, "closed") /\ i_rwsem' = i_rwsem /\ ref' = ref - 1
      BY <1>7, Zenon DEF hmdfs_file_release_remote
    <2>2. Openers' = Openers \ {p} /\ p \in Openers
      BY <1>1, <2>1, Zenon DEF Openers, Go
    <2>3. ref' = Cardinality(Openers')
      BY <1>1, <2>1, <2>2, FS_RemoveElement, Zenon
    <2>4. \A q \in Procs : pc'[q] # "opening"
      BY <1>1, <1>2, <2>1, Zenon DEF Go, Locked
    <2> QED
      BY <2>1, <2>3, <2>4, LockCounted, Zenon DEF Locked, PC
  <1>8. ASSUME NEW p \in Procs, ReopenClose(p) PROVE CInv'
    <2>1. pc[p] = "relock" /\ i_rwsem = None /\ Go(p, "reopening") /\ i_rwsem' = p /\ ref' = ref
      BY <1>8, Zenon DEF ReopenClose
    <2>2. Openers' = Openers
      BY <1>1, <2>1, Zenon DEF Openers, Go
    <2>3. \A q \in Procs : pc'[q] # "opening"
      BY <1>1, <1>2, <2>1, Zenon DEF Go, Locked
    <2> QED
      BY <1>1, <2>1, <2>2, <2>3, LockCounted, Zenon DEF Locked, PC
  <1>9. ASSUME NEW p \in Procs, ReopenReply(p) \/ ReopenStale(p) \/ ReopenFails(p)
        PROVE  CInv'
    <2>1. PICK to \in {"reopened", "reopen_err"} :
            pc[p] = "reopening" /\ i_rwsem = p /\ Go(p, to) /\ i_rwsem' = None /\ ref' = ref
      BY <1>1, <1>9, Zenon DEF ReopenReply, ReopenStale, ReopenFails, Locked
    <2>2. Openers' = Openers
      BY <1>1, <2>1, Zenon DEF Openers, Go
    <2>3. \A q \in Procs : pc'[q] # "opening"
      BY <1>1, <2>1, Zenon DEF Go, Locked
    <2> QED
      BY <1>1, <2>1, <2>2, <2>3, LockCounted, Zenon DEF Locked, PC
  <1>10. ASSUME NEW p \in Procs,
                hmdfs_remote_check_and_reopen(p) \/ ReopenBegin(p) \/ ReopenEnd(p) \/ Use(p)
         PROVE  CInv'
    <2>1. UNCHANGED <<ref, i_rwsem>> /\ pc[p] \notin Locked \cup NotOpen
      BY <1>10, Zenon DEF hmdfs_remote_check_and_reopen, ReopenBegin, ReopenEnd, Use,
         ReadSend, ReadOk, ReadFails, WriteSend, hmdfs_writepage_cb, Return, Done, inode,
         Locked, NotOpen
    <2>2. PICK to \in PC : Go(p, to) /\ to \notin Locked \cup NotOpen
      BY <1>10, Zenon DEF hmdfs_remote_check_and_reopen, ReopenBegin, ReopenEnd, Use,
         ReadSend, ReadOk, ReadFails, WriteSend, hmdfs_writepage_cb, Return, Done, GoOp,
         Locked, NotOpen, PC
    <2> QED
      BY <2>1, <2>2, MovedCounted, Zenon
  <1>11. \/ \E p \in Procs :
              \/ hmdfs_file_open_remote(p) \/ OpenReply(p) \/ OpenStale(p) \/ OpenFails(p)
              \/ hmdfs_file_release_remote(p) \/ ReopenClose(p)
              \/ ReopenReply(p) \/ ReopenStale(p) \/ ReopenFails(p)
              \/ hmdfs_remote_check_and_reopen(p) \/ ReopenBegin(p) \/ ReopenEnd(p) \/ Use(p)
         \/ UNCHANGED <<pc, ref, i_rwsem>>
    BY Zenon DEF Next, Reopen, ServerOpen, hmdfs_server_release, hmdfs_server_offline_notify,
       Disconnect, Reconnect, StashSetsNeedOpen, vars, inode, procs
  <1> QED
    BY <1>3, <1>4, <1>5, <1>6, <1>7, <1>8, <1>9, <1>10, <1>11, Zenon

(* The first state.                                                        *)
LEMMA InitC == Init => CInv
  <1> SUFFICES ASSUME Init PROVE CInv
    BY Zenon
  <1>1. pc \in [Procs -> PC] /\ Openers = {}
    BY Zenon DEF Init, Openers, PC
  <1> QED
    BY <1>1, FS_EmptySet, ProcAssumption, Zenon DEF Init, CInv, UsersCounted, Locked, None

(* However many processes open, close, read, write and reopen the file at  *)
(* once, info->ref and inode_lock stay exact: the last close, and no other *)
(* one, sends F_RELEASE, and whoever waits for the lock waits for a        *)
(* process whose request the server answers or the connection drops        *)
(* (hmdfs_file_open_remote, hmdfs_file_release_remote and                  *)
(* hmdfs_remote_file_reopen).                                              *)
THEOREM UsersSafe == Spec => []UsersCounted
  <1>1. CInv => UsersCounted
    BY Zenon DEF CInv
  <1> QED
    BY <1>1, InitC, NextCounted, PTL DEF Spec

-----------------------------------------------------------------------------
(* The file ids.                                                           *)

Pairs == Nat \X Nat

\* A file id the server has given out.
Old(f) == f \in Pairs /\ f[1] < next_id

TInv ==
  /\ need_open \in {"yes", "no"} /\ tried \in [Procs -> {"yes", "no"}]
  /\ tmp \in [Procs -> Pairs] /\ reply \in [Procs -> Pairs] /\ closes \subseteq Pairs
  /\ files \subseteq Nat \ {0} /\ next_id \in Nat \ {0} /\ fid_cookie \in Nat
  /\ Old(fid) /\ \A f \in closes : Old(f)
  /\ \A p \in Procs : Old(tmp[p]) /\ Old(reply[p])

(* info->ref is not 0 if somebody has the file open, and 1 if one has.     *)
LEMMA RefFacts ==
  ASSUME CInv
  PROVE  /\ \A p \in Openers : ref # 0
         /\ ref = 1 => \A p, q \in Openers : p = q
  <1>1. IsFiniteSet(Openers) /\ ref = Cardinality(Openers)
    BY ProcAssumption, FS_Subset, Zenon DEF Openers, CInv, UsersCounted
  <1>2. ASSUME NEW p \in Openers
        PROVE  ref # 0
    BY <1>1, <1>2, FS_EmptySet, Zenon
  <1>3. ASSUME ref = 1, NEW p \in Openers, NEW q \in Openers
        PROVE  p = q
    <2>1. PICK x : Openers = {x}
      BY <1>1, <1>3, FS_Singleton, Zenon
    <2> QED
      BY <2>1, Zenon
  <1> QED
    BY <1>2, <1>3, Zenon

(* A file id is its number and its version.                                *)
LEMMA PairEq ==
  ASSUME NEW f \in Pairs, NEW g \in Pairs, f[1] = g[1], f[2] = g[2]
  PROVE  f = g
  BY DEF Pairs

(* The first state.                                                        *)
LEMMA InitT == Init => TInv
  BY DEF Init, TInv, Old, Pairs, HMDFS_INODE_INVALID_FILE_ID

(* An open file gets the next number.                                      *)
LEMMA ServerOpenT ==
  ASSUME CInv, TInv, NEW p \in Procs, ServerOpen(p)
  PROVE  TInv'
  <1>1. /\ files' = files \cup {next_id} /\ next_id' = next_id + 1
        /\ reply' = [reply EXCEPT ![p] = <<next_id, fid_cookie>>]
        /\ UNCHANGED <<need_open, tried, tmp, closes, fid_cookie, fid>>
    BY Zenon DEF ServerOpen, inode, mail
  <1>2. <<next_id, fid_cookie>> \in Pairs /\ <<next_id, fid_cookie>>[1] = next_id
    BY Zenon DEF TInv, Pairs
  <1>3. \A f : Old(f) => Old(f)'
    BY <1>1 DEF TInv, Old, Pairs
  <1>4. <<next_id, fid_cookie>>[1] < next_id'
    BY <1>1, <1>2 DEF TInv
  <1>5. /\ reply' \in [Procs -> Pairs]
        /\ \A q \in Procs : reply'[q] = reply[q] \/ reply'[q] = <<next_id, fid_cookie>>
    BY <1>1, <1>2, Zenon DEF TInv
  <1>6. Old(fid)' /\ (\A f \in closes : Old(f))' /\ \A q \in Procs : Old(tmp[q])' /\ Old(reply[q])'
    <2>1. Old(fid) /\ \A f \in closes : Old(f)
      BY Zenon DEF TInv
    <2>2. ASSUME NEW q \in Procs PROVE Old(tmp[q])' /\ Old(reply[q])'
      BY <1>1, <1>2, <1>3, <1>4, <1>5, <2>2, Zenon DEF TInv, Old
    <2> QED
      BY <1>1, <1>3, <2>1, <2>2, Zenon DEF Old
  <1> QED
    BY <1>1, <1>5, <1>6 DEF TInv

(* The other steps hand on file ids there are.                             *)
LEMMA OtherT ==
  ASSUME TInv, UNCHANGED next_id,
         need_open' \in {"yes", "no"}, tried' \in [Procs -> {"yes", "no"}],
         tmp' \in [Procs -> Pairs], reply' \in [Procs -> Pairs],
         files' \subseteq files, fid_cookie' \in Nat,
         \/ fid' = fid
         \/ \E q \in Procs : fid' = reply[q],
         closes' \subseteq closes \cup {fid} \cup {reply[q] : q \in Procs}
                                  \cup {tmp[q] : q \in Procs},
         \A q \in Procs : tmp'[q] \in {tmp[q], fid, HMDFS_INODE_INVALID_FILE_ID},
         \A q \in Procs : reply'[q] \in {reply[q], HMDFS_INODE_INVALID_FILE_ID}
  PROVE  TInv'
  <1>1. HMDFS_INODE_INVALID_FILE_ID \in Pairs /\ HMDFS_INODE_INVALID_FILE_ID[1] = 0
    BY Zenon DEF HMDFS_INODE_INVALID_FILE_ID, Pairs
  <1>2. Old(HMDFS_INODE_INVALID_FILE_ID)
    BY <1>1 DEF TInv, Old
  <1>3. \A f : Old(f) => f \in Pairs /\ f[1] < next_id'
    BY Zenon DEF Old
  <1>4. fid' \in Pairs /\ fid'[1] < next_id'
    BY <1>3, Zenon DEF TInv
  <1>5. \A f \in closes' : f \in Pairs /\ f[1] < next_id'
    <2> SUFFICES ASSUME NEW f \in closes' PROVE Old(f)
      BY <1>3, Zenon
    <2>1. CASE f \in closes \cup {fid}
      BY <2>1, Zenon DEF TInv
    <2>2. CASE f \in {reply[q] : q \in Procs} \cup {tmp[q] : q \in Procs}
      BY <2>2, Zenon DEF TInv
    <2> QED
      BY <2>1, <2>2, Zenon
  <1>6. \A q \in Procs : /\ tmp'[q] \in Pairs /\ tmp'[q][1] < next_id'
                         /\ reply'[q] \in Pairs /\ reply'[q][1] < next_id'
    <2> SUFFICES ASSUME NEW q \in Procs
                 PROVE  /\ tmp'[q] \in Pairs /\ tmp'[q][1] < next_id'
                        /\ reply'[q] \in Pairs /\ reply'[q][1] < next_id'
      BY Zenon
    <2>1. Old(tmp[q]) /\ Old(reply[q]) /\ Old(fid)
      BY Zenon DEF TInv
    <2> QED
      BY <1>2, <1>3, <2>1, Zenon
  <1> QED
    BY <1>4, <1>5, <1>6, Zenon DEF TInv, Old

LEMMA NextT ==
  ASSUME CInv, TInv, [Next]_vars
  PROVE  TInv'
  <1>0. HMDFS_INODE_INVALID_FILE_ID \in Pairs
    BY Zenon DEF HMDFS_INODE_INVALID_FILE_ID, Pairs
  <1>1. ASSUME NEW p \in Procs, hmdfs_file_open_remote(p) PROVE TInv'
    BY <1>0, <1>1, OtherT, Zenon DEF TInv, Old, hmdfs_file_open_remote, inode, procs, server,
       mail
  <1>2. ASSUME NEW p \in Procs, OpenReply(p) PROVE TInv'
    BY <1>0, <1>2, OtherT, Zenon DEF TInv, Old, OpenReply, inode, procs, server, mail
  <1>3. ASSUME NEW p \in Procs, OpenStale(p) PROVE TInv'
    BY <1>0, <1>3, OtherT, ZenonT(30) DEF TInv, Old, OpenStale, DropAnswer, hmdfs_send_close, inode,
       procs, server, mail
  <1>4. ASSUME NEW p \in Procs, OpenFails(p) PROVE TInv'
    BY <1>0, <1>4, OtherT, Zenon DEF TInv, Old, OpenFails, inode, procs, server, mail
  <1>5. ASSUME NEW p \in Procs, hmdfs_file_release_remote(p) PROVE TInv'
    BY <1>0, <1>5, OtherT, Zenon DEF TInv, Old, hmdfs_file_release_remote, hmdfs_send_close,
       inode, procs, server, mail
  <1>6. ASSUME NEW p \in Procs, hmdfs_remote_check_and_reopen(p) PROVE TInv'
    BY <1>0, <1>6, OtherT, Zenon DEF TInv, Old, hmdfs_remote_check_and_reopen, inode, procs,
       server, mail
  <1>7. ASSUME NEW p \in Procs, ReopenBegin(p) PROVE TInv'
    BY <1>0, <1>7, OtherT, Zenon DEF TInv, Old, ReopenBegin, inode, procs, server, mail
  <1>8. ASSUME NEW p \in Procs, ReopenClose(p) PROVE TInv'
    BY <1>0, <1>8, OtherT, Zenon DEF TInv, Old, ReopenClose, hmdfs_send_close, inode, procs,
       server, mail
  <1>9. ASSUME NEW p \in Procs, ReopenReply(p) PROVE TInv'
    BY <1>0, <1>9, OtherT, Zenon DEF TInv, Old, ReopenReply, inode, procs, server, mail
  <1>10. ASSUME NEW p \in Procs, ReopenStale(p) PROVE TInv'
    BY <1>0, <1>10, OtherT, ZenonT(30) DEF TInv, Old, ReopenStale, DropAnswer,
       hmdfs_send_close, inode, procs, server, mail
  <1>11. ASSUME NEW p \in Procs, ReopenFails(p) PROVE TInv'
    BY <1>0, <1>11, OtherT, Zenon DEF TInv, Old, ReopenFails, inode, procs, server, mail
  <1>12. ASSUME NEW p \in Procs, ReopenEnd(p) PROVE TInv'
    BY <1>0, <1>12, OtherT, Zenon DEF TInv, Old, ReopenEnd, inode, procs, server, mail
  <1>13. ASSUME NEW p \in Procs, ReadSend(p) PROVE TInv'
    BY <1>0, <1>13, OtherT, Zenon DEF TInv, Old, ReadSend, inode, procs, server, mail
  <1>14. ASSUME NEW p \in Procs, ReadOk(p) PROVE TInv'
    BY <1>0, <1>14, OtherT, Zenon DEF TInv, Old, ReadOk, Done, inode, procs, server, mail
  <1>15. ASSUME NEW p \in Procs, ReadFails(p) PROVE TInv'
    BY <1>0, <1>15, OtherT, Zenon DEF TInv, Old, ReadFails, inode, procs, server, mail
  <1>16. ASSUME NEW p \in Procs, WriteSend(p) PROVE TInv'
    BY <1>0, <1>16, OtherT, Zenon DEF TInv, Old, WriteSend, inode, procs, server, mail
  <1>17. ASSUME NEW p \in Procs, hmdfs_writepage_cb(p) PROVE TInv'
    BY <1>0, <1>17, OtherT, Zenon DEF TInv, Old, hmdfs_writepage_cb, Done, inode, procs,
       server, mail
  <1>18. ASSUME NEW p \in Procs, Return(p) PROVE TInv'
    BY <1>0, <1>18, OtherT, Zenon DEF TInv, Old, Return, Done, inode, procs, server, mail
  <1>19. ASSUME NEW p \in Procs, ServerOpen(p) PROVE TInv'
    BY <1>19, ServerOpenT, Zenon
  <1>20. ASSUME NEW f \in closes, hmdfs_server_release(f) PROVE TInv'
    BY <1>20, OtherT, Zenon DEF TInv, hmdfs_server_release, inode, procs
  <1>21. CASE hmdfs_server_offline_notify
    BY <1>0, <1>21, OtherT DEF TInv, hmdfs_server_offline_notify, inode
  <1>22. CASE Disconnect
    BY <1>0, <1>22, OtherT, Zenon DEF TInv, Disconnect, inode
  <1>23. CASE Reconnect
    BY <1>0, <1>23, OtherT, Zenon DEF TInv, Reconnect, inode, procs, server, mail
  <1>24. CASE StashSetsNeedOpen
    BY <1>0, <1>24, OtherT, Zenon DEF TInv, StashSetsNeedOpen, procs, server, mail
  <1>25. CASE UNCHANGED vars
    BY <1>0, <1>25, OtherT, Zenon DEF TInv, vars, inode, procs, server, mail
  <1> QED
    BY <1>1, <1>2, <1>3, <1>4, <1>5, <1>6, <1>7, <1>8, <1>9, <1>10, <1>11,
       <1>12, <1>13, <1>14, <1>15, <1>16, <1>17, <1>18, <1>19, <1>20, <1>21, <1>22,
       <1>23, <1>24, <1>25, ZenonT(30), Zenon DEF Next, Reopen, Use

-----------------------------------------------------------------------------
(* Every open file is known to somebody who will close it.                 *)

Closed(f) == f \in closes \cup orphans

\* While nobody has the file open the close of its id is on its way; so is
\* that of the id a process found when it began to reopen.
Kept ==
  s_stale = "no" =>
    /\ \A f \in Pairs : Valid(f) => f \in Known \cup orphans
    /\ ref = 0 /\ Valid(fid) => Closed(fid)
    /\ \A p \in Procs : pc[p] = "reopening" /\ Valid(tmp[p]) => Closed(tmp[p])

KInv == s_stale \in {"yes", "no"} /\ Kept

\* The file ids processes are about to close.
Relocked == {tmp[p] : p \in {q \in Procs : pc[q] = "relock"}}

(* Steps that leave the server's files alone: no file id is dropped.       *)
LEMMA SameFilesK ==
  ASSUME KInv, UNCHANGED <<files, fid_cookie, s_stale>>,
         \A f \in Pairs : Valid(f) /\ s_stale = "no" /\ f \in Known => f \in Known' \cup orphans',
         closes \subseteq closes', orphans \subseteq orphans',
         s_stale = "no" /\ ref' = 0 /\ Valid(fid') => Closed(fid)',
         \A p \in Procs : pc'[p] = "reopening" =>
           \/ pc[p] = "reopening" /\ tmp'[p] = tmp[p]
           \/ Closed(tmp[p])'
  PROVE  KInv'
  <1>1. \A f : Valid(f)' <=> Valid(f)
    BY Zenon DEF Valid
  <1>2. \A f : Closed(f) => f \in closes' \cup orphans'
    BY Zenon DEF Closed
  <1>3. ASSUME s_stale = "no" PROVE Kept'
    <2>1. \A f \in Pairs : Valid(f)' => f \in Known' \cup orphans'
      BY <1>1, <1>3, Zenon DEF KInv, Kept
    <2>2. ref' = 0 /\ Valid(fid)' => Closed(fid)'
      BY <1>3, Zenon DEF Valid
    <2>3. ASSUME NEW p \in Procs, pc'[p] = "reopening", Valid(tmp[p])' PROVE Closed(tmp[p])'
      <3>1. CASE pc[p] = "reopening" /\ tmp'[p] = tmp[p]
        BY <1>1, <1>2, <1>3, <2>3, <3>1, Zenon DEF KInv, Kept, Valid, Closed
      <3> QED
        BY <2>3, <3>1, Zenon
    <2> QED
      BY <2>1, <2>2, <2>3, Zenon DEF Kept
  <1> QED
    BY <1>3, Zenon DEF KInv, Kept

(* Steps that neither change a file id nor send a message.                 *)
LEMMA QuietK ==
  ASSUME KInv, UNCHANGED <<fid, closes, orphans, reply, files, fid_cookie, s_stale>>,
         ref' = 0 => ref = 0,
         \A q \in Procs :
           /\ pc[q] = "relock" => pc'[q] = "relock" /\ tmp'[q] = tmp[q]
           /\ pc'[q] = "reopening" => pc[q] = "reopening" /\ tmp'[q] = tmp[q]
  PROVE  KInv'
  <1>1. \A f \in Known : f \in Known'
    BY Zenon DEF Known
  <1>2. s_stale = "no" /\ ref' = 0 /\ Valid(fid') => Closed(fid)'
    BY Zenon DEF KInv, Kept, Valid, Closed
  <1> QED
    BY <1>1, <1>2, SameFilesK, Zenon

(* A close is sent, or cannot be sent.                                     *)
LEMMA SendClose ==
  ASSUME NEW f, hmdfs_send_close(f)
  PROVE  f \in closes' \cup orphans' /\ closes \subseteq closes' /\ orphans \subseteq orphans'
  BY Zenon DEF hmdfs_send_close

(* The first open is answered: the file id it overwrites was closed.       *)
LEMMA OpenReplyK ==
  ASSUME CInv, TInv, KInv, NEW p \in Procs, OpenReply(p)
  PROVE  KInv'
  <1>1. /\ pc[p] = "opening" /\ ref = 0 /\ ref' = 1 /\ fid' = reply[p]
        /\ UNCHANGED <<closes, orphans, files, fid_cookie, s_stale, tmp>>
        /\ \A q \in Procs \ {p} : reply'[q] = reply[q] /\ pc'[q] = pc[q]
        /\ pc'[p] = "open"
    BY Zenon DEF CInv, UsersCounted, TInv, OpenReply, Go, server, mail
  <1>2. ASSUME NEW f \in Pairs, Valid(f), s_stale = "no", f \in Known PROVE f \in Known' \cup orphans'
    <2>1. CASE f = fid
      BY <1>1, <1>2, <2>1, Zenon DEF KInv, Kept, Closed, Known
    <2>2. CASE f # fid
      BY <1>1, <1>2, <2>2, Zenon DEF Known
    <2> QED
      BY <2>1, <2>2, Zenon
  <1>3. \A q \in Procs : pc'[q] = "reopening" => pc[q] = "reopening" /\ tmp'[q] = tmp[q]
    BY <1>1, Zenon
  <1>4. ref' # 0
    BY <1>1
  <1> QED
    BY <1>1, <1>2, <1>3, <1>4, SameFilesK, Zenon

(* An answer that is no use: its file is closed or left open.              *)
LEMMA StaleK ==
  ASSUME CInv, TInv, KInv, NEW p \in Procs, OpenStale(p) \/ ReopenStale(p)
  PROVE  KInv'
  <1>1. /\ pc[p] \in {"opening", "reopening"} /\ DropAnswer(p)
        /\ UNCHANGED <<fid, ref, files, fid_cookie, s_stale>>
        /\ \A q \in Procs \ {p} : reply'[q] = reply[q] /\ pc'[q] = pc[q] /\ tmp'[q] = tmp[q]
        /\ pc'[p] \in {"closed", "reopen_err"}
    BY ZenonT(30) DEF CInv, TInv, OpenStale, ReopenStale, Go, server
  <1>2. reply[p] \in closes' \cup orphans' /\ closes \subseteq closes' /\ orphans \subseteq orphans'
    BY <1>1, SendClose, Zenon DEF DropAnswer
  <1>3. ASSUME NEW f \in Known PROVE f \in Known' \cup orphans'
    <2>1. CASE f = reply[p]
      BY <1>2, <2>1, Zenon DEF Known
    <2>2. CASE f # reply[p]
      BY <1>1, <1>2, <1>3, <2>2, Zenon DEF Known
    <2> QED
      BY <2>1, <2>2, Zenon
  <1>4. \A q \in Procs : pc'[q] = "reopening" => pc[q] = "reopening" /\ tmp'[q] = tmp[q]
    BY <1>1, Zenon
  <1>5. s_stale = "no" /\ ref' = 0 /\ Valid(fid') => Closed(fid)'
    BY <1>1, <1>2, Zenon DEF KInv, Kept, Valid, Closed
  <1> QED
    BY <1>1, <1>2, <1>3, <1>4, <1>5, SameFilesK, Zenon

(* The last close.                                                         *)
LEMMA Hmdfs_file_release_remoteK ==
  ASSUME CInv, TInv, KInv, NEW p \in Procs, hmdfs_file_release_remote(p)
  PROVE  KInv'
  <1>1. /\ pc[p] = "open" /\ ref' = ref - 1 /\ ref \in Nat
        /\ ref = 1 => hmdfs_send_close(fid)
        /\ ref # 1 => UNCHANGED <<closes, orphans>>
        /\ UNCHANGED <<fid, reply, tmp, files, fid_cookie, s_stale>>
        /\ \A q \in Procs \ {p} : pc'[q] = pc[q]
        /\ pc'[p] = "closed"
    BY ProcAssumption, FS_Subset, FS_CardinalityType, Zenon DEF CInv, UsersCounted, Openers,
       TInv, hmdfs_file_release_remote, Go, server, mail
  <1>2. ref = 1 => Closed(fid)'
    BY <1>1, SendClose, Zenon DEF Closed
  <1>3. closes \subseteq closes' /\ orphans \subseteq orphans'
    BY <1>1, SendClose, Zenon
  <1>4. \A f \in Known : f \in Known'
    BY <1>1, <1>3, Zenon DEF Known
  <1>5. ref' = 0 => ref = 1
    BY <1>1
  <1>6. \A q \in Procs : pc'[q] = "reopening" => pc[q] = "reopening" /\ tmp'[q] = tmp[q]
    BY <1>1, Zenon
  <1> QED
    BY <1>1, <1>2, <1>3, <1>4, <1>5, <1>6, SameFilesK, Zenon

(* A reopen closes the file id it found.                                   *)
LEMMA ReopenCloseK ==
  ASSUME CInv, TInv, KInv, NEW p \in Procs, ReopenClose(p)
  PROVE  KInv'
  <1>1. /\ pc[p] = "relock" /\ hmdfs_send_close(tmp[p])
        /\ UNCHANGED <<fid, ref, reply, tmp, files, fid_cookie, s_stale>>
        /\ \A q \in Procs \ {p} : pc'[q] = pc[q]
        /\ pc'[p] = "reopening"
    BY Zenon DEF CInv, ReopenClose, Go, server
  <1>2. Closed(tmp[p])' /\ closes \subseteq closes' /\ orphans \subseteq orphans'
    BY <1>1, SendClose, Zenon DEF Closed
  <1>3. ASSUME NEW f \in Known PROVE f \in Known' \cup orphans'
    <2>1. CASE f = tmp[p]
      BY <1>1, <1>2, <2>1, Zenon DEF Closed, Known
    <2>2. CASE f # tmp[p]
      BY <1>1, <1>2, <1>3, <2>2, Zenon DEF Known
    <2> QED
      BY <2>1, <2>2, Zenon
  <1>4. \A q \in Procs : pc'[q] = "reopening" =>
          \/ pc[q] = "reopening" /\ tmp'[q] = tmp[q]
          \/ Closed(tmp[q])'
    BY <1>1, <1>2, Zenon
  <1>5. s_stale = "no" /\ ref' = 0 /\ Valid(fid') => Closed(fid)'
    BY <1>1, <1>2, Zenon DEF KInv, Kept, Valid, Closed
  <1> QED
    BY <1>1, <1>2, <1>3, <1>4, <1>5, SameFilesK, Zenon

(* A reopen overwrites the file id: it was closed, or somebody is about to *)
(* close it, or it is an orphan.                                           *)
LEMMA ReopenReplyK ==
  ASSUME CInv, TInv, KInv, NEW p \in Procs, ReopenReply(p)
  PROVE  KInv'
  <1>1. /\ pc[p] = "reopening" /\ fid' = reply[p]
        /\ fid \in {tmp[p]} \cup Relocked \cup orphans'
        /\ orphans \subseteq orphans'
        /\ UNCHANGED <<ref, closes, files, fid_cookie, s_stale>>
        /\ \A q \in Procs \ {p} : reply'[q] = reply[q] /\ pc'[q] = pc[q] /\ tmp'[q] = tmp[q]
        /\ pc'[p] = "reopened"
    BY Zenon DEF CInv, TInv, ReopenReply, Relocked, Go, server
  <1>2. ref # 0
    BY <1>1, RefFacts, Zenon DEF Openers
  <1>3. Relocked \subseteq Relocked'
    BY <1>1, Zenon DEF Relocked
  <1>4. ASSUME NEW f \in Pairs, Valid(f), s_stale = "no", f \in Known PROVE f \in Known' \cup orphans'
    <2>1. CASE f = tmp[p]
      BY <1>1, <1>4, <2>1, Zenon DEF KInv, Kept, Closed, Known
    <2>2. CASE f \in Relocked
      BY <1>3, <2>2, Zenon DEF Relocked, Known
    <2>3. CASE f = fid
      BY <1>1, <2>1, <2>2, <2>3, Zenon
    <2>4. CASE f \in closes
      BY <1>1, <2>4, Zenon DEF Known
    <2>5. CASE f \in {reply[q] : q \in Procs}
      BY <1>1, <2>5, Zenon DEF Known
    <2> QED
      BY <1>4, <2>2, <2>3, <2>4, <2>5, Zenon DEF Known, Relocked
  <1>5. \A q \in Procs : pc'[q] = "reopening" => pc[q] = "reopening" /\ tmp'[q] = tmp[q]
    BY <1>1, Zenon
  <1> QED
    BY <1>1, <1>2, <1>4, <1>5, SameFilesK, Zenon

(* A file is opened at the server, and the answer is on its way.           *)
LEMMA ServerOpenK ==
  ASSUME CInv, TInv, KInv, NEW p \in Procs, ServerOpen(p)
  PROVE  KInv'
  <1>1. /\ files' = files \cup {next_id} /\ reply[p] = HMDFS_INODE_INVALID_FILE_ID
        /\ reply'[p] = <<next_id, fid_cookie>>
        /\ \A q \in Procs \ {p} : reply'[q] = reply[q]
        /\ UNCHANGED <<fid, ref, pc, tmp, closes, orphans, fid_cookie, s_stale>>
    BY Zenon DEF TInv, ServerOpen, inode, mail
  <1>2. ASSUME NEW f \in Pairs, Valid(f)' PROVE Valid(f) \/ f = <<next_id, fid_cookie>>
    BY <1>1, <1>2 DEF Valid, Pairs
  <1>3. ASSUME NEW f, Old(f), Valid(f)' PROVE Valid(f)
    BY <1>1, <1>3 DEF TInv, Old, Valid, Pairs
  <1>4. ~Valid(reply[p])
    BY <1>1 DEF TInv, Valid, HMDFS_INODE_INVALID_FILE_ID
  <1>5. \A f \in Known : f # reply[p] => f \in Known'
    BY <1>1, Zenon DEF Known
  <1>6. ASSUME s_stale = "no" PROVE Kept'
    <2>1. \A f \in Pairs : Valid(f)' => f \in Known' \cup orphans'
      <3>1. <<next_id, fid_cookie>> \in Known'
        BY <1>1, Zenon DEF Known
      <3> QED
        BY <1>1, <1>2, <1>4, <1>5, <1>6, <3>1, Zenon DEF KInv, Kept
    <2>2. ref' = 0 /\ Valid(fid)' => Closed(fid)'
      <3>1. Valid(fid)' => Valid(fid)
        BY <1>1, <1>3, Zenon DEF TInv, Valid
      <3> QED
        BY <1>1, <1>6, <3>1, Zenon DEF KInv, Kept, Closed
    <2>3. ASSUME NEW q \in Procs, pc'[q] = "reopening", Valid(tmp[q])' PROVE Closed(tmp[q])'
      <3>1. Valid(tmp[q])
        BY <1>1, <1>3, <2>3, Zenon DEF TInv, Valid
      <3> QED
        BY <1>1, <1>6, <2>3, <3>1, Zenon DEF KInv, Kept, Closed
    <2> QED
      BY <2>1, <2>2, <2>3, Zenon DEF Kept
  <1> QED
    BY <1>1, <1>6, Zenon DEF KInv, Kept

(* A close arrives.                                                        *)
LEMMA Hmdfs_server_releaseK ==
  ASSUME TInv, KInv, NEW f \in closes, hmdfs_server_release(f)
  PROVE  KInv'
  <1>1. /\ closes' = closes \ {f} /\ files' = IF Valid(f) THEN files \ {f[1]} ELSE files
        /\ UNCHANGED <<fid, ref, pc, tmp, reply, orphans, fid_cookie, s_stale>>
    BY Zenon DEF hmdfs_server_release, inode, procs
  <1>2. \A g : Valid(g)' => Valid(g)
    BY <1>1, Zenon DEF Valid
  <1>3. ~Valid(f)'
    BY <1>1, Zenon DEF Valid
  <1>4. \A g \in Known : g # f => g \in Known'
    BY <1>1, Zenon DEF Known
  <1>5. \A g : Closed(g) /\ g # f => g \in closes' \cup orphans'
    BY <1>1, Zenon DEF Closed
  <1>6. ASSUME s_stale = "no" PROVE Kept'
    <2>1. \A g \in Pairs : Valid(g)' => g \in Known' \cup orphans'
      BY <1>1, <1>2, <1>3, <1>4, <1>6, Zenon DEF KInv, Kept
    <2>2. ref' = 0 /\ Valid(fid)' => Closed(fid)'
      <3>1. Valid(fid)' => Valid(fid) /\ fid # f
        BY <1>1, <1>3, Zenon DEF Valid
      <3> QED
        BY <1>1, <1>5, <1>6, <3>1, Zenon DEF KInv, Kept, Closed
    <2>3. ASSUME NEW q \in Procs, pc'[q] = "reopening", Valid(tmp[q])' PROVE Closed(tmp[q])'
      <3>1. Valid(tmp[q]) /\ tmp[q] # f
        BY <1>1, <1>3, <2>3, Zenon DEF Valid
      <3> QED
        BY <1>1, <1>5, <1>6, <2>3, <3>1, Zenon DEF KInv, Kept, Closed
    <2> QED
      BY <2>1, <2>2, <2>3, Zenon DEF Kept
  <1> QED
    BY <1>1, <1>6, Zenon DEF KInv, Kept

(* The connection breaks: what is lost with it is an orphan, unless the    *)
(* server is told.                                                         *)
LEMMA DisconnectK ==
  ASSUME KInv, Disconnect
  PROVE  KInv'
  <1>1. CASE s_stale' # "no"
    BY <1>1, Zenon DEF KInv, Kept, Disconnect
  <1>2. CASE s_stale' = "no"
    <2>1. /\ s_stale = "no" /\ orphans' = orphans \cup closes \cup {reply[p] : p \in Procs}
          /\ UNCHANGED <<fid, ref, pc, tmp, files, fid_cookie>>
      BY <1>2, Zenon DEF Disconnect, inode
    <2>2. \A f \in Known : f \in Known' \cup orphans'
      BY <2>1, Zenon DEF Known
    <2>3. \A f : Closed(f) => f \in orphans'
      BY <2>1, Zenon DEF Closed
    <2> QED
      BY <1>2, <2>1, <2>2, <2>3, Zenon DEF KInv, Kept, Valid, Closed
  <1> QED
    BY <1>1, <1>2, Zenon

(* The server closes all files.                                            *)
LEMMA Hmdfs_server_offline_notifyK ==
  ASSUME KInv, hmdfs_server_offline_notify
  PROVE  KInv'
  BY Zenon DEF KInv, Kept, Valid, hmdfs_server_offline_notify

LEMMA NextK ==
  ASSUME CInv, TInv, KInv, [Next]_vars
  PROVE  KInv'
  <1>1. ASSUME NEW p \in Procs,
               \/ hmdfs_remote_check_and_reopen(p) \/ ReopenBegin(p)
               \/ ReopenFails(p) \/ ReopenEnd(p) \/ Use(p)
        PROVE  KInv'
    <2>1. UNCHANGED <<fid, ref, closes, orphans, reply, files, fid_cookie, s_stale>>
      BY <1>1, Zenon DEF hmdfs_remote_check_and_reopen, ReopenBegin, ReopenFails, ReopenEnd,
         Use, ReadSend, ReadOk, ReadFails, WriteSend, hmdfs_writepage_cb, Return, inode,
         server, mail
    <2>2. /\ pc[p] # "relock" /\ pc'[p] # "reopening"
          /\ \A q \in Procs \ {p} : pc'[q] = pc[q] /\ tmp'[q] = tmp[q]
      BY <1>1, ZenonT(30) DEF CInv, TInv, hmdfs_remote_check_and_reopen, ReopenBegin,
         ReopenFails, ReopenEnd, Use, ReadSend, ReadOk, ReadFails, WriteSend,
         hmdfs_writepage_cb, Return, Done, Go, GoOp
    <2> QED
      BY <2>1, <2>2, QuietK, Zenon
  <1>2. ASSUME NEW p \in Procs, hmdfs_file_open_remote(p) \/ OpenFails(p) PROVE KInv'
    <2>1. UNCHANGED <<fid, closes, orphans, reply, files, fid_cookie, s_stale, tmp>>
      BY <1>2, Zenon DEF hmdfs_file_open_remote, OpenFails, server, mail
    <2>2. /\ pc[p] # "relock" /\ pc'[p] # "reopening"
          /\ \A q \in Procs \ {p} : pc'[q] = pc[q] /\ tmp'[q] = tmp[q]
      BY <1>2, Zenon DEF CInv, TInv, hmdfs_file_open_remote, OpenFails, Go
    <2>3. ref' = ref \/ ref' = ref + 1
      BY <1>2, Zenon DEF hmdfs_file_open_remote, OpenFails
    <2>4. ref \in Nat
      BY ProcAssumption, FS_Subset, FS_CardinalityType, Zenon DEF CInv, UsersCounted, Openers
    <2>5. ref' = 0 => ref = 0
      BY <2>3, <2>4
    <2> QED
      BY <2>1, <2>2, <2>5, QuietK, Zenon
  <1>3. ASSUME NEW p \in Procs,
               \/ OpenReply(p) \/ OpenStale(p) \/ ReopenStale(p) \/ hmdfs_file_release_remote(p)
               \/ ReopenClose(p) \/ ReopenReply(p) \/ ServerOpen(p)
        PROVE  KInv'
    BY <1>3, OpenReplyK, StaleK, Hmdfs_file_release_remoteK, ReopenCloseK, ReopenReplyK,
       ServerOpenK, Zenon
  <1>4. ASSUME NEW f \in closes, hmdfs_server_release(f) PROVE KInv'
    BY <1>4, Hmdfs_server_releaseK, Zenon
  <1>5. CASE hmdfs_server_offline_notify \/ Disconnect
    BY <1>5, Hmdfs_server_offline_notifyK, DisconnectK, Zenon
  <1>6. CASE Reconnect \/ StashSetsNeedOpen \/ UNCHANGED vars
    <2>1. UNCHANGED <<fid, ref, closes, orphans, reply, files, fid_cookie, s_stale, pc, tmp>>
      BY <1>6, Zenon DEF Reconnect, StashSetsNeedOpen, vars, inode, procs, server, mail
    <2> QED
      BY <2>1, QuietK, Zenon
  <1> QED
    BY <1>1, <1>2, <1>3, <1>4, <1>5, <1>6, ZenonT(30) DEF Next, Reopen

(* However many processes open, close and reopen the file at once, every   *)
(* file the server keeps open for the client is one the client will close, *)
(* but for the ids in orphans: those overwritten by a reopen that began    *)
(* before they were fetched, and those whose answer was late or lost with  *)
(* a connection that was replaced, or whose close was                      *)
(* (hmdfs_remote_file_reopen, hmdfs_do_close_remote and                    *)
(* hmdfs_server_offline_notify).                                           *)
THEOREM FidsSafe == Spec => []NoLeak
  <1>1. Init => KInv
    <2> SUFFICES ASSUME Init PROVE KInv
      BY Zenon
    <2>1. files = {} /\ s_stale = "no"
      BY Zenon DEF Init
    <2> QED
      BY <2>1, Zenon DEF KInv, Kept, Valid
  <1>2. TInv /\ KInv => NoLeak
    <2> SUFFICES ASSUME TInv, KInv, s_stale # "yes", NEW i \in files
                 PROVE  <<i, fid_cookie>> \in Known \cup orphans
      BY Zenon DEF NoLeak
    <2>1. <<i, fid_cookie>> \in Pairs /\ Valid(<<i, fid_cookie>>)
      BY Zenon DEF TInv, Pairs, Valid
    <2> QED
      BY <2>1, Zenon DEF KInv, Kept
  <1> QED
    BY <1>1, <1>2, InitC, NextCounted, InitT, NextT, NextK, PTL DEF Spec

-----------------------------------------------------------------------------
(* A read that nothing interfered with.                                    *)

\* A file id that is open at the server, with no close on its way.
Good(f) == f \in Pairs /\ Valid(f) /\ f \notin closes

\* A read on its second try that nothing interfered with.
Second(p) == p \notin disturbed /\ tried[p] = "yes"

\* The second try finds NEED_OPEN set, reopens the file, and uses the file
\* id it got, which nobody closes before another process reopens.
Reader(p) ==
  /\ pc[p] \in {"failed", "reopen_err"} => p \in disturbed
  /\ p \in lost => /\ pc[p] \in {"opening", "reopening", "reading", "writing"}
                   /\ pc[p] = "reading" => p \in disturbed
                   /\ reply[p] = HMDFS_INODE_INVALID_FILE_ID
  /\ reply[p] # HMDFS_INODE_INVALID_FILE_ID => pc[p] \in Locked
  /\ Second(p) =>
       /\ pc[p] \in {"reopen", "relock", "reopening", "reopened"} => need_open = "yes"
       /\ pc[p] = "reopening" =>
            reply[p] = HMDFS_INODE_INVALID_FILE_ID \/ Good(reply[p])
       /\ pc[p] \in {"reopened", "read"} => Good(fid)
       /\ pc[p] = "reading" => Good(tmp[p])
       /\ pc[p] \in {"reopened", "read", "reading"} => \A q \in Procs : pc[q] # "reopening"

RInv == \A p \in Procs : Reader(p)

\* A step leaves alone what a second try depends on.
Peaceful(q) ==
  \/ q \in disturbed'
  \/ tried[q] = "no"
  \/ pc[q] \in {"closed", "open", "opening", "failed", "reopen_err", "write", "writing"}
  \/ /\ need_open' \in {need_open, "yes"}
     /\ pc[q] \in {"reopened", "read"} => fid' = fid
     /\ \A f \in Pairs : Good(f) => f \notin closes' /\ f[1] \in files'
     /\ fid_cookie' = fid_cookie
     /\ pc[q] \in {"reopened", "read", "reading"} => \A r \in Procs : pc'[r] # "reopening"

(* A step leaves the processes as they should be that it does not touch.   *)
LEMMA OtherR ==
  ASSUME TInv, NEW q \in Procs, Reader(q), Peaceful(q),
         pc'[q] = pc[q], tmp'[q] = tmp[q], tried'[q] = tried[q], reply'[q] = reply[q],
         q \in disturbed => q \in disturbed', q \in lost' => q \in lost
  PROVE  Reader(q)'
  <1>1. /\ pc'[q] \in {"failed", "reopen_err"} => q \in disturbed'
        /\ q \in lost' => /\ pc'[q] \in {"opening", "reopening", "reading", "writing"}
                          /\ pc'[q] = "reading" => q \in disturbed'
                          /\ reply'[q] = HMDFS_INODE_INVALID_FILE_ID
        /\ reply'[q] # HMDFS_INODE_INVALID_FILE_ID => pc'[q] \in Locked
    BY Zenon DEF Reader
  <1>2. ASSUME Second(q)'
        PROVE  /\ pc'[q] \in {"reopen", "relock", "reopening", "reopened"} => need_open' = "yes"
               /\ pc'[q] = "reopening" =>
                    reply'[q] = HMDFS_INODE_INVALID_FILE_ID \/ Good(reply[q])'
               /\ pc'[q] \in {"reopened", "read"} => Good(fid)'
               /\ pc'[q] = "reading" => Good(tmp[q])'
               /\ pc'[q] \in {"reopened", "read", "reading"} =>
                    \A r \in Procs : pc'[r] # "reopening"
    <2>1. Second(q) /\ tried[q] = "yes" /\ q \notin disturbed'
      BY <1>2, Zenon DEF Second
    <2>2. CASE pc[q] \in {"closed", "open", "opening", "failed", "reopen_err", "write", "writing"}
      BY <2>2, Zenon
    <2>3. CASE /\ need_open' \in {need_open, "yes"}
               /\ pc[q] \in {"reopened", "read"} => fid' = fid
               /\ \A f \in Pairs : Good(f) => f \notin closes' /\ f[1] \in files'
               /\ fid_cookie' = fid_cookie
               /\ pc[q] \in {"reopened", "read", "reading"} => \A r \in Procs : pc'[r] # "reopening"
      <3>1. \A f : Good(f) => f \in Pairs /\ f[2] = fid_cookie' /\ f[1] \in files' /\ f \notin closes'
        BY <2>3, Zenon DEF Good, Valid
      <3>2. /\ pc[q] \in {"reopened", "read"} => Good(fid)'
            /\ pc[q] = "reading" => Good(tmp[q])'
            /\ pc[q] = "reopening" =>
                 reply'[q] = HMDFS_INODE_INVALID_FILE_ID \/ Good(reply[q])'
        BY <2>1, <2>3, <3>1, Zenon DEF Reader, Good, Valid
      <3> QED
        BY <2>1, <2>3, <3>2, Zenon DEF Reader
    <2> QED
      BY <2>1, <2>2, <2>3, Zenon DEF Peaceful
  <1> QED
    BY <1>1, <1>2, Zenon DEF Reader

(* A process in the middle of an operation has the file open.              *)
LEMMA HasOpen ==
  ASSUME CInv, NEW q \in Procs, pc[q] \notin {"closed", "opening"}
  PROVE  ref # 0
  BY RefFacts, Zenon DEF Openers

(* Steps of a process that touch neither the inode's file id, nor the      *)
(* server, nor a message.                                                  *)
LEMMA QuietR ==
  ASSUME CInv, TInv, RInv, NEW p \in Procs, Reader(p)',
         UNCHANGED <<fid, closes, files, fid_cookie, reply>>,
         need_open' \in {need_open, "yes"}, pc'[p] # "reopening",
         \A q \in Procs \ {p} : /\ pc'[q] = pc[q] /\ tmp'[q] = tmp[q] /\ tried'[q] = tried[q]
                                /\ q \in disturbed => q \in disturbed'
                                /\ q \in lost' => q \in lost
  PROVE  RInv'
  <1>1. ASSUME NEW q \in Procs \ {p} PROVE Reader(q)'
    <2>1. Peaceful(q)
      <3>1. tried[q] # "yes" => tried[q] = "no"
        BY Zenon DEF TInv
      <3>2. q \notin disturbed' /\ tried[q] = "yes" => Second(q)
        BY <1>1, Zenon DEF Second
      <3>3. Reader(q)
        BY Zenon DEF RInv
      <3>4. \A f \in Pairs : Good(f) => f \notin closes' /\ f[1] \in files'
        BY Zenon DEF Good, Valid
      <3>5. Second(q) /\ pc[q] \in {"reopened", "read", "reading"} =>
              \A r \in Procs : pc'[r] # "reopening"
        BY <3>3, Zenon DEF Reader
      <3> QED
        BY <3>1, <3>2, <3>4, <3>5, Zenon DEF Peaceful
    <2> QED
      BY <1>1, <2>1, OtherR, Zenon DEF RInv
  <1> QED
    BY <1>1, Zenon DEF RInv

(* A process opens the file.                                               *)
LEMMA Hmdfs_file_open_remoteR ==
  ASSUME CInv, TInv, RInv, NEW p \in Procs, hmdfs_file_open_remote(p)
  PROVE  RInv'
  <1>1. Reader(p)
    BY Zenon DEF RInv
  <1>2. /\ UNCHANGED <<fid, closes, files, fid_cookie, reply>>
        /\ need_open' \in {need_open, "yes"} /\ pc'[p] # "reopening"
        /\ \A q \in Procs \ {p} : /\ pc'[q] = pc[q] /\ tmp'[q] = tmp[q] /\ tried'[q] = tried[q]
                                  /\ q \in disturbed => q \in disturbed'
                                  /\ q \in lost' => q \in lost
    BY Zenon DEF CInv, TInv, hmdfs_file_open_remote, Go, GoOp, inode, server, mail
  <1>3. Reader(p)'
    BY <1>1, <1>2, ZenonT(30) DEF CInv, TInv, Reader, Second, Good, Valid, Locked,
       hmdfs_file_open_remote, Go, GoOp, inode, server, mail
  <1> QED
    BY <1>2, <1>3, QuietR, Zenon

(* The first open fails.                                                   *)
LEMMA OpenFailsR ==
  ASSUME CInv, TInv, RInv, NEW p \in Procs, OpenFails(p)
  PROVE  RInv'
  <1>1. Reader(p)
    BY Zenon DEF RInv
  <1>2. /\ UNCHANGED <<fid, closes, files, fid_cookie, reply>>
        /\ need_open' \in {need_open, "yes"} /\ pc'[p] # "reopening"
        /\ \A q \in Procs \ {p} : /\ pc'[q] = pc[q] /\ tmp'[q] = tmp[q] /\ tried'[q] = tried[q]
                                  /\ q \in disturbed => q \in disturbed'
                                  /\ q \in lost' => q \in lost
    BY Zenon DEF CInv, TInv, OpenFails, NoAnswer, Go, GoOp, inode, server, mail
  <1>3. Reader(p)'
    BY <1>1, <1>2, Zenon DEF CInv, TInv, Reader, Second, Good, Valid, Locked, OpenFails,
       NoAnswer, Go, GoOp, inode, server, mail
  <1> QED
    BY <1>2, <1>3, QuietR, Zenon

(* An operation begins.                                                    *)
LEMMA Hmdfs_remote_check_and_reopenR ==
  ASSUME CInv, TInv, RInv, NEW p \in Procs, hmdfs_remote_check_and_reopen(p)
  PROVE  RInv'
  <1>1. Reader(p)
    BY Zenon DEF RInv
  <1>2. /\ UNCHANGED <<fid, closes, files, fid_cookie, reply>>
        /\ need_open' \in {need_open, "yes"} /\ pc'[p] # "reopening"
        /\ \A q \in Procs \ {p} : /\ pc'[q] = pc[q] /\ tmp'[q] = tmp[q] /\ tried'[q] = tried[q]
                                  /\ q \in disturbed => q \in disturbed'
                                  /\ q \in lost' => q \in lost
    BY Zenon DEF CInv, TInv, hmdfs_remote_check_and_reopen, Go, GoOp, inode, server, mail
  <1>3. Reader(p)'
    BY <1>1, <1>2, ZenonT(30) DEF CInv, TInv, Reader, Second, Good, Valid, Locked,
       hmdfs_remote_check_and_reopen, Go, GoOp, inode, server, mail
  <1> QED
    BY <1>2, <1>3, QuietR, Zenon

(* A reopen begins.                                                        *)
LEMMA ReopenBeginR ==
  ASSUME CInv, TInv, RInv, NEW p \in Procs, ReopenBegin(p)
  PROVE  RInv'
  <1>1. Reader(p)
    BY Zenon DEF RInv
  <1>2. /\ UNCHANGED <<fid, closes, files, fid_cookie, reply>>
        /\ need_open' \in {need_open, "yes"} /\ pc'[p] # "reopening"
        /\ \A q \in Procs \ {p} : /\ pc'[q] = pc[q] /\ tmp'[q] = tmp[q] /\ tried'[q] = tried[q]
                                  /\ q \in disturbed => q \in disturbed'
                                  /\ q \in lost' => q \in lost
    BY Zenon DEF CInv, TInv, ReopenBegin, Go, GoOp, inode, server, mail
  <1>3. Reader(p)'
    BY <1>1, <1>2, ZenonT(30) DEF CInv, TInv, Reader, Second, Good, Valid, Locked,
       ReopenBegin, Go, GoOp, inode, server, mail
  <1> QED
    BY <1>2, <1>3, QuietR, Zenon

(* A reopen fails.                                                         *)
LEMMA ReopenFailsR ==
  ASSUME CInv, TInv, RInv, NEW p \in Procs, ReopenFails(p)
  PROVE  RInv'
  <1>1. Reader(p)
    BY Zenon DEF RInv
  <1>2. /\ UNCHANGED <<fid, closes, files, fid_cookie, reply>>
        /\ need_open' \in {need_open, "yes"} /\ pc'[p] # "reopening"
        /\ \A q \in Procs \ {p} : /\ pc'[q] = pc[q] /\ tmp'[q] = tmp[q] /\ tried'[q] = tried[q]
                                  /\ q \in disturbed => q \in disturbed'
                                  /\ q \in lost' => q \in lost
    BY Zenon DEF CInv, TInv, ReopenFails, NoAnswer, Go, GoOp, inode, server, mail
  <1>3. Reader(p)'
    BY <1>1, <1>2, Zenon DEF CInv, TInv, Reader, Second, Good, Valid, Locked, ReopenFails,
       NoAnswer, Go, GoOp, inode, server, mail
  <1> QED
    BY <1>2, <1>3, QuietR, Zenon

(* A page is asked for.                                                    *)
LEMMA ReadSendR ==
  ASSUME CInv, TInv, RInv, NEW p \in Procs, ReadSend(p)
  PROVE  RInv'
  <1>1. Reader(p)
    BY Zenon DEF RInv
  <1>2. /\ UNCHANGED <<fid, closes, files, fid_cookie, reply>>
        /\ need_open' \in {need_open, "yes"} /\ pc'[p] # "reopening"
        /\ \A q \in Procs \ {p} : /\ pc'[q] = pc[q] /\ tmp'[q] = tmp[q] /\ tried'[q] = tried[q]
                                  /\ q \in disturbed => q \in disturbed'
                                  /\ q \in lost' => q \in lost
    BY Zenon DEF CInv, TInv, ReadSend, Go, GoOp, inode, server, mail
  <1>3. Reader(p)'
    BY <1>1, <1>2, Zenon DEF CInv, TInv, Reader, Second, Good, Valid, Locked, ReadSend, Go,
       GoOp, inode, server, mail
  <1> QED
    BY <1>2, <1>3, QuietR, Zenon

(* A page is read.                                                         *)
LEMMA ReadOkR ==
  ASSUME CInv, TInv, RInv, NEW p \in Procs, ReadOk(p)
  PROVE  RInv'
  <1>1. Reader(p)
    BY Zenon DEF RInv
  <1>2. /\ UNCHANGED <<fid, closes, files, fid_cookie, reply>>
        /\ need_open' \in {need_open, "yes"} /\ pc'[p] # "reopening"
        /\ \A q \in Procs \ {p} : /\ pc'[q] = pc[q] /\ tmp'[q] = tmp[q] /\ tried'[q] = tried[q]
                                  /\ q \in disturbed => q \in disturbed'
                                  /\ q \in lost' => q \in lost
    BY Zenon DEF CInv, TInv, ReadOk, Done, Go, GoOp, inode, server, mail
  <1>3. Reader(p)'
    BY <1>1, <1>2, Zenon DEF CInv, TInv, Reader, Second, Good, Valid, Locked, ReadOk, Done,
       Go, GoOp, inode, server, mail
  <1> QED
    BY <1>2, <1>3, QuietR, Zenon

(* A page cannot be read.                                                  *)
LEMMA ReadFailsR ==
  ASSUME CInv, TInv, RInv, NEW p \in Procs, ReadFails(p)
  PROVE  RInv'
  <1>1. Reader(p)
    BY Zenon DEF RInv
  <1>2. /\ UNCHANGED <<fid, closes, files, fid_cookie, reply>>
        /\ need_open' \in {need_open, "yes"} /\ pc'[p] # "reopening"
        /\ \A q \in Procs \ {p} : /\ pc'[q] = pc[q] /\ tmp'[q] = tmp[q] /\ tried'[q] = tried[q]
                                  /\ q \in disturbed => q \in disturbed'
                                  /\ q \in lost' => q \in lost
    BY Zenon DEF CInv, TInv, ReadFails, Go, GoOp, inode, server, mail
  <1>3. Reader(p)'
    BY <1>1, <1>2, Zenon DEF CInv, TInv, Reader, Second, Good, Valid, Locked, ReadFails, Go,
       GoOp, inode, server, mail
  <1> QED
    BY <1>2, <1>3, QuietR, Zenon

(* A page is written.                                                      *)
LEMMA WriteSendR ==
  ASSUME CInv, TInv, RInv, NEW p \in Procs, WriteSend(p)
  PROVE  RInv'
  <1>1. Reader(p)
    BY Zenon DEF RInv
  <1>2. /\ UNCHANGED <<fid, closes, files, fid_cookie, reply>>
        /\ need_open' \in {need_open, "yes"} /\ pc'[p] # "reopening"
        /\ \A q \in Procs \ {p} : /\ pc'[q] = pc[q] /\ tmp'[q] = tmp[q] /\ tried'[q] = tried[q]
                                  /\ q \in disturbed => q \in disturbed'
                                  /\ q \in lost' => q \in lost
    BY Zenon DEF CInv, TInv, WriteSend, Go, GoOp, inode, server, mail
  <1>3. Reader(p)'
    BY <1>1, <1>2, Zenon DEF CInv, TInv, Reader, Second, Good, Valid, Locked, WriteSend, Go,
       GoOp, inode, server, mail
  <1> QED
    BY <1>2, <1>3, QuietR, Zenon

(* The write of a page ends.                                               *)
LEMMA Hmdfs_writepage_cbR ==
  ASSUME CInv, TInv, RInv, NEW p \in Procs, hmdfs_writepage_cb(p)
  PROVE  RInv'
  <1>1. Reader(p)
    BY Zenon DEF RInv
  <1>2. /\ UNCHANGED <<fid, closes, files, fid_cookie, reply>>
        /\ need_open' \in {need_open, "yes"} /\ pc'[p] # "reopening"
        /\ \A q \in Procs \ {p} : /\ pc'[q] = pc[q] /\ tmp'[q] = tmp[q] /\ tried'[q] = tried[q]
                                  /\ q \in disturbed => q \in disturbed'
                                  /\ q \in lost' => q \in lost
    BY Zenon DEF CInv, TInv, hmdfs_writepage_cb, Done, Go, GoOp, inode, server, mail
  <1>3. Reader(p)'
    BY <1>1, <1>2, Zenon DEF CInv, TInv, Reader, Second, Good, Valid, Locked,
       hmdfs_writepage_cb, Done, Go, GoOp, inode, server, mail
  <1> QED
    BY <1>2, <1>3, QuietR, Zenon

(* An operation returns with an error.                                     *)
LEMMA ReturnR ==
  ASSUME CInv, TInv, RInv, NEW p \in Procs, Return(p)
  PROVE  RInv'
  <1>1. Reader(p)
    BY Zenon DEF RInv
  <1>2. /\ UNCHANGED <<fid, closes, files, fid_cookie, reply>>
        /\ need_open' \in {need_open, "yes"} /\ pc'[p] # "reopening"
        /\ \A q \in Procs \ {p} : /\ pc'[q] = pc[q] /\ tmp'[q] = tmp[q] /\ tried'[q] = tried[q]
                                  /\ q \in disturbed => q \in disturbed'
                                  /\ q \in lost' => q \in lost
    BY Zenon DEF CInv, TInv, Return, Done, Go, GoOp, inode, server, mail
  <1>3. Reader(p)'
    BY <1>1, <1>2, Zenon DEF CInv, TInv, Reader, Second, Good, Valid, Locked, Return, Done,
       Go, GoOp, inode, server, mail
  <1> QED
    BY <1>2, <1>3, QuietR, Zenon

(* A reopen ends: it may clear NEED_OPEN, and disturbs every second try.   *)
LEMMA ReopenEndR ==
  ASSUME CInv, TInv, RInv, NEW p \in Procs, ReopenEnd(p)
  PROVE  RInv'
  <1>1. Reader(p)
    BY Zenon DEF RInv
  <1>2. /\ UNCHANGED <<fid, closes, files, fid_cookie, reply, lost, tmp, tried>>
        /\ pc[p] \in {"reopened", "reopen_err"} /\ pc'[p] \in {"read", "write", "failed"}
        /\ pc'[p] = "failed" => pc[p] = "reopen_err"
        /\ \A q \in Procs \ {p} : pc'[q] = pc[q]
        /\ disturbed' = disturbed \cup {q \in InUse \ {p} : tried[q] = "yes"}
    BY Zenon DEF CInv, ReopenEnd, Disturbs, Go, GoOp, server, mail
  <1>3. Reader(p)'
    BY <1>1, <1>2, Zenon DEF Reader, Second, Good, Valid, Locked
  <1>4. ASSUME NEW q \in Procs \ {p} PROVE Reader(q)'
    <2>1. Peaceful(q)
      BY <1>2, <1>4, Zenon DEF TInv, Peaceful, InUse
    <2> QED
      BY <1>2, <1>4, <2>1, OtherR, Zenon DEF RInv
  <1> QED
    BY <1>3, <1>4, Zenon DEF RInv

(* A reopen closes the file id it found, and disturbs every second try.    *)
LEMMA ReopenCloseR ==
  ASSUME CInv, TInv, RInv, NEW p \in Procs, ReopenClose(p)
  PROVE  RInv'
  <1>1. Reader(p)
    BY Zenon DEF RInv
  <1>2. /\ UNCHANGED <<fid, need_open, files, fid_cookie, reply, lost, tmp, tried>>
        /\ pc[p] = "relock" /\ pc'[p] = "reopening"
        /\ \A q \in Procs \ {p} : pc'[q] = pc[q]
        /\ disturbed' = disturbed \cup {q \in InUse \ {p} : tried[q] = "yes"}
    BY Zenon DEF CInv, ReopenClose, Disturbs, Go, server
  <1>3. Reader(p)'
    BY <1>1, <1>2, Zenon DEF Reader, Second, Locked
  <1>4. ASSUME NEW q \in Procs \ {p} PROVE Reader(q)'
    <2>1. Peaceful(q)
      BY <1>2, <1>4, Zenon DEF TInv, Peaceful, InUse
    <2> QED
      BY <1>2, <1>4, <2>1, OtherR, Zenon DEF RInv
  <1> QED
    BY <1>3, <1>4, Zenon DEF RInv

(* No second try is past its reopen while another process has inode_lock.  *)
LEMMA NonePast ==
  ASSUME RInv, NEW p \in Procs, pc[p] = "reopening", NEW q \in Procs, Second(q)
  PROVE  pc[q] \notin {"reopened", "read", "reading"}
  BY Zenon DEF RInv, Reader

(* Nor is another process waiting for the answer to its open.              *)
LEMMA OneLocked ==
  ASSUME CInv, NEW p \in Procs, pc[p] \in Locked, NEW q \in Procs, q # p
  PROVE  pc[q] \notin Locked
  BY Zenon DEF CInv, UsersCounted

(* A reopen gets its file id.                                              *)
LEMMA ReopenReplyR ==
  ASSUME CInv, TInv, RInv, NEW p \in Procs, ReopenReply(p)
  PROVE  RInv'
  <1>1. Reader(p)
    BY Zenon DEF RInv
  <1>2. /\ UNCHANGED <<need_open, closes, files, fid_cookie, lost, tried, disturbed>>
        /\ pc[p] = "reopening" /\ pc'[p] = "reopened" /\ p \notin lost'
        /\ fid' = reply[p] /\ reply[p] # HMDFS_INODE_INVALID_FILE_ID
        /\ reply'[p] = HMDFS_INODE_INVALID_FILE_ID
        /\ \A q \in Procs \ {p} : pc'[q] = pc[q] /\ reply'[q] = reply[q] /\ tmp'[q] = tmp[q]
    BY <1>1, Zenon DEF CInv, TInv, ReopenReply, Go, server, Reader
  <1>3. \A q \in Procs : pc'[q] # "reopening"
    BY <1>2, OneLocked, Zenon DEF Locked
  <1>4. Reader(p)'
    BY <1>1, <1>2, <1>3, Zenon DEF Reader, Second, Good, Valid, Locked
  <1>5. ASSUME NEW q \in Procs \ {p} PROVE Reader(q)'
    <2>1. Peaceful(q)
      <3>1. Second(q) \/ q \in disturbed' \/ tried[q] = "no"
        BY <1>2, <1>5, Zenon DEF TInv, Second
      <3>2. Second(q) => pc[q] \notin {"reopened", "read", "reading"}
        BY <1>2, <1>5, NonePast, Zenon
      <3> QED
        BY <1>2, <1>3, <3>1, <3>2, Zenon DEF Peaceful, Good, Valid
    <2> QED
      BY <1>2, <1>5, <2>1, OtherR, Zenon DEF RInv
  <1> QED
    BY <1>4, <1>5, Zenon DEF RInv

(* A reopen finds another inode: it closes the file id it got.             *)
LEMMA ReopenStaleR ==
  ASSUME CInv, TInv, RInv, NEW p \in Procs, ReopenStale(p)
  PROVE  RInv'
  <1>1. Reader(p)
    BY Zenon DEF RInv
  <1>2. /\ UNCHANGED <<fid, need_open, files, fid_cookie, lost, tried>>
        /\ disturbed' = disturbed \cup {p}
        /\ pc[p] = "reopening" /\ pc'[p] = "reopen_err"
        /\ reply'[p] = HMDFS_INODE_INVALID_FILE_ID
        /\ \A q \in Procs \ {p} : pc'[q] = pc[q] /\ reply'[q] = reply[q] /\ tmp'[q] = tmp[q]
    BY <1>1, Zenon DEF CInv, TInv, ReopenStale, Go, server, Reader
  <1>3. p \notin lost
    BY <1>1, Zenon DEF Reader, ReopenStale
  <1>4. Reader(p)'
    BY <1>1, <1>2, <1>3, Zenon DEF Reader, Second
  <1>5. ASSUME NEW q \in Procs \ {p} PROVE Reader(q)'
    <2>1. Second(q) \/ q \in disturbed' \/ tried[q] = "no"
      BY <1>2, <1>5, Zenon DEF TInv, Second
    <2>2. Second(q) => pc[q] \notin {"reopened", "read", "reading", "reopening", "opening"}
      BY <1>2, <1>5, NonePast, OneLocked, Zenon DEF Locked
    <2> QED
      BY <1>2, <1>5, <2>1, <2>2, Zenon DEF RInv, Reader, Second
  <1> QED
    BY <1>4, <1>5, Zenon DEF RInv

(* The first open is answered, and nobody has the file open yet.           *)
LEMMA OpenReplyR ==
  ASSUME CInv, TInv, RInv, NEW p \in Procs, OpenReply(p) \/ OpenStale(p)
  PROVE  RInv'
  <1>1. Reader(p)
    BY Zenon DEF RInv
  <1>2. /\ UNCHANGED <<need_open, files, fid_cookie, lost, tmp, tried, disturbed>>
        /\ pc[p] = "opening" /\ pc'[p] \in {"open", "closed"}
        /\ reply'[p] = HMDFS_INODE_INVALID_FILE_ID
        /\ \A q \in Procs \ {p} : pc'[q] = pc[q] /\ reply'[q] = reply[q]
    BY Zenon DEF CInv, TInv, OpenReply, OpenStale, Go, server
  <1>3. p \notin lost
    BY <1>1, Zenon DEF Reader, OpenReply, OpenStale
  <1>4. \A q \in Procs : pc[q] \in {"closed", "opening"}
    BY <1>2, HasOpen, Zenon DEF CInv, UsersCounted
  <1>5. Reader(p)'
    BY <1>2, <1>3, Zenon DEF Reader
  <1>6. ASSUME NEW q \in Procs \ {p} PROVE Reader(q)'
    <2>1. Peaceful(q)
      BY <1>4, <1>6, Zenon DEF Peaceful
    <2> QED
      BY <1>2, <1>6, <2>1, OtherR, Zenon DEF RInv
  <1> QED
    BY <1>5, <1>6, Zenon DEF RInv

(* A process closes the file: the last one closes its id.                  *)
LEMMA Hmdfs_file_release_remoteR ==
  ASSUME CInv, TInv, RInv, NEW p \in Procs, hmdfs_file_release_remote(p)
  PROVE  RInv'
  <1>1. Reader(p)
    BY Zenon DEF RInv
  <1>2. /\ UNCHANGED <<fid, need_open, files, fid_cookie, lost, tmp, tried, disturbed, reply>>
        /\ pc[p] = "open" /\ pc'[p] = "closed"
        /\ ref # 1 => closes' = closes
        /\ \A q \in Procs \ {p} : pc'[q] = pc[q]
    BY Zenon DEF CInv, TInv, hmdfs_file_release_remote, Go, server, mail
  <1>3. Reader(p)'
    BY <1>1, <1>2, Zenon DEF Reader, Locked
  <1>4. ASSUME NEW q \in Procs \ {p} PROVE Reader(q)'
    <2>1. Peaceful(q)
      <3>1. CASE ref = 1
        BY <1>2, <1>4, <3>1, RefFacts, Zenon DEF Openers, Peaceful
      <3>2. CASE ref # 1
        <4>1. Second(q) \/ q \in disturbed' \/ tried[q] = "no"
          BY <1>2, <1>4, Zenon DEF TInv, Second
        <4>2. Second(q) /\ pc[q] \in {"reopened", "read", "reading"} =>
                \A r \in Procs : pc'[r] # "reopening"
          BY <1>2, <1>4, Zenon DEF RInv, Reader
        <4>3. \A f \in Pairs : Good(f) => f \notin closes' /\ f[1] \in files'
          BY <1>2, <3>2, Zenon DEF Good, Valid
        <4> QED
          BY <1>2, <4>1, <4>2, <4>3, Zenon DEF Peaceful
      <3> QED
        BY <3>1, <3>2, Zenon
    <2> QED
      BY <1>2, <1>4, <2>1, OtherR, Zenon DEF RInv
  <1> QED
    BY <1>3, <1>4, Zenon DEF RInv

(* The server opens a file: its id is new.                                 *)
LEMMA ServerOpenR ==
  ASSUME CInv, TInv, RInv, NEW p \in Procs, ServerOpen(p)
  PROVE  RInv'
  <1>1. Reader(p)
    BY Zenon DEF RInv
  <1>2. /\ UNCHANGED <<fid, need_open, closes, fid_cookie, lost, tmp, tried, disturbed, pc>>
        /\ pc[p] \in {"opening", "reopening"} /\ p \notin lost
        /\ files' = files \cup {next_id} /\ reply'[p] = <<next_id, fid_cookie>>
        /\ \A q \in Procs \ {p} : reply'[q] = reply[q]
    BY Zenon DEF TInv, ServerOpen, inode, mail
  <1>3. Good(reply[p])'
    <2>1. <<next_id, fid_cookie>> \in Pairs /\ <<next_id, fid_cookie>>[1] = next_id
          /\ <<next_id, fid_cookie>>[2] = fid_cookie
      BY Zenon DEF TInv, Pairs
    <2>2. <<next_id, fid_cookie>> \notin closes
      BY DEF TInv, Old
    <2> QED
      BY <1>2, <2>1, <2>2, Zenon DEF Good, Valid
  <1>4. Reader(p)'
    BY <1>1, <1>2, <1>3, Zenon DEF Reader, Second, Good, Valid, Locked
  <1>5. ASSUME NEW q \in Procs \ {p} PROVE Reader(q)'
    <2>1. Peaceful(q)
      <3>1. Second(q) \/ q \in disturbed' \/ tried[q] = "no"
        BY <1>2, <1>5, Zenon DEF TInv, Second
      <3>2. Second(q) /\ pc[q] \in {"reopened", "read", "reading"} =>
              \A r \in Procs : pc'[r] # "reopening"
        BY <1>2, <1>5, Zenon DEF RInv, Reader
      <3>3. \A f \in Pairs : Good(f) => f \notin closes' /\ f[1] \in files'
        BY <1>2, Zenon DEF Good, Valid
      <3> QED
        BY <1>2, <3>1, <3>2, <3>3, Zenon DEF Peaceful
    <2> QED
      BY <1>2, <1>5, <2>1, OtherR, Zenon DEF RInv
  <1> QED
    BY <1>4, <1>5, Zenon DEF RInv

(* A close arrives.                                                        *)
LEMMA Hmdfs_server_releaseR ==
  ASSUME CInv, TInv, RInv, NEW f \in closes, hmdfs_server_release(f)
  PROVE  RInv'
  <1>1. /\ UNCHANGED <<fid, need_open, fid_cookie, lost, tmp, tried, disturbed, pc, reply>>
        /\ closes' = closes \ {f} /\ files' = IF Valid(f) THEN files \ {f[1]} ELSE files
    BY Zenon DEF hmdfs_server_release, inode, procs
  <1>2. ASSUME NEW g \in Pairs, Good(g) PROVE g \notin closes' /\ g[1] \in files'
    <2>1. g # f /\ g[1] \in files /\ g[2] = fid_cookie /\ f \in Pairs /\ g \notin closes'
      BY <1>1, <1>2, Zenon DEF TInv, Good, Valid
    <2>2. Valid(f) => g[1] # f[1]
      BY <1>2, <2>1, PairEq, Zenon DEF Valid
    <2> QED
      BY <1>1, <2>1, <2>2, Zenon
  <1>3. ASSUME NEW q \in Procs PROVE Reader(q)'
    <2>1. Peaceful(q)
      <3>1. Second(q) \/ q \in disturbed' \/ tried[q] = "no"
        BY <1>1, <1>3, Zenon DEF TInv, Second
      <3>2. Second(q) /\ pc[q] \in {"reopened", "read", "reading"} =>
              \A r \in Procs : pc'[r] # "reopening"
        BY <1>1, <1>3, Zenon DEF RInv, Reader
      <3> QED
        BY <1>1, <1>2, <3>1, <3>2, Zenon DEF Peaceful
    <2> QED
      BY <1>1, <1>3, <2>1, OtherR, Zenon DEF RInv
  <1> QED
    BY <1>3, Zenon DEF RInv

(* An interruption disturbs every operation under way.                     *)
LEMMA InterruptedR ==
  ASSUME CInv, TInv, RInv, hmdfs_server_offline_notify \/ Disconnect
  PROVE  RInv'
  <1>1. /\ UNCHANGED <<pc, tried>> /\ disturbed' = InUse
        /\ \A q \in Procs : q \in lost' =>
             \/ q \in lost /\ reply'[q] = reply[q]
             \/ /\ pc[q] \in {"opening", "reopening", "reading", "writing"}
                /\ reply'[q] = HMDFS_INODE_INVALID_FILE_ID
        /\ \A q \in Procs : reply'[q] \in {reply[q], HMDFS_INODE_INVALID_FILE_ID}
    <2>1. CASE hmdfs_server_offline_notify
      BY <2>1, Zenon DEF hmdfs_server_offline_notify
    <2>2. CASE Disconnect
      BY <2>2, Zenon DEF TInv, RInv, Reader, Disconnect
    <2> QED
      BY <2>1, <2>2, Zenon
  <1>2. ASSUME NEW q \in Procs PROVE Reader(q)'
    <2>1. Reader(q)
      BY <1>2, Zenon DEF RInv
    <2> QED
      BY <1>1, <1>2, <2>1, Zenon DEF Reader, InUse, Second, Locked
  <1> QED
    BY <1>2, Zenon DEF RInv

(* The first state.                                                        *)
LEMMA InitR == Init => RInv
  BY Zenon DEF Init, RInv, Reader, Second

LEMMA NextR ==
  ASSUME CInv, TInv, RInv, [Next]_vars
  PROVE  RInv'
  <1>1. ASSUME NEW p \in Procs,
               \/ hmdfs_file_open_remote(p) \/ OpenReply(p) \/ OpenStale(p) \/ OpenFails(p)
               \/ hmdfs_file_release_remote(p) \/ hmdfs_remote_check_and_reopen(p)
               \/ ServerOpen(p)
        PROVE  RInv'
    BY <1>1, Hmdfs_file_open_remoteR, OpenReplyR, OpenFailsR, Hmdfs_file_release_remoteR,
       Hmdfs_remote_check_and_reopenR, ServerOpenR, ZenonT(30)
  <1>2. ASSUME NEW p \in Procs, Reopen(p) PROVE RInv'
    BY <1>2, ReopenBeginR, ReopenCloseR, ReopenReplyR, ReopenStaleR, ReopenFailsR, ReopenEndR,
       Zenon DEF Reopen
  <1>3. ASSUME NEW p \in Procs, Use(p) PROVE RInv'
    BY <1>3, ReadSendR, ReadOkR, ReadFailsR, WriteSendR, Hmdfs_writepage_cbR, ReturnR, Zenon
       DEF Use
  <1>4. ASSUME NEW f \in closes, hmdfs_server_release(f) PROVE RInv'
    BY <1>4, Hmdfs_server_releaseR, ZenonT(30)
  <1>5. CASE hmdfs_server_offline_notify \/ Disconnect
    BY <1>5, InterruptedR, Zenon
  <1>6. CASE Reconnect \/ StashSetsNeedOpen \/ UNCHANGED vars
    <2>1. /\ UNCHANGED <<fid, closes, files, fid_cookie, reply, pc, tmp, tried, disturbed, lost>>
          /\ need_open' \in {need_open, "yes"}
      BY <1>6, Zenon DEF Reconnect, StashSetsNeedOpen, vars, inode, procs, server, mail
    <2>2. ASSUME NEW q \in Procs PROVE Reader(q)'
      BY <2>1, <2>2, Zenon DEF RInv, Reader, Second, Good, Valid
    <2> QED
      BY <2>2, Zenon DEF RInv
  <1> QED
    BY <1>1, <1>2, <1>3, <1>4, <1>5, <1>6, Zenon DEF Next

(* However many processes use the file at once, a read does not fail that  *)
(* met neither an interruption nor a refused open nor, on its second try,  *)
(* the reopen of another process (hmdfs_file_read_iter_remote and          *)
(* hmdfs_remote_file_reopen).                                              *)
THEOREM ReadsSafe == Spec => []ReadSucceeds
  <1>1. RInv => ReadSucceeds
    BY ProcAssumption, Zenon DEF RInv, Reader, ReadSucceeds
  <1> QED
    BY <1>1, InitC, NextCounted, InitT, NextT, InitR, NextR, PTL DEF Spec

=============================================================================
