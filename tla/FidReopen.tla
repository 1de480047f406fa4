----------------------------- MODULE FidReopen -----------------------------
(***************************************************************************)
(* The file id under which a client keeps one remote inode open on the     *)
(* server: opening, closing, and reopening it when the server reports it   *)
(* stale.  (hmdfs/file_remote.c, hmdfs/hmdfs_client.c,                     *)
(* hmdfs/hmdfs_server.c)                                                   *)
(*                                                                         *)
(* A file id is <<id, ver>>; the server gives out ids in increasing order, *)
(* and its ver changes whenever the peer goes offline.  A close is sent    *)
(* and not waited for; an open is a request with an answer.                *)
(***************************************************************************)
EXTENDS Naturals, FiniteSets

CONSTANTS
  Procs,      \* processes that open the file
  Readers,    \* those that read
  Writers,    \* those that write
  MayRefuse,  \* TRUE: an open may be answered with an error, another inode or too late
  MaxId,      \* bound: file ids the server gives out
  MaxOffline  \* bound: disconnections

ASSUME ProcAssumption ==
  IsFiniteSet(Procs) /\ "none" \notin Procs /\ Readers \cup Writers \subseteq Procs
ASSUME BoundAssumption == MayRefuse \in BOOLEAN /\ MaxId \in Nat /\ MaxOffline \in Nat

VARIABLES
  fid, need_open, opening,  \* info->fid, HMDFS_FID_NEED_OPEN, HMDFS_FID_OPENING
  ref,                      \* info->ref
  i_rwsem,                  \* holder of inode_lock(), or None
  pc, tmp, tried,           \* the processes: place, local fid, read's second try
  reply,                    \* the server's answer to the open of a process
  lost,                     \* processes whose request was lost with the connection
  closes,                   \* F_RELEASE requests on their way
  files, next_id, fid_cookie,  \* the server: file_id_idr, its cursor, fid_cookie
  online, s_stale,          \* client: node online; server: offline event not yet handled
  offlines,                 \* number of disconnections so far
  disturbed,                \* history: processes whose operation was interfered with
  orphans                   \* history: file ids given up without a close that arrives

inode  == <<fid, need_open, opening, ref, i_rwsem>>
procs  == <<pc, tmp, tried, reply, lost, disturbed>>
server == <<files, next_id, fid_cookie, s_stale>>
mail   == <<closes, orphans>>
vars == <<inode, procs, server, mail, online, offlines>>

None == "none"
HMDFS_INODE_INVALID_FILE_ID == <<0, 0>>
Fids == (0..MaxId) \X (0..MaxOffline)
PC == {"closed", "open", "opening", "reopen", "relock", "reopening", "reopened", "reopen_err",
       "read", "reading", "write", "writing", "failed"}

Init ==
  /\ fid = HMDFS_INODE_INVALID_FILE_ID /\ need_open = "no" /\ opening = "no"
  /\ ref = 0 /\ i_rwsem = None
  /\ pc = [p \in Procs |-> "closed"] /\ tmp = [p \in Procs |-> HMDFS_INODE_INVALID_FILE_ID]
  /\ tried = [p \in Procs |-> "no"] /\ lost = {} /\ disturbed = {}
  /\ reply = [p \in Procs |-> HMDFS_INODE_INVALID_FILE_ID]
  /\ closes = {} /\ orphans = {} /\ files = {} /\ next_id = 1 /\ fid_cookie = 0
  /\ online = "yes" /\ s_stale = "no" /\ offlines = 0

Go(p, to) == pc' = [pc EXCEPT ![p] = to]

InUse == {p \in Procs : pc[p] \notin {"closed", "open", "opening"}}

-----------------------------------------------------------------------------
(* The server.                                                             *)

Valid(f) == f[2] = fid_cookie /\ f[1] \in files      \* get_file_by_fid_and_ver

(* hmdfs_server_open.                                                      *)
ServerOpen(p) ==
  /\ pc[p] \in {"opening", "reopening"} /\ online = "yes" /\ p \notin lost
  /\ reply[p] = HMDFS_INODE_INVALID_FILE_ID /\ next_id <= MaxId
  /\ files' = files \cup {next_id}
  /\ reply' = [reply EXCEPT ![p] = <<next_id, fid_cookie>>]
  /\ next_id' = next_id + 1
  /\ UNCHANGED <<inode, pc, tmp, tried, lost, disturbed, fid_cookie, s_stale, mail, online,
                 offlines>>

hmdfs_server_release(f) ==
  /\ f \in closes
  /\ closes' = closes \ {f}
  /\ files' = IF Valid(f) THEN files \ {f[1]} ELSE files
  /\ UNCHANGED <<inode, procs, next_id, fid_cookie, s_stale, orphans, online, offlines>>

(* After offline server close all files opened by client.                  *)
hmdfs_server_offline_notify ==
  /\ s_stale = "yes"
  /\ s_stale' = "no"
  /\ files' = {}
  /\ fid_cookie' = fid_cookie + 1
  /\ disturbed' = InUse /\ orphans' = {}
  /\ UNCHANGED <<inode, pc, tmp, tried, reply, lost, next_id, closes, online, offlines>>

-----------------------------------------------------------------------------
(* The connection breaks: what was on its way is lost.  The client's node  *)
(* goes off line, or shakes hands on a new connection; the server has an   *)
(* offline event to handle, or sees but a connection replaced by another.  *)
(* The connection comes back, perhaps before the event is handled.         *)

Disconnect ==
  /\ online = "yes" /\ s_stale = "no" /\ offlines < MaxOffline
  /\ online' \in {"no", "shaking"} /\ s_stale' \in {"yes", "no"} /\ offlines' = offlines + 1
  /\ closes' = {} /\ reply' = [p \in Procs |-> HMDFS_INODE_INVALID_FILE_ID]
  /\ orphans' = IF s_stale' = "yes" THEN orphans
                 ELSE orphans \cup closes \cup {reply[p] : p \in Procs}
  /\ lost' = lost \cup {p \in Procs : pc[p] \in {"opening", "reopening", "reading", "writing"}}
  /\ disturbed' = InUse
  /\ UNCHANGED <<inode, pc, tmp, tried, files, next_id, fid_cookie>>

Reconnect ==
  /\ online # "yes"
  /\ online' = "yes"
  /\ UNCHANGED <<inode, procs, server, mail, offlines>>

(* The client's offline handler marks a stashed inode for reopening.       *)
StashSetsNeedOpen ==
  /\ online = "no" /\ ref > 0
  /\ need_open' = "yes"
  /\ UNCHANGED <<fid, opening, ref, i_rwsem, procs, server, mail, online, offlines>>

(* The close is sent and not waited for, or cannot be sent.                *)
hmdfs_send_close(f) ==
  IF online = "yes" THEN closes' = closes \cup {f} /\ UNCHANGED orphans
  ELSE orphans' = orphans \cup {f} /\ UNCHANGED closes

-----------------------------------------------------------------------------
(* open() and close(), under inode_lock.                                   *)

hmdfs_file_open_remote(p) ==
  /\ pc[p] = "closed" /\ i_rwsem = None
  /\ IF ref = 0 THEN Go(p, "opening") /\ i_rwsem' = p /\ UNCHANGED ref
     ELSE Go(p, "open") /\ ref' = ref + 1 /\ UNCHANGED i_rwsem
  /\ UNCHANGED <<fid, need_open, opening, tmp, tried, reply, lost, disturbed, server, mail, online,
                 offlines>>

NoAnswer(p) ==
  /\ reply[p] = HMDFS_INODE_INVALID_FILE_ID
  /\ p \in lost \/ online # "yes" \/ MayRefuse

(* hmdfs_do_open_remote: the answer, or an error.                          *)
OpenReply(p) ==
  /\ pc[p] = "opening" /\ reply[p] # HMDFS_INODE_INVALID_FILE_ID
  /\ fid' = reply[p] /\ ref' = 1
  /\ reply' = [reply EXCEPT ![p] = HMDFS_INODE_INVALID_FILE_ID]
  /\ Go(p, "open") /\ i_rwsem' = None
  /\ UNCHANGED <<need_open, opening, tmp, tried, lost, disturbed, server, mail, online, offlines>>

(* The answer is no use.  The path leads to another inode by now, and the  *)
(* file is closed (hmdfs_open_final_remote); or the answer came after the  *)
(* timeout, and the file stays open.                                       *)
DropAnswer(p) ==
  \/ hmdfs_send_close(reply[p])
  \/ orphans' = orphans \cup {reply[p]} /\ UNCHANGED closes

OpenStale(p) ==
  /\ MayRefuse /\ pc[p] = "opening" /\ reply[p] # HMDFS_INODE_INVALID_FILE_ID
  /\ DropAnswer(p)
  /\ reply' = [reply EXCEPT ![p] = HMDFS_INODE_INVALID_FILE_ID]
  /\ Go(p, "closed") /\ i_rwsem' = None
  /\ UNCHANGED <<fid, need_open, opening, ref, tmp, tried, lost, disturbed, server, online,
                 offlines>>

OpenFails(p) ==
  /\ pc[p] = "opening" /\ NoAnswer(p)
  /\ Go(p, "closed") /\ i_rwsem' = None
  /\ lost' = lost \ {p}
  /\ UNCHANGED <<fid, need_open, opening, ref, tmp, tried, reply, disturbed, server, mail, online,
                 offlines>>

hmdfs_file_release_remote(p) ==
  /\ pc[p] = "open" /\ i_rwsem = None
  /\ Go(p, "closed")
  /\ ref' = ref - 1
  /\ IF ref = 1 THEN hmdfs_send_close(fid) ELSE UNCHANGED mail
  /\ UNCHANGED <<fid, need_open, opening, i_rwsem, tmp, tried, reply, lost, disturbed, server, online,
                 offlines>>

-----------------------------------------------------------------------------
(* hmdfs_remote_file_reopen.                                               *)

(* What follows the check: a read, or a write; only a read is tried twice. *)
GoOp(p, again) ==
  \/ p \in Readers /\ Go(p, "read")
  \/ p \in Writers /\ again = "no" /\ Go(p, "write")

hmdfs_remote_check_and_reopen(p) ==
  /\ pc[p] = "open" /\ p \in Readers \cup Writers
  /\ IF need_open = "yes" THEN Go(p, "reopen") ELSE GoOp(p, "no")
  /\ disturbed' = disturbed \ {p} /\ tried' = [tried EXCEPT ![p] = "no"]
  /\ UNCHANGED <<inode, tmp, reply, lost, server, mail, online, offlines>>

(* Under fid_lock.  hmdfs_remote_wait_opening_file waits until the file IS *)
(* being opened, a condition that is true at once whenever it waits.       *)
ReopenBegin(p) ==
  /\ pc[p] = "reopen"
  /\ \/ /\ online = "no" /\ Go(p, "failed")
        /\ disturbed' = disturbed \cup {p}
        /\ UNCHANGED <<opening, tmp>>
     \/ /\ online # "no" /\ need_open = "no"
        /\ GoOp(p, tried[p])
        /\ UNCHANGED <<opening, tmp, disturbed>>
     \/ /\ online # "no" /\ need_open = "yes"
        /\ opening' = "yes" /\ tmp' = [tmp EXCEPT ![p] = fid]
        /\ Go(p, "relock")
        /\ UNCHANGED disturbed
  /\ UNCHANGED <<fid, need_open, ref, i_rwsem, tried, reply, lost, server, mail, online, offlines>>

(* Another process that reads for the second time is at the mercy of what  *)
(* this one does.                                                          *)
Disturbs(p) == disturbed' = disturbed \cup {q \in InUse \ {p} : tried[q] = "yes"}

ReopenClose_NotSent(p) ==               \* mutant: the old file id is not closed
  /\ pc[p] = "relock" /\ i_rwsem = None
  /\ i_rwsem' = p /\ Go(p, "reopening")
  /\ Disturbs(p)
  /\ UNCHANGED <<fid, need_open, opening, ref, tmp, tried, reply, lost, server, mail, online,
                 offlines>>

ReopenClose(p) ==
  /\ pc[p] = "relock" /\ i_rwsem = None
  /\ i_rwsem' = p /\ Go(p, "reopening")
  /\ hmdfs_send_close(tmp[p])
  /\ Disturbs(p)
  /\ UNCHANGED <<fid, need_open, opening, ref, tmp, tried, reply, lost, server, online, offlines>>

(* The file id this overwrites may be another than the one closed, fetched *)
(* by a reopen in between.                                                 *)
ReopenReply(p) ==
  /\ pc[p] = "reopening" /\ reply[p] # HMDFS_INODE_INVALID_FILE_ID
  /\ fid' = reply[p]
  /\ orphans' = IF fid \in {tmp[q] : q \in {p} \cup {r \in Procs : pc[r] = "relock"}}
                 THEN orphans ELSE orphans \cup {fid}
  /\ reply' = [reply EXCEPT ![p] = HMDFS_INODE_INVALID_FILE_ID]
  /\ tmp' = [tmp EXCEPT ![p] = HMDFS_INODE_INVALID_FILE_ID]
  /\ Go(p, "reopened") /\ i_rwsem' = None
  /\ UNCHANGED <<need_open, opening, ref, tried, lost, disturbed, server, closes, online, offlines>>

(* The old file id stays.                                                  *)
ReopenStale(p) ==
  /\ MayRefuse /\ pc[p] = "reopening" /\ reply[p] # HMDFS_INODE_INVALID_FILE_ID
  /\ DropAnswer(p)
  /\ reply' = [reply EXCEPT ![p] = HMDFS_INODE_INVALID_FILE_ID]
  /\ tmp' = [tmp EXCEPT ![p] = HMDFS_INODE_INVALID_FILE_ID]
  /\ Go(p, "reopen_err") /\ i_rwsem' = None
  /\ disturbed' = disturbed \cup {p}
  /\ UNCHANGED <<fid, need_open, opening, ref, tried, lost, server, online, offlines>>

ReopenFails_KeepsLock(p) ==             \* mutant: inode_unlock skipped on the error path
  /\ pc[p] = "reopening" /\ NoAnswer(p)
  /\ Go(p, "reopen_err")
  /\ lost' = lost \ {p} /\ disturbed' = disturbed \cup {p}
  /\ UNCHANGED <<inode, tmp, tried, reply, server, mail, online, offlines>>

ReopenFails(p) ==
  /\ pc[p] = "reopening" /\ NoAnswer(p)
  /\ Go(p, "reopen_err") /\ i_rwsem' = None
  /\ tmp' = [tmp EXCEPT ![p] = HMDFS_INODE_INVALID_FILE_ID]
  /\ lost' = lost \ {p} /\ disturbed' = disturbed \cup {p}
  /\ UNCHANGED <<fid, need_open, opening, ref, tried, reply, server, mail, online, offlines>>

ReopenEnd(p) ==
  /\ pc[p] \in {"reopened", "reopen_err"}
  /\ need_open' = IF pc[p] = "reopened" THEN "no" ELSE need_open
  /\ opening' = "no"
  /\ IF pc[p] = "reopen_err" THEN Go(p, "failed") ELSE GoOp(p, tried[p])
  /\ Disturbs(p)
  /\ UNCHANGED <<fid, ref, i_rwsem, tmp, tried, reply, lost, server, mail, online, offlines>>

-----------------------------------------------------------------------------
(* hmdfs_file_read_iter_remote after the reopen: a page is read with the   *)
(* file id fetched now; -EBADF asks for a reopen and one more try.         *)

(* The operation returns, and its local variables are gone.                *)
Done(p) ==
  /\ Go(p, "open")
  /\ tmp' = [tmp EXCEPT ![p] = HMDFS_INODE_INVALID_FILE_ID]
  /\ tried' = [tried EXCEPT ![p] = "no"]
  /\ disturbed' = disturbed \ {p}

ReadSend(p) ==
  /\ pc[p] = "read"
  /\ tmp' = [tmp EXCEPT ![p] = fid] /\ Go(p, "reading")
  /\ lost' = IF online = "yes" THEN lost ELSE lost \cup {p}
  /\ disturbed' = IF online = "yes" THEN disturbed ELSE disturbed \cup {p}
  /\ UNCHANGED <<inode, tried, reply, server, mail, online, offlines>>

ReadOk(p) ==
  /\ pc[p] = "reading" /\ p \notin lost /\ online = "yes" /\ Valid(tmp[p])
  /\ Done(p)
  /\ UNCHANGED <<inode, reply, lost, server, mail, online, offlines>>

ReadFails_NoRetry(p) ==                 \* mutant: NEED_OPEN set, the read not repeated
  /\ pc[p] = "reading"
  /\ p \in lost \/ (online = "yes" /\ ~Valid(tmp[p]))
  /\ need_open' = IF p \in lost THEN need_open ELSE "yes"
  /\ Go(p, "failed")
  /\ lost' = lost \ {p}
  /\ UNCHANGED <<fid, opening, ref, i_rwsem, tmp, tried, reply, disturbed, server, mail, online,
                 offlines>>

(* hmdfs_client_recv_readpage.                                             *)
ReadFails(p) ==
  LET need == IF p \in lost THEN need_open ELSE "yes"
      again == tried[p] = "no" /\ need = "yes"
  IN /\ pc[p] = "reading"
     /\ p \in lost \/ (online = "yes" /\ ~Valid(tmp[p]))
     /\ need_open' = need
     /\ Go(p, IF again THEN "reopen" ELSE "failed")
     /\ tried' = IF again THEN [tried EXCEPT ![p] = "yes"] ELSE tried
     /\ lost' = lost \ {p}
     /\ UNCHANGED <<fid, opening, ref, i_rwsem, tmp, reply, disturbed, server, mail, online,
                    offlines>>

(* A page is written with the file id fetched now.  Its failure does not   *)
(* reach the writer, and -EBADF is an error like another: NEED_OPEN is not *)
(* set.                                                                    *)
WriteSend(p) ==
  /\ pc[p] = "write"
  /\ Go(p, "writing")
  /\ lost' = IF online = "yes" THEN lost ELSE lost \cup {p}
  /\ UNCHANGED <<inode, tmp, tried, reply, disturbed, server, mail, online, offlines>>

hmdfs_writepage_cb(p) ==
  /\ pc[p] = "writing" /\ (p \in lost \/ online = "yes")
  /\ Done(p)
  /\ lost' = lost \ {p}
  /\ UNCHANGED <<inode, reply, server, mail, online, offlines>>

Return(p) ==
  /\ pc[p] = "failed"
  /\ Done(p)
  /\ UNCHANGED <<inode, reply, lost, server, mail, online, offlines>>

-----------------------------------------------------------------------------
Reopen(p) ==
  \/ ReopenBegin(p) \/ ReopenClose(p) \/ ReopenReply(p) \/ ReopenStale(p) \/ ReopenFails(p)
  \/ ReopenEnd(p)
Use(p) ==
  \/ ReadSend(p) \/ ReadOk(p) \/ ReadFails(p)
  \/ WriteSend(p) \/ hmdfs_writepage_cb(p) \/ Return(p)

Next ==
  \/ \E p \in Procs :
       \/ hmdfs_file_open_remote(p) \/ OpenReply(p) \/ OpenStale(p) \/ OpenFails(p)
       \/ hmdfs_file_release_remote(p)
       \/ hmdfs_remote_check_and_reopen(p) \/ Reopen(p) \/ Use(p)
       \/ ServerOpen(p)
  \/ \E f \in closes : hmdfs_server_release(f)
  \/ hmdfs_server_offline_notify
  \/ Disconnect \/ Reconnect \/ StashSetsNeedOpen

Spec == Init /\ [][Next]_vars

(* Processes in the kernel run and are handed inode_lock in turn; the      *)
(* server works, and an interrupted connection comes back.                 *)
Fairness ==
  /\ \A p \in Procs : /\ SF_vars(Reopen(p)) /\ WF_vars(Use(p)) /\ WF_vars(ServerOpen(p))
                      /\ WF_vars(OpenReply(p) \/ OpenStale(p) \/ OpenFails(p))
  /\ WF_vars(Reconnect)

FairSpec == Spec /\ Fairness

-----------------------------------------------------------------------------
(* Every variable keeps to its range, and info->ref counts the openers.    *)
TypeOK ==
  /\ fid \in Fids /\ need_open \in {"yes", "no"} /\ opening \in {"yes", "no"}
  /\ ref = Cardinality({p \in Procs : pc[p] \notin {"closed", "opening"}})
  /\ i_rwsem \in Procs \cup {None}
  /\ pc \in [Procs -> PC] /\ tmp \in [Procs -> Fids] /\ reply \in [Procs -> Fids]
  /\ tried \in [Procs -> {"yes", "no"}] /\ lost \subseteq Procs /\ disturbed \subseteq Procs
  /\ closes \cup orphans \subseteq Fids /\ files \subseteq 1..MaxId
  /\ next_id \in 1..(MaxId + 1) /\ fid_cookie \in 0..MaxOffline
  /\ online \in {"yes", "no", "shaking"} /\ s_stale \in {"yes", "no"}

(* The file ids some part of the client, or a message, still knows of.     *)
Known == {fid} \cup closes \cup {reply[p] : p \in Procs}
               \cup {tmp[p] : p \in {q \in Procs : pc[q] = "relock"}}

(* Every file the server holds open for the client is one the client will  *)
(* close: it is the inode's, a reopener's old one, or a close or an answer *)
(* is on its way (or the server is about to close all of them).  There are *)
(* two ways for a file to stay open at the server, its id in orphans: a    *)
(* reopen overwrote it that had begun before the id was fetched, for       *)
(* hmdfs_remote_wait_opening_file does not wait; or its answer came after  *)
(* the timeout or was lost, or its close was lost or not sent, and the     *)
(* server had no offline event.                                            *)
NoLeak == s_stale = "yes" \/ \A i \in files : <<i, fid_cookie>> \in Known \cup orphans

(* A read never fails that met neither an interruption of the connection,  *)
(* nor a refused open, nor, on its second try, the reopen of another       *)
(* process: a stale file id is reopened and the read repeated.             *)
ReadSucceeds == \A p \in Readers : pc[p] = "failed" => p \in disturbed

(* A reopen ends, successfully or not: hmdfs_remote_file_reopen returns.   *)
ReopenEnds == \A p \in Procs : pc[p] = "relock" ~> pc[p] \in {"read", "write", "failed"}

=============================================================================
