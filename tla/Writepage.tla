----------------------------- MODULE Writepage -----------------------------
(***************************************************************************)
(* The life of the dirty pages of one remote inode: write(), background    *)
(* writeback, flush()/close() and the offline stash of the inode.          *)
(* (hmdfs/file_remote.c, hmdfs/hmdfs_client.c, hmdfs/stash.c)              *)
(*                                                                         *)
(* A page handed to hmdfs_writepage_remote stays locked, and under         *)
(* writeback, until its request is answered, times out or is written to    *)
(* the stash file: "where" says how far it got.  The content of a page is  *)
(* a version number.  One offline episode is covered: what happens to the  *)
(* stash file afterwards is the subject of module StashFiles.              *)
(***************************************************************************)
EXTENDS Naturals, FiniteSets

CONSTANTS
  Pages,        \* the pages of the inode
  StashEnabled, \* sbi->s_offline_stash
  Flusher,      \* TRUE: some process calls flush()
  Faults,       \* which of "oom", "disk", "nocache" and "eof" may happen
  ServerErr,    \* the errors a request may end with
  MaxVer        \* bound: versions a page goes through

ASSUME PageAssumption == IsFiniteSet(Pages) /\ Pages # {}
ASSUME SwitchAssumption == /\ StashEnabled \in BOOLEAN /\ Flusher \in BOOLEAN
                            /\ Faults \subseteq {"oom", "disk", "nocache", "eof"}
                            /\ ServerErr \subseteq {"ETIME", "EBADF", "EIO"}
ASSUME VerAssumption == MaxVer \in Nat

VARIABLES
  ver,          \* the content of each page: the number of its last write()
  dirty,        \* PageDirty
  tagged,       \* PAGECACHE_TAG_DIRTY: the page cache tree's idea of it
  where,        \* progress of the page in writeback
  ctx,          \* struct hmdfs_writepage_context
  expired,      \* pages whose ctx->timeout has passed
  readers,      \* readers of wpage_sem
  wsem,         \* the writer's side of wpage_sem
  i_rwsem,      \* inode_lock(), held by write()
  as_error,     \* AS_EIO of the mapping
  online,       \* node status
  stash_status, cache, to_write_pgs,
  stashed,      \* pages whose newest content is in the stash file
  counting,     \* threads past writepage_done(), before to_write_pgs++
  flush, stash, \* the two threads that write the mapping back and wait
  acked,        \* history: pages whose newest content the server acknowledged,
  gaveup,       \* was dropped with an error, by a signal or past the end of the file,
  forgotten     \* was dropped with nothing said of it

pagev  == <<ver, dirty, tagged, where, ctx, expired, readers>>
stashv == <<stash_status, cache, to_write_pgs, stashed, counting>>
hist   == <<acked, gaveup, forgotten>>
vars == <<pagev, wsem, i_rwsem, as_error, online, stashv, flush, stash, hist>>

Where == {"none", "picked", "check", "to_remote", "remote", "retry", "to_stash", "local",
          "failing", "ended"}
Callers == {"bg", "flush", "stash"}
NoCtx == [sync |-> "no", rsem_held |-> "no", by |-> "bg", from |-> "call", err |-> "0"]

OFFLINE_ERR == {"EAGAIN", "ESHUTDOWN", "EBADF"}     \* hmdfs_is_offline_err

Writeback == {p \in Pages : where[p] \notin {"none", "picked", "ended"}}
Submitting(a) ==
  \/ \E p \in Pages : /\ ctx[p].by = a /\ ctx[p].from = "call"
                     /\ where[p] \in {"picked", "check", "to_remote", "to_stash", "local",
                                      "failing", "ended"}
  \/ \E c \in counting : c[2] = a

Init ==
  /\ ver = [p \in Pages |-> 0] /\ dirty = {} /\ tagged = {}
  /\ where = [p \in Pages |-> "none"] /\ ctx = [p \in Pages |-> NoCtx] /\ expired = {}
  /\ readers = 0 /\ wsem = "free" /\ i_rwsem = "free" /\ as_error = "no" /\ online = "yes"
  /\ stash_status = "NONE" /\ cache = "null" /\ to_write_pgs = 0
  /\ stashed = {} /\ counting = {}
  /\ flush = [pc |-> "idle", todo |-> {}, ret |-> "0"]
  /\ stash = [pc |-> "idle", todo |-> {}, ret |-> "0", round |-> 0]
  /\ acked = Pages /\ gaveup = {} /\ forgotten = {}

-----------------------------------------------------------------------------
(* write(): refused while the inode is stashing or the node is offline.    *)

hmdfs_is_file_unwritable ==
  \/ StashEnabled /\ stash_status # "NONE"
  \/ online = "no"

hmdfs_file_write_iter_remote ==
  /\ i_rwsem = "free"
  /\ ~hmdfs_is_file_unwritable
  /\ i_rwsem' = "write"
  /\ UNCHANGED <<pagev, wsem, as_error, online, stashv, flush, stash, hist>>

(* write_begin waits for the page lock; write_end dirties the page.        *)
hmdfs_write_end_remote(p) ==
  /\ i_rwsem = "write" /\ where[p] = "none"
  /\ ver[p] < MaxVer
  /\ ver' = [ver EXCEPT ![p] = @ + 1]
  /\ dirty' = dirty \cup {p} /\ tagged' = tagged \cup {p}
  /\ acked' = acked \ {p} /\ gaveup' = gaveup \ {p} /\ forgotten' = forgotten \ {p}
  /\ stashed' = stashed \ {p}
  /\ UNCHANGED <<where, ctx, expired, readers, wsem, i_rwsem, as_error, online,
                 stash_status, cache, to_write_pgs, counting, flush, stash>>

WriteReturns ==
  /\ i_rwsem = "write"
  /\ i_rwsem' = "free"
  /\ UNCHANGED <<pagev, wsem, as_error, online, stashv, flush, stash, hist>>

-----------------------------------------------------------------------------
(* Generic writeback of the kernel: a tagged page is locked, and if it is  *)
(* dirty its dirty bit is cleared and ->writepage is called with it.       *)

write_cache_pages(p, a, sync) ==
  /\ where[p] = "none" /\ p \in dirty
  /\ dirty' = dirty \ {p}
  /\ where' = [where EXCEPT ![p] = "picked"]
  /\ ctx' = [ctx EXCEPT ![p] = [sync |-> sync, rsem_held |-> "no", by |-> a,
                                  from |-> "call", err |-> "0"]]
  /\ expired' = expired \ {p}
  /\ UNCHANGED <<ver, tagged, readers>>

(* The kernel's writeback threads: WB_SYNC_NONE.                           *)
BackgroundWriteback(p) ==
  /\ ~Submitting("bg") /\ p \in tagged
  /\ write_cache_pages(p, "bg", "no")
  /\ UNCHANGED <<wsem, i_rwsem, as_error, online, stashv, flush, stash, hist>>

-----------------------------------------------------------------------------
(* hmdfs_writepage_remote and what completes it.                           *)

Move(p, to) == where' = [where EXCEPT ![p] = to]

Released_Always(p) == readers - 1       \* mutant: up_read without rsem_held

Released(p) == IF ctx[p].rsem_held = "yes" THEN readers - 1 ELSE readers

hmdfs_need_redirty_page(err) ==
  StashEnabled /\ err \in OFFLINE_ERR /\ stash_status # "RESTORING"

(* unlock_page, redirtied or in error.                                     *)
Redirty(p) ==
  /\ Move(p, "none")
  /\ dirty' = dirty \cup {p} /\ tagged' = tagged \cup {p}
  /\ UNCHANGED gaveup

GiveUp(p) ==
  /\ Move(p, "none")
  /\ gaveup' = gaveup \cup {p}
  /\ UNCHANGED <<dirty, tagged>>

(* The error is decided on here and takes effect later: stash_status may   *)
(* change in between.                                                      *)
Failing(p, err) ==
  /\ Move(p, "failing")
  /\ ctx' = [ctx EXCEPT ![p].err = err]
  /\ UNCHANGED <<dirty, tagged, readers, as_error, gaveup, flush, stash>>

hmdfs_client_writepage_err_Forgives(p) ==   \* mutant: neither redirtied nor in error
  /\ where[p] = "failing" /\ ctx[p].from = "cb"
  /\ Move(p, "none") /\ readers' = Released(p)
  /\ UNCHANGED <<ver, dirty, tagged, ctx, expired, wsem, i_rwsem, as_error, online, stashv,
                 flush, stash, hist>>

(* Tail of hmdfs_writepage_remote, in the caller's thread: the writeback   *)
(* ends and wpage_sem is released before the page is redirtied or marked.  *)
EndWriteback(p) ==
  /\ where[p] = "failing" /\ ctx[p].from = "call"
  /\ Move(p, "ended") /\ readers' = Released(p)
  /\ UNCHANGED <<ver, dirty, tagged, ctx, expired, wsem, i_rwsem, as_error, online, stashv,
                 flush, stash, hist>>

(* Then the caller, the kernel's write_cache_pages, learns of the error,   *)
(* and notes it in the mapping.                                            *)
CallFails(p) ==
  LET err == ctx[p].err
  IN /\ where[p] = "ended"
     /\ IF ctx[p].sync = "yes" \/ ~hmdfs_need_redirty_page(err) THEN GiveUp(p) ELSE Redirty(p)
     /\ as_error' = IF err = "0" THEN as_error ELSE "yes"
     /\ flush' = IF ctx[p].by = "flush" /\ err = "EIO" THEN [flush EXCEPT !.ret = err] ELSE flush
     /\ stash' = IF ctx[p].by = "stash" /\ err = "EIO" THEN [stash EXCEPT !.ret = err] ELSE stash
     /\ UNCHANGED <<ver, ctx, expired, readers, wsem, i_rwsem, online, stashv, acked, forgotten>>

hmdfs_client_writepage_err(p) ==
  LET err == ctx[p].err
      lost == \/ ctx[p].sync = "yes" \/ p \in expired
              \/ ~(err = "ETIME" \/ hmdfs_need_redirty_page(err))
  IN /\ where[p] = "failing" /\ ctx[p].from = "cb"
     /\ IF lost THEN GiveUp(p) ELSE Redirty(p)
     /\ as_error' = IF lost THEN "yes" ELSE as_error
     /\ readers' = Released(p)
     /\ UNCHANGED <<ver, ctx, expired, wsem, i_rwsem, online, stashv, flush, stash, acked, forgotten>>

(* WB_SYNC_NONE needs the read side of wpage_sem, and does not wait for    *)
(* it: down_read_trylock fails while a writer holds or awaits the lock.    *)
allow_cur_thread_wpage(p) ==
  /\ where[p] = "picked"
  /\ ctx[p].sync = "yes" \/ wsem = "free"
  /\ Move(p, "check")
  /\ tagged' = tagged \ {p}                    \* set_page_writeback
  /\ IF ctx[p].sync = "yes" THEN UNCHANGED <<ctx, readers>>
     ELSE ctx' = [ctx EXCEPT ![p].rsem_held = "yes"] /\ readers' = readers + 1
  /\ UNCHANGED <<ver, dirty, expired, wsem, i_rwsem, as_error, online, stashv, flush, stash,
                 hist>>

(* The trylock failed: out_unlock with ret = 0.  An error of 0 is neither  *)
(* recorded nor a reason to redirty: the page stays tagged, and is clean.  *)
WpageRefused(p) ==
  /\ where[p] = "picked" /\ ctx[p].sync = "no" /\ wsem # "free"
  /\ Move(p, "none")
  /\ forgotten' = forgotten \cup {p}
  /\ UNCHANGED <<ver, dirty, tagged, ctx, expired, readers, wsem, i_rwsem, as_error, online,
                 stashv, flush, stash, acked, gaveup>>

(* kzalloc of the context fails.                                           *)
WpageOom(p) ==
  /\ "oom" \in Faults /\ where[p] = "check" /\ ctx[p].from = "call"
  /\ Failing(p, "ENOMEM")
  /\ UNCHANGED <<ver, expired, wsem, i_rwsem, online, stashv, acked, forgotten>>

(* A signal cancels a WB_SYNC_ALL page, or the page lies past the end of   *)
(* the file: out_free with ret = 0.                                        *)
WpageSignal(p) ==
  /\ where[p] = "check" /\ ctx[p].from = "call"
  /\ ctx[p].by = "flush" \/ "eof" \in Faults
  /\ Failing(p, "0")
  /\ UNCHANGED <<ver, expired, wsem, i_rwsem, online, stashv, acked, forgotten>>

(* hmdfs_remote_do_writepage: the stash file while the inode is stashing,  *)
(* the server otherwise.                                                   *)
hmdfs_remote_write_to_remote_Always(p) ==   \* mutant: STASHING ignored
  /\ where[p] = "check"
  /\ Move(p, "to_remote")
  /\ UNCHANGED <<ver, dirty, tagged, ctx, expired, readers, wsem, i_rwsem, as_error, online,
                 stashv, flush, stash, hist>>

hmdfs_remote_write_to_remote(p) ==
  /\ where[p] = "check"
  /\ Move(p, IF stash_status = "STASHING" THEN "to_stash" ELSE "to_remote")
  /\ UNCHANGED <<ver, dirty, tagged, ctx, expired, readers, wsem, i_rwsem, as_error, online,
                 stashv, flush, stash, hist>>

hmdfs_client_rewrite_for_offline(p, err) ==
  /\ StashEnabled /\ stash_status # "RESTORING"
  /\ (ctx[p].sync = "yes" /\ p \notin expired) \/ stash_status = "STASHING"
  /\ err \in OFFLINE_ERR \cup {"ETIME"}

(* The request is on its way, or queued for a retry: the call returns 0.   *)
Defer(p, to) ==
  /\ Move(p, to)
  /\ ctx' = [ctx EXCEPT ![p].from = "cb"]

hmdfs_client_writepage(p) ==
  /\ where[p] = "to_remote" /\ online = "yes"
  /\ Defer(p, "remote")
  /\ UNCHANGED <<ver, dirty, tagged, expired, readers, wsem, i_rwsem, as_error, online,
                 stashv, flush, stash, hist>>

(* The send fails: no connection, a broken one, or no memory.              *)
SendFails(p, err) ==
  /\ where[p] = "to_remote"
  /\ err = "ENOMEM" => "oom" \in Faults
  /\ IF hmdfs_client_rewrite_for_offline(p, err)
     THEN /\ Defer(p, "retry")
          /\ UNCHANGED <<dirty, tagged, readers, as_error, gaveup, flush, stash>>
     ELSE Failing(p, err)
  /\ UNCHANGED <<ver, expired, wsem, i_rwsem, online, stashv, acked, forgotten>>

hmdfs_remote_writepage_retry(p) ==
  /\ where[p] = "retry"
  /\ Move(p, "check")
  /\ UNCHANGED <<ver, dirty, tagged, ctx, expired, readers, wsem, i_rwsem, as_error, online,
                 stashv, flush, stash, hist>>

(* hmdfs_writepage_cb: the server's answer, or -ETIME when there is none.  *)
WritepageDone(p) ==
  /\ where[p] = "remote"
  /\ Move(p, "none") /\ readers' = Released(p)
  /\ acked' = acked \cup {p}
  /\ UNCHANGED <<ver, dirty, tagged, ctx, expired, wsem, i_rwsem, as_error, online, stashv,
                 flush, stash, gaveup, forgotten>>

hmdfs_client_redo_writepage(p, err) ==
  \/ err = "ETIME" /\ ctx[p].sync = "yes" /\ p \notin expired
  \/ hmdfs_client_rewrite_for_offline(p, err)

Redo(p, err) ==
  /\ where[p] = "remote" /\ hmdfs_client_redo_writepage(p, err)
  /\ Move(p, "check")
  /\ UNCHANGED <<ver, dirty, tagged, ctx, expired, readers, wsem, i_rwsem, as_error, online,
                 stashv, flush, stash, hist>>

(* A signal pending for the caller of flush() prevents the retry of a      *)
(* timeout.                                                                *)
AnswerFails(p, err) ==
  /\ where[p] = "remote" /\ ~hmdfs_client_rewrite_for_offline(p, err)
  /\ hmdfs_client_redo_writepage(p, err) => ctx[p].by = "flush"
  /\ Failing(p, err)
  /\ UNCHANGED <<ver, expired, wsem, i_rwsem, online, stashv, acked, forgotten>>

Expire(p) ==
  /\ where[p] # "none" /\ p \notin expired
  /\ expired' = expired \cup {p}
  /\ UNCHANGED <<ver, dirty, tagged, where, ctx, readers, wsem, i_rwsem, as_error, online,
                 stashv, flush, stash, hist>>

(* hmdfs_stash_writepage reads info->cache, writes the file, completes the *)
(* page, and only then counts it.                                          *)
StashWithoutCache(p) ==
  /\ where[p] = "to_stash" /\ cache = "null"
  /\ Failing(p, "EIO")
  /\ UNCHANGED <<ver, expired, wsem, i_rwsem, online, stashv, acked, forgotten>>

hmdfs_stash_writepage(p) ==
  /\ where[p] = "to_stash" /\ cache # "null"
  /\ Move(p, "local")
  /\ UNCHANGED <<ver, dirty, tagged, ctx, expired, readers, wsem, i_rwsem, as_error, online,
                 stashv, flush, stash, hist>>

(* The file may have been closed meanwhile, and it is gone if not linked.  *)
StashWriteDone(p) ==
  LET gone == cache = "null" /\ stash.ret # "1"
  IN /\ where[p] = "local"
     /\ stashed' = IF gone THEN stashed ELSE stashed \cup {p}
     /\ forgotten' = IF gone THEN forgotten \cup {p} ELSE forgotten
     /\ Move(p, "none") /\ readers' = Released(p)
     /\ counting' = counting \cup {<<p, IF ctx[p].from = "call" THEN ctx[p].by ELSE "cb">>}
     /\ UNCHANGED <<ver, dirty, tagged, ctx, expired, wsem, i_rwsem, as_error, online,
                    stash_status, cache, to_write_pgs, flush, stash, acked, gaveup>>

StashWriteFails(p) ==
  /\ "disk" \in Faults /\ where[p] = "local"
  /\ to_write_pgs' = to_write_pgs + 1
  /\ Failing(p, "EIO")
  /\ UNCHANGED <<ver, expired, wsem, i_rwsem, online, stash_status, cache, stashed,
                 counting, acked, forgotten>>

CountPage(c) ==
  /\ c \in counting
  /\ counting' = counting \ {c}
  /\ to_write_pgs' = IF cache = "null" THEN to_write_pgs ELSE to_write_pgs + 1
  /\ UNCHANGED <<pagev, wsem, i_rwsem, as_error, online, stash_status, cache, stashed,
                 flush, stash, hist>>

-----------------------------------------------------------------------------
(* hmdfs_file_flush: fdatawrite, then write and wait under wpage_sem.      *)

FlushStart ==
  /\ Flusher /\ flush.pc = "idle"
  /\ flush' = [pc |-> "write", todo |-> tagged, ret |-> "0"]
  /\ UNCHANGED <<pagev, wsem, i_rwsem, as_error, online, stashv, stash, hist>>

(* A page of the batch: locked, then written if it is (still) dirty.       *)
FlushPage(p) ==
  /\ flush.pc \in {"write", "write_wait"} /\ p \in flush.todo /\ ~Submitting("flush")
  /\ where[p] = "none"
  /\ flush' = [flush EXCEPT !.todo = @ \ {p}]
  /\ IF p \in dirty THEN write_cache_pages(p, "flush", "yes") ELSE UNCHANGED pagev
  /\ UNCHANGED <<wsem, i_rwsem, as_error, online, stashv, stash, hist>>

FlushDownWrite ==
  /\ flush.pc = "write" /\ flush.todo = {} /\ ~Submitting("flush")
  /\ flush' = [flush EXCEPT !.pc = "down"]
  /\ wsem' = "wait"
  /\ UNCHANGED <<pagev, i_rwsem, as_error, online, stashv, stash, hist>>

FlushLocked ==
  /\ flush.pc = "down" /\ readers = 0
  /\ wsem' = "held"
  /\ flush' = [flush EXCEPT !.pc = "write_wait", !.todo = tagged, !.ret = "0"]
  /\ UNCHANGED <<pagev, i_rwsem, as_error, online, stashv, stash, hist>>

(* filemap_write_and_wait does not wait after an -EIO of the writes.       *)
FlushReturns ==
  /\ flush.pc = "write_wait" /\ flush.todo = {} /\ ~Submitting("flush")
  /\ flush.ret = "EIO" \/ Writeback = {}
  /\ wsem' = "free"
  /\ as_error' = "no"                   \* filemap_check_errors
  /\ flush' = [flush EXCEPT !.pc = "returned", !.ret = IF as_error = "yes" THEN "EIO" ELSE @]
  /\ UNCHANGED <<pagev, i_rwsem, online, stashv, stash, hist>>

FlushAgain ==
  /\ flush.pc = "returned"
  /\ flush' = [flush EXCEPT !.pc = "idle"]
  /\ UNCHANGED <<pagev, wsem, i_rwsem, as_error, online, stashv, stash, hist>>

-----------------------------------------------------------------------------
(* The node's status, and the offline callbacks of stash.c for this inode. *)

NodeStatus ==
  /\ online' = IF online = "yes" THEN "no" ELSE "yes"
  /\ UNCHANGED <<pagev, wsem, i_rwsem, as_error, stashv, flush, stash, hist>>

hmdfs_init_stash_file_cache ==
  /\ StashEnabled /\ online = "no" /\ stash.pc = "idle"
  /\ stash_status' = "STASHING"
  /\ \/ cache' = "file"
     \/ "nocache" \in Faults /\ cache' = "null"
  /\ stash' = [stash EXCEPT !.pc = "inode_lock"]
  /\ UNCHANGED <<pagev, wsem, i_rwsem, as_error, online, to_write_pgs, stashed, counting, flush,
                 hist>>

(* Wait for the completion of write(), and look for work.                  *)
StashInodeLock_NoWait ==                \* mutant: inode_lock not taken
  /\ stash.pc = "inode_lock"
  /\ stash' = [stash EXCEPT !.pc = "dirty"]
  /\ UNCHANGED <<pagev, wsem, i_rwsem, as_error, online, stashv, flush, hist>>

StashInodeLock ==
  /\ stash.pc = "inode_lock" /\ i_rwsem = "free"
  /\ stash' = [stash EXCEPT !.pc = "dirty"]
  /\ UNCHANGED <<pagev, wsem, i_rwsem, as_error, online, stashv, flush, hist>>

hmdfs_is_mapping_clean == tagged = {} /\ Writeback = {}

StashCheckDirty ==
  /\ stash.pc = "dirty"
  /\ IF hmdfs_is_mapping_clean
     THEN as_error' = "no" /\ stash' = [stash EXCEPT !.pc = "metadata"]
     ELSE UNCHANGED as_error /\ stash' = [stash EXCEPT !.pc = "wait_once"]
  /\ UNCHANGED <<pagev, wsem, i_rwsem, online, stashv, flush, hist>>

(* I_SYNC clear: no background thread is submitting pages of the inode.    *)
hmdfs_wait_remote_writeback_once ==
  /\ stash.pc = "wait_once" /\ ~Submitting("bg")
  /\ as_error' = "no"                   \* hmdfs_reset_remote_write_err
  /\ stash' = [stash EXCEPT !.pc = "write", !.todo = tagged, !.round = 1]
  /\ UNCHANGED <<pagev, wsem, i_rwsem, online, stashv, flush, hist>>

StashPage(p) ==
  /\ stash.pc = "write" /\ p \in stash.todo /\ ~Submitting("stash")
  /\ where[p] = "none"
  /\ stash' = [stash EXCEPT !.todo = @ \ {p}]
  /\ IF p \in dirty THEN write_cache_pages(p, "stash", "yes") ELSE UNCHANGED pagev
  /\ UNCHANGED <<wsem, i_rwsem, as_error, online, stashv, flush, hist>>

HMDFS_STASH_FLUSH_CNT == 2

StashRoundDone_NoWait ==                \* mutant: filemap_fdatawrite, without the wait
  /\ stash.pc = "write" /\ stash.todo = {} /\ ~Submitting("stash")
  /\ as_error' = "no"
  /\ stash' = IF as_error = "yes"
              THEN [stash EXCEPT !.pc = "close", !.ret = "EIO"]
              ELSE IF stash.round < HMDFS_STASH_FLUSH_CNT
              THEN [stash EXCEPT !.todo = tagged, !.round = @ + 1]
              ELSE [stash EXCEPT !.pc = "metadata"]
  /\ UNCHANGED <<pagev, wsem, i_rwsem, online, stashv, flush, hist>>

(* One filemap_write_and_wait is over: the next round, or the metadata.    *)
StashRoundDone ==
  /\ stash.pc = "write" /\ stash.todo = {} /\ ~Submitting("stash")
  /\ stash.ret = "EIO" \/ Writeback = {}
  /\ as_error' = "no"
  /\ stash' = IF stash.ret = "EIO" \/ as_error = "yes"
              THEN [stash EXCEPT !.pc = "close", !.ret = "EIO"]
              ELSE IF stash.round < HMDFS_STASH_FLUSH_CNT
              THEN [stash EXCEPT !.todo = tagged, !.round = @ + 1]
              ELSE [stash EXCEPT !.pc = "metadata"]
  /\ UNCHANGED <<pagev, wsem, i_rwsem, online, stashv, flush, hist>>

(* The stash file's head and path; without a stash file -EINVAL.           *)
hmdfs_flush_stash_file_metadata ==
  /\ stash.pc = "metadata"
  /\ \/ cache = "null" /\ stash' = [stash EXCEPT !.pc = "close", !.ret = "EINVAL"]
     \/ cache # "null" /\ stash' = [stash EXCEPT !.pc = "link"]
     \/ /\ cache # "null" /\ "disk" \in Faults
        /\ stash' = [stash EXCEPT !.pc = "close", !.ret = "EIO"]
  /\ UNCHANGED <<pagev, wsem, i_rwsem, as_error, online, stashv, flush, hist>>

(* A file to which no page was counted is dropped; any other is linked.    *)
hmdfs_close_stash_file ==
  /\ stash.pc = "link"
  /\ \E ret \in {"0", "1", "EIO"} :
       /\ (ret = "0") <=> (to_write_pgs = 0)
       /\ ret = "EIO" => "disk" \in Faults
       /\ stash' = [stash EXCEPT !.pc = "close", !.ret = ret]
  /\ UNCHANGED <<pagev, wsem, i_rwsem, as_error, online, stashv, flush, hist>>

(* The stash file goes, with what it holds, unless it was linked.          *)
hmdfs_stash_remote_inode ==
  /\ stash.pc = "close"
  /\ cache' = "null"
  /\ stash_status' = IF stash.ret = "1" THEN "RESTORING" ELSE "NONE"
  /\ stash' = [stash EXCEPT !.pc = "done"]
  /\ stashed' = IF stash.ret = "1" THEN stashed ELSE {}
  /\ forgotten' = IF stash.ret = "0" THEN forgotten \cup stashed ELSE forgotten
  /\ gaveup' = IF stash.ret \in {"0", "1"} THEN gaveup ELSE gaveup \cup stashed
  /\ UNCHANGED <<pagev, wsem, i_rwsem, as_error, online, to_write_pgs, counting, flush, acked>>

-----------------------------------------------------------------------------
Settle(p) ==
  \/ allow_cur_thread_wpage(p) \/ WpageRefused(p)
  \/ hmdfs_remote_write_to_remote(p) \/ hmdfs_client_writepage(p)
  \/ \E err \in {"EAGAIN", "ESHUTDOWN", "ENOMEM"} : SendFails(p, err)
  \/ hmdfs_remote_writepage_retry(p)
  \/ WritepageDone(p)
  \/ \E err \in ServerErr : Redo(p, err) \/ AnswerFails(p, err)
  \/ StashWithoutCache(p) \/ hmdfs_stash_writepage(p)
  \/ StashWriteDone(p) \/ StashWriteFails(p)
  \/ EndWriteback(p) \/ CallFails(p) \/ hmdfs_client_writepage_err(p)

FlushStep == FlushDownWrite \/ FlushLocked \/ FlushReturns

StashStep ==
  \/ StashInodeLock \/ StashCheckDirty \/ hmdfs_wait_remote_writeback_once
  \/ StashRoundDone \/ hmdfs_flush_stash_file_metadata \/ hmdfs_close_stash_file
  \/ hmdfs_stash_remote_inode

Next ==
  \/ hmdfs_file_write_iter_remote \/ WriteReturns
  \/ \E p \in Pages :
       \/ hmdfs_write_end_remote(p)
       \/ BackgroundWriteback(p)
       \/ Settle(p) \/ WpageOom(p) \/ WpageSignal(p) \/ Expire(p)
       \/ FlushPage(p) \/ StashPage(p)
  \/ \E c \in counting : CountPage(c)
  \/ FlushStart \/ FlushStep \/ FlushAgain
  \/ NodeStatus \/ hmdfs_init_stash_file_cache \/ StashStep

Spec == Init /\ [][Next]_vars

(* Threads in the kernel run; a request is answered or times out; its      *)
(* retries end with the context's timeout; a waiter on a page lock is      *)
(* handed the lock in its turn.                                            *)
Fairness ==
  /\ \A p \in Pages :
       /\ WF_vars(Settle(p)) /\ WF_vars(Expire(p))
       /\ SF_vars(FlushPage(p)) /\ SF_vars(StashPage(p))
  /\ WF_vars(WriteReturns) /\ WF_vars(\E c \in counting : CountPage(c))
  /\ SF_vars(FlushStep) /\ SF_vars(StashStep)

FairSpec == Spec /\ Fairness

-----------------------------------------------------------------------------
(* Every variable keeps to its range.                                      *)
TypeOK ==
  /\ ver \in [Pages -> 0..MaxVer]
  /\ acked \cup gaveup \cup forgotten \cup stashed \subseteq Pages
  /\ dirty \subseteq tagged /\ tagged \subseteq Pages /\ expired \subseteq Pages
  /\ where \in [Pages -> Where]
  /\ \A p \in Pages : ctx[p].by \in Callers /\ ctx[p].from \in {"call", "cb"}
  /\ readers \in 0..Cardinality(Pages) /\ wsem \in {"free", "wait", "held"}
  /\ i_rwsem \in {"free", "write"} /\ as_error \in {"yes", "no"} /\ online \in {"yes", "no"}
  /\ stash_status \in {"NONE", "STASHING", "RESTORING"} /\ cache \in {"null", "file"}
  /\ to_write_pgs \in Nat

(* The pages whose newest content the server or the stash file has, or     *)
(* whose loss was reported.  A page is forgotten in two ways: a            *)
(* WB_SYNC_NONE writepage was refused because flush() held or awaited      *)
(* wpage_sem, or its stash file was closed before the page was counted, so *)
(* that the file passed for empty.                                         *)
Saved == acked \cup stashed \cup gaveup

(* wpage_sem handed from hmdfs_writepage_remote to the thread that ends    *)
(* the writeback is released exactly once: its readers are the pages whose *)
(* context says rsem_held.                                                 *)
ReadersExact ==
  readers = Cardinality({p \in Writeback : ctx[p].rsem_held = "yes"})

(* Per-file rwsems prevent concurrent in-flight writepage during close():  *)
(* while flush() holds wpage_sem, no page is left that a WB_SYNC_NONE call *)
(* of hmdfs_writepage_remote has begun to write and may yet redirty.       *)
FlushExcludesBackground ==
  wsem = "held" =>
    \A p \in Pages : where[p] \notin {"none", "picked"} => ctx[p].sync = "yes"

(* After hmdfs_flush_stash_file_data got the inode lock once, no write()   *)
(* changes the pages until the inode leaves STASHING.                      *)
StashFreezesPages ==
  [][stash.pc \notin {"idle", "inode_lock", "done"} => ver' = ver]_vars

(* Two rounds of filemap_write_and_wait leave no page of the mapping dirty *)
(* or under writeback: the one way for a page to be still tagged is to     *)
(* have been refused wpage_sem.  And when an inode whose pages were        *)
(* flushed becomes RESTORING, every page's newest content is on the        *)
(* server, in the stash file, or reported lost (a page marked "ended" is   *)
(* about to be), unless it was refused wpage_sem.                          *)
StashSaves ==
  /\ stash.pc \in {"metadata", "link"} /\ stash.round > 0 =>
       /\ dirty = {} /\ Writeback = {}
       /\ tagged \subseteq forgotten
  /\ stash.pc = "done" /\ stash.ret = "1" /\ stash.round > 0 =>
       \A p \in Pages : p \in Saved \/ where[p] = "ended" \/ p \in forgotten \cap tagged

(* A page that is neither dirty nor in writeback has its newest content    *)
(* saved, or it was dropped with an error, but for the two silent drops:   *)
(* it was refused wpage_sem while flush() wanted it, or its stash file was *)
(* taken for empty.                                                        *)
CleanIsSaved ==
  \A p \in Pages : where[p] = "none" /\ p \notin dirty => p \in Saved \cup forgotten

(* flush() returns although the peer may never answer, for retries end     *)
(* with the write's timeout; and hmdfs_stash_remote_inode comes to an end, *)
(* for what is retried during the stash goes to the stash file.            *)
WritebackEnds ==
  /\ flush.pc = "write" ~> flush.pc = "returned"
  /\ stash.pc = "inode_lock" ~> stash.pc = "done"

=============================================================================
