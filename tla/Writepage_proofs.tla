-------------------------- MODULE Writepage_proofs --------------------------
(***************************************************************************)
(* Proofs about the dirty pages of a remote inode, for any finite set of   *)
(* pages, any faults and any errors of the server: wpage_sem is released   *)
(* exactly once, a stash freezes the pages, and no content of a page is    *)
(* dropped silently but in the two ways that "forgotten" records.          *)
(***************************************************************************)
EXTENDS Writepage, FiniteSetTheorems, TLAPS

YesNo == {"yes", "no"}
Errs == {"0", "EAGAIN", "ESHUTDOWN", "EBADF", "ENOMEM", "EIO", "ETIME"}
Ctx == [sync : YesNo, rsem_held : YesNo, by : Callers, from : {"call", "cb"}, err : Errs]

Types ==
  /\ ver \in [Pages -> Nat]
  /\ acked \subseteq Pages /\ stashed \subseteq Pages
  /\ gaveup \subseteq Pages /\ forgotten \subseteq Pages
  /\ dirty \subseteq Pages /\ tagged \subseteq Pages
  /\ where \in [Pages -> Where] /\ ctx \in [Pages -> Ctx]

-----------------------------------------------------------------------------
(* wpage_sem.                                                              *)

(* The page holds wpage_sem for reading.                                   *)
Holds(p) == where[p] \notin {"none", "picked", "ended"} /\ ctx[p].rsem_held = "yes"
Holders == {p \in Pages : Holds(p)}

(* A page is written back either for a thread that waits (WB_SYNC_ALL) or  *)
(* under wpage_sem, never both; a request on its way has left its caller.  *)
PLocal(p) ==
  /\ ctx[p].sync = "no" <=> ctx[p].by = "bg"
  /\ ctx[p].sync = "yes" \/ where[p] = "picked" => ctx[p].rsem_held = "no"
  /\ where[p] \notin {"none", "picked", "ended"} /\ ctx[p].sync = "no" =>
       ctx[p].rsem_held = "yes"
  /\ where[p] \in {"picked", "ended"} => ctx[p].from = "call"
  /\ where[p] \in {"remote", "retry"} => ctx[p].from = "cb"

PInv == Types /\ readers = Cardinality(Holders) /\ \A p \in Pages : PLocal(p)

(* The semaphore changes hands with the page p.                            *)
Handed(p) ==
  \/ (Holds(p)' <=> Holds(p)) /\ readers' = readers
  \/ Holds(p) /\ ~Holds(p)' /\ readers' = readers - 1
  \/ ~Holds(p) /\ Holds(p)' /\ readers' = readers + 1

(* Where and in whose name a page is written back does not change.         *)
SameCtx(q) == where'[q] = where[q] /\ ctx'[q] = ctx[q]

(* There are finitely many readers.                                        *)
LEMMA HoldersFinite == IsFiniteSet(Holders) /\ Cardinality(Holders) \in Nat
  <1>1. Holders \subseteq Pages
    BY Zenon DEF Holders
  <1> QED
    BY <1>1, PageAssumption, FS_Subset, FS_CardinalityType, Zenon

(* What the set counts is what ReadersExact says.                          *)
LEMMA HoldersAre == {p \in Writeback : ctx[p].rsem_held = "yes"} = Holders
  BY Zenon DEF Writeback, Holders, Holds

(* A step of one page keeps the count, if it takes or releases the         *)
(* semaphore at most once and says so.                                     *)
LEMMA OnePage ==
  ASSUME PInv, NEW p \in Pages, Types', PLocal(p)', Handed(p),
         \A q \in Pages \ {p} : SameCtx(q)
  PROVE  PInv'
  <1>1. ASSUME NEW q \in Pages PROVE PLocal(q)'
    BY <1>1 DEF PInv, PLocal, SameCtx
  <1>2. \A q \in Pages \ {p} : Holds(q)' <=> Holds(q)
    BY Zenon DEF Holds, SameCtx
  <1>3. CASE Holds(p)' <=> Holds(p)
    <2>1. Holders' = Holders
      BY <1>2, <1>3, Zenon DEF Holders
    <2>2. readers' = readers
      BY <1>3, Zenon DEF Handed
    <2> QED
      BY <1>1, <2>1, <2>2, Zenon DEF PInv
  <1>4. CASE Holds(p) /\ ~Holds(p)'
    <2>1. Holders' = Holders \ {p} /\ p \in Holders
      BY <1>2, <1>4, Zenon DEF Holders
    <2>2. Cardinality(Holders') = Cardinality(Holders) - 1
      BY <2>1, HoldersFinite, FS_RemoveElement, Zenon
    <2>3. readers' = readers - 1
      BY <1>4, Zenon DEF Handed
    <2> QED
      BY <1>1, <2>2, <2>3, Zenon DEF PInv
  <1>5. CASE ~Holds(p) /\ Holds(p)'
    <2>1. Holders' = Holders \cup {p} /\ p \notin Holders
      BY <1>2, <1>5, Zenon DEF Holders
    <2>2. Cardinality(Holders') = Cardinality(Holders) + 1
      BY <2>1, HoldersFinite, FS_AddElement, Zenon
    <2>3. readers' = readers + 1
      BY <1>5, Zenon DEF Handed
    <2> QED
      BY <1>1, <2>2, <2>3, Zenon DEF PInv
  <1> QED
    BY <1>3, <1>4, <1>5, Zenon DEF Handed

(* A step of no page keeps it as well.                                     *)
LEMMA NoPage ==
  ASSUME PInv, Types', UNCHANGED <<where, ctx, readers>>
  PROVE  PInv'
  <1>1. Holders' = Holders
    BY Zenon DEF Holders, Holds
  <1>2. ASSUME NEW q \in Pages PROVE PLocal(q)'
    BY <1>2, Zenon DEF PInv, PLocal
  <1> QED
    BY <1>1, <1>2, Zenon DEF PInv

(* The context of a page stays a context when a field of it is set.        *)
LEMMA CtxSet ==
  ASSUME Types, NEW p \in Pages
  PROVE  /\ \A e \in Errs : [ctx EXCEPT ![p].err = e] \in [Pages -> Ctx]
         /\ [ctx EXCEPT ![p].from = "cb"] \in [Pages -> Ctx]
         /\ [ctx EXCEPT ![p].rsem_held = "yes"] \in [Pages -> Ctx]
  <1>1. ctx \in [Pages -> Ctx] /\ ctx[p] \in Ctx
    BY Zenon DEF Types
  <1>2. \A e \in Errs : [ctx[p] EXCEPT !.err = e] \in Ctx
    BY <1>1, Zenon DEF Ctx
  <1>3. [ctx[p] EXCEPT !.from = "cb"] \in Ctx
    BY <1>1, Zenon DEF Ctx
  <1>4. [ctx[p] EXCEPT !.rsem_held = "yes"] \in Ctx
    BY <1>1, Zenon DEF Ctx, YesNo
  <1>5. \A c \in Ctx : [ctx EXCEPT ![p] = c] \in [Pages -> Ctx]
    BY <1>1, Zenon
  <1> QED
    BY <1>2, <1>3, <1>4, <1>5, Zenon

(* write() dirties a page: the semaphore is handed on correctly.           *)
LEMMA Hmdfs_write_end_remoteP ==
  ASSUME PInv, NEW p \in Pages, hmdfs_write_end_remote(p)
  PROVE  PInv'
  <1>1. Types /\ PLocal(p)
    BY Zenon DEF PInv
  <1>2. Types'
    <2>1. where' \in [Pages -> Where]
      BY <1>1, Zenon DEF Types, Where, hmdfs_write_end_remote
    <2>2. ctx' \in [Pages -> Ctx]
      BY <1>1, Zenon DEF Types, hmdfs_write_end_remote
    <2> QED
      BY <1>1, <2>1, <2>2 DEF Types, stashv, hist, hmdfs_write_end_remote
  <1>3. \A q \in Pages \ {p} : SameCtx(q)
    BY <1>1, Zenon DEF Types, SameCtx, hmdfs_write_end_remote
  <1>4. PLocal(p)'
    BY <1>1, Zenon DEF Types, Ctx, YesNo, Callers, PLocal, hmdfs_write_end_remote
  <1>5. Handed(p)
    BY <1>1, Zenon DEF Types, Ctx, YesNo, PLocal, Handed, Holds, hmdfs_write_end_remote
  <1> QED
    BY <1>2, <1>3, <1>4, <1>5, OnePage, Zenon

(* Background writeback picks a page: the semaphore is handed on           *)
(* correctly.                                                              *)
LEMMA BackgroundWritebackP ==
  ASSUME PInv, NEW p \in Pages, BackgroundWriteback(p)
  PROVE  PInv'
  <1>1. Types /\ PLocal(p)
    BY Zenon DEF PInv
  <1>2. Types'
    BY <1>1, Zenon DEF Types, BackgroundWriteback, write_cache_pages, stashv, hist, Where,
       Ctx, YesNo, Callers, Errs
  <1>3. \A q \in Pages \ {p} : SameCtx(q)
    BY <1>1, Zenon DEF Types, SameCtx, BackgroundWriteback, write_cache_pages
  <1>4. PLocal(p)'
    BY <1>1, Zenon DEF Types, Ctx, YesNo, Callers, PLocal, BackgroundWriteback,
       write_cache_pages
  <1>5. Handed(p)
    BY <1>1, Zenon DEF Types, Ctx, YesNo, PLocal, Handed, Holds, BackgroundWriteback,
       write_cache_pages
  <1> QED
    BY <1>2, <1>3, <1>4, <1>5, OnePage, Zenon

(* A page goes under writeback and takes wpage_sem: the semaphore is       *)
(* handed on correctly.                                                    *)
LEMMA Allow_cur_thread_wpageP ==
  ASSUME PInv, NEW p \in Pages, allow_cur_thread_wpage(p)
  PROVE  PInv'
  <1>1. Types /\ PLocal(p)
    BY Zenon DEF PInv
  <1>2. Types'
    <2>1. where' \in [Pages -> Where]
      BY <1>1, Zenon DEF Types, Where, allow_cur_thread_wpage, Move
    <2>2. ctx' \in [Pages -> Ctx]
      <3>1. ctx' = ctx \/ ctx' = [ctx EXCEPT ![p].rsem_held = "yes"]
        BY Zenon DEF allow_cur_thread_wpage
      <3>2. ctx \in [Pages -> Ctx]
        BY <1>1, Zenon DEF Types
      <3> QED
        BY <1>1, <3>1, <3>2, CtxSet, Zenon
    <2> QED
      BY <1>1, <2>1, <2>2, Zenon DEF Types, stashv, hist, allow_cur_thread_wpage, Move
  <1>3. \A q \in Pages \ {p} : SameCtx(q)
    BY <1>1, Zenon DEF Types, SameCtx, allow_cur_thread_wpage, Move
  <1>4. PLocal(p)'
    BY <1>1 DEF Types, Ctx, YesNo, Callers, PLocal, allow_cur_thread_wpage, Move
  <1>5. Handed(p)
    BY <1>1, ZenonT(30), ZenonT(30) DEF Types, Ctx, YesNo, PLocal, Handed,
       Holds, allow_cur_thread_wpage, Move
  <1> QED
    BY <1>2, <1>3, <1>4, <1>5, OnePage, Zenon

(* A page is refused wpage_sem: the semaphore is handed on correctly.      *)
LEMMA WpageRefusedP ==
  ASSUME PInv, NEW p \in Pages, WpageRefused(p)
  PROVE  PInv'
  <1>1. Types /\ PLocal(p)
    BY Zenon DEF PInv
  <1>2. Types'
    BY <1>1, Zenon DEF Types, WpageRefused, Move, stashv, hist, Where, Ctx, YesNo, Callers,
       Errs
  <1>3. \A q \in Pages \ {p} : SameCtx(q)
    BY <1>1, Zenon DEF Types, SameCtx, WpageRefused, Move
  <1>4. PLocal(p)'
    BY <1>1, Zenon DEF Types, Ctx, YesNo, Callers, PLocal, WpageRefused, Move
  <1>5. Handed(p)
    BY <1>1, Zenon DEF Types, Ctx, YesNo, PLocal, Handed, Holds, WpageRefused, Move
  <1> QED
    BY <1>2, <1>3, <1>4, <1>5, OnePage, Zenon

(* There is no memory for a context: the semaphore is handed on correctly. *)
LEMMA WpageOomP ==
  ASSUME PInv, NEW p \in Pages, WpageOom(p)
  PROVE  PInv'
  <1>1. Types /\ PLocal(p)
    BY Zenon DEF PInv
  <1>2. Types'
    <2>1. where' \in [Pages -> Where]
      BY <1>1, Zenon DEF Types, Where, WpageOom, Failing, Move
    <2>2. ctx' \in [Pages -> Ctx]
      BY <1>1, CtxSet, Zenon DEF Types, Errs, WpageOom, Failing, Move
    <2> QED
      BY <1>1, <2>1, <2>2, Zenon DEF Types, stashv, hist, WpageOom, Failing, Move
  <1>3. \A q \in Pages \ {p} : SameCtx(q)
    BY <1>1, Zenon DEF Types, SameCtx, WpageOom, Failing, Move
  <1>4. PLocal(p)'
    BY <1>1, Zenon DEF Types, Ctx, YesNo, Callers, PLocal, WpageOom, Failing, Move
  <1>5. Handed(p)
    BY <1>1, Zenon DEF Types, Ctx, YesNo, PLocal, Handed, Holds, WpageOom, Failing, Move
  <1> QED
    BY <1>2, <1>3, <1>4, <1>5, OnePage, Zenon

(* A signal cancels a page of flush(): the semaphore is handed on          *)
(* correctly.                                                              *)
LEMMA WpageSignalP ==
  ASSUME PInv, NEW p \in Pages, WpageSignal(p)
  PROVE  PInv'
  <1>1. Types /\ PLocal(p)
    BY Zenon DEF PInv
  <1>2. Types'
    <2>1. where' \in [Pages -> Where]
      BY <1>1, Zenon DEF Types, Where, WpageSignal, Failing, Move
    <2>2. ctx' \in [Pages -> Ctx]
      BY <1>1, CtxSet, Zenon DEF Types, Errs, WpageSignal, Failing, Move
    <2> QED
      BY <1>1, <2>1, <2>2, Zenon DEF Types, stashv, hist, WpageSignal, Failing, Move
  <1>3. \A q \in Pages \ {p} : SameCtx(q)
    BY <1>1, Zenon DEF Types, SameCtx, WpageSignal, Failing, Move
  <1>4. PLocal(p)'
    BY <1>1, Zenon DEF Types, Ctx, YesNo, Callers, PLocal, WpageSignal, Failing, Move
  <1>5. Handed(p)
    BY <1>1, Zenon DEF Types, Ctx, YesNo, PLocal, Handed, Holds, WpageSignal, Failing, Move
  <1> QED
    BY <1>2, <1>3, <1>4, <1>5, OnePage, Zenon

(* A page is directed to the server or to the stash file: the semaphore is *)
(* handed on correctly.                                                    *)
LEMMA Hmdfs_remote_write_to_remoteP ==
  ASSUME PInv, NEW p \in Pages, hmdfs_remote_write_to_remote(p)
  PROVE  PInv'
  <1>1. Types /\ PLocal(p)
    BY Zenon DEF PInv
  <1>2. Types'
    BY <1>1, Zenon DEF Types, hmdfs_remote_write_to_remote, Move, stashv, hist, Where, Ctx,
       YesNo, Callers, Errs
  <1>3. \A q \in Pages \ {p} : SameCtx(q)
    BY <1>1, Zenon DEF Types, SameCtx, hmdfs_remote_write_to_remote, Move
  <1>4. PLocal(p)'
    BY <1>1, Zenon DEF Types, Ctx, YesNo, Callers, PLocal, hmdfs_remote_write_to_remote, Move
  <1>5. Handed(p)
    BY <1>1, Zenon DEF Types, Ctx, YesNo, PLocal, Handed, Holds, hmdfs_remote_write_to_remote,
       Move
  <1> QED
    BY <1>2, <1>3, <1>4, <1>5, OnePage, Zenon

(* A page is sent: the semaphore is handed on correctly.                   *)
LEMMA Hmdfs_client_writepageP ==
  ASSUME PInv, NEW p \in Pages, hmdfs_client_writepage(p)
  PROVE  PInv'
  <1>1. Types /\ PLocal(p)
    BY Zenon DEF PInv
  <1>2. Types'
    <2>1. where' \in [Pages -> Where]
      BY <1>1, Zenon DEF Types, Where, hmdfs_client_writepage, Defer, Move
    <2>2. ctx' \in [Pages -> Ctx]
      BY <1>1, CtxSet, Zenon DEF Types, Errs, hmdfs_client_writepage, Defer, Move
    <2> QED
      BY <1>1, <2>1, <2>2, Zenon DEF Types, stashv, hist, hmdfs_client_writepage, Defer, Move
  <1>3. \A q \in Pages \ {p} : SameCtx(q)
    BY <1>1, Zenon DEF Types, SameCtx, hmdfs_client_writepage, Defer, Move
  <1>4. PLocal(p)'
    BY <1>1, Zenon DEF Types, Ctx, YesNo, Callers, PLocal, hmdfs_client_writepage, Defer, Move
  <1>5. Handed(p)
    BY <1>1, Zenon DEF Types, Ctx, YesNo, PLocal, Handed, Holds, hmdfs_client_writepage,
       Defer, Move
  <1> QED
    BY <1>2, <1>3, <1>4, <1>5, OnePage, Zenon

(* A page cannot be sent: the semaphore is handed on correctly.            *)
LEMMA SendFailsP ==
  ASSUME PInv, NEW p \in Pages, NEW err \in {"EAGAIN", "ESHUTDOWN", "ENOMEM"}, SendFails(p, err)
  PROVE  PInv'
  <1>1. Types /\ PLocal(p)
    BY Zenon DEF PInv
  <1>2. Types'
    <2>1. where' \in [Pages -> Where]
      BY <1>1, SwitchAssumption, Zenon DEF Types, Where, SendFails, Defer, Failing, Move
    <2>2. ctx' \in [Pages -> Ctx]
      <3>1. \/ ctx' = [ctx EXCEPT ![p].from = "cb"]
            \/ ctx' = [ctx EXCEPT ![p].err = err]
        BY Zenon DEF SendFails, Defer, Failing
      <3>2. err \in Errs
        BY Zenon DEF Errs
      <3>3. [ctx EXCEPT ![p].from = "cb"] \in [Pages -> Ctx]
        BY <1>1, CtxSet, Zenon
      <3>4. [ctx EXCEPT ![p].err = err] \in [Pages -> Ctx]
        BY <1>1, <3>2, CtxSet, Zenon
      <3> QED
        BY <3>1, <3>3, <3>4, Zenon
    <2> QED
      BY <1>1, SwitchAssumption, <2>1, <2>2, Zenon DEF Types, stashv, hist, SendFails, Defer,
         Failing, Move
  <1>3. \A q \in Pages \ {p} : SameCtx(q)
    BY <1>1, Zenon DEF Types, SameCtx, SendFails, Defer, Failing, Move
  <1>4. PLocal(p)'
    BY <1>1 DEF Types, Ctx, YesNo, Callers, PLocal, SendFails, Defer,
       Failing, Move
  <1>5. Handed(p)
    BY <1>1 DEF Types, Ctx, YesNo, PLocal, Handed, Holds, SendFails, Defer,
       Failing, Move
  <1> QED
    BY <1>2, <1>3, <1>4, <1>5, OnePage, Zenon

(* A page is retried: the semaphore is handed on correctly.                *)
LEMMA Hmdfs_remote_writepage_retryP ==
  ASSUME PInv, NEW p \in Pages, hmdfs_remote_writepage_retry(p)
  PROVE  PInv'
  <1>1. Types /\ PLocal(p)
    BY Zenon DEF PInv
  <1>2. Types'
    BY <1>1, Zenon DEF Types, hmdfs_remote_writepage_retry, Move, stashv, hist, Where, Ctx,
       YesNo, Callers, Errs
  <1>3. \A q \in Pages \ {p} : SameCtx(q)
    BY <1>1, Zenon DEF Types, SameCtx, hmdfs_remote_writepage_retry, Move
  <1>4. PLocal(p)'
    BY <1>1, Zenon DEF Types, Ctx, YesNo, Callers, PLocal, hmdfs_remote_writepage_retry, Move
  <1>5. Handed(p)
    BY <1>1, Zenon DEF Types, Ctx, YesNo, PLocal, Handed, Holds, hmdfs_remote_writepage_retry,
       Move
  <1> QED
    BY <1>2, <1>3, <1>4, <1>5, OnePage, Zenon

(* The server acknowledges a page: the semaphore is handed on correctly.   *)
LEMMA WritepageDoneP ==
  ASSUME PInv, NEW p \in Pages, WritepageDone(p)
  PROVE  PInv'
  <1>1. Types /\ PLocal(p)
    BY Zenon DEF PInv
  <1>2. Types'
    BY <1>1, Zenon DEF Types, WritepageDone, Move, Released, stashv, hist, Where, Ctx, YesNo,
       Callers, Errs
  <1>3. \A q \in Pages \ {p} : SameCtx(q)
    BY <1>1, Zenon DEF Types, SameCtx, WritepageDone, Move, Released
  <1>4. PLocal(p)'
    BY <1>1, Zenon DEF Types, Ctx, YesNo, Callers, PLocal, WritepageDone, Move, Released
  <1>5. Handed(p)
    BY <1>1, Zenon DEF Types, Ctx, YesNo, PLocal, Handed, Holds, WritepageDone, Move, Released
  <1> QED
    BY <1>2, <1>3, <1>4, <1>5, OnePage, Zenon

(* A page is redone: the semaphore is handed on correctly.                 *)
LEMMA RedoP ==
  ASSUME PInv, NEW p \in Pages, NEW err \in ServerErr, Redo(p, err)
  PROVE  PInv'
  <1>1. Types /\ PLocal(p)
    BY Zenon DEF PInv
  <1>2. Types'
    BY <1>1, SwitchAssumption, Zenon DEF Types, Redo, Move, stashv, hist, Where, Ctx, YesNo,
       Callers, Errs
  <1>3. \A q \in Pages \ {p} : SameCtx(q)
    BY <1>1, Zenon DEF Types, SameCtx, Redo, Move
  <1>4. PLocal(p)'
    BY <1>1, Zenon DEF Types, Ctx, YesNo, Callers, PLocal, Redo, Move
  <1>5. Handed(p)
    BY <1>1, Zenon DEF Types, Ctx, YesNo, PLocal, Handed, Holds, Redo, Move
  <1> QED
    BY <1>2, <1>3, <1>4, <1>5, OnePage, Zenon

(* The server refuses a page, or does not answer: the semaphore is handed  *)
(* on correctly.                                                           *)
LEMMA AnswerFailsP ==
  ASSUME PInv, NEW p \in Pages, NEW err \in ServerErr, AnswerFails(p, err)
  PROVE  PInv'
  <1>1. Types /\ PLocal(p)
    BY Zenon DEF PInv
  <1>2. Types'
    <2>1. where' \in [Pages -> Where]
      BY <1>1, SwitchAssumption, Zenon DEF Types, Where, AnswerFails, Failing, Move
    <2>2. ctx' \in [Pages -> Ctx]
      BY <1>1, SwitchAssumption, CtxSet, Zenon DEF Types, Errs, AnswerFails, Failing, Move
    <2> QED
      BY <1>1, SwitchAssumption, <2>1, <2>2, Zenon DEF Types, stashv, hist, AnswerFails,
         Failing, Move
  <1>3. \A q \in Pages \ {p} : SameCtx(q)
    BY <1>1, Zenon DEF Types, SameCtx, AnswerFails, Failing, Move
  <1>4. PLocal(p)'
    BY <1>1, Zenon DEF Types, Ctx, YesNo, Callers, PLocal, AnswerFails, Failing, Move
  <1>5. Handed(p)
    BY <1>1, ZenonT(30), ZenonT(30) DEF Types, Ctx, YesNo, PLocal, Handed,
       Holds, AnswerFails, Failing, Move
  <1> QED
    BY <1>2, <1>3, <1>4, <1>5, OnePage, Zenon

(* There is no stash file: the semaphore is handed on correctly.           *)
LEMMA StashWithoutCacheP ==
  ASSUME PInv, NEW p \in Pages, StashWithoutCache(p)
  PROVE  PInv'
  <1>1. Types /\ PLocal(p)
    BY Zenon DEF PInv
  <1>2. Types'
    <2>1. where' \in [Pages -> Where]
      BY <1>1, Zenon DEF Types, Where, StashWithoutCache, Failing, Move
    <2>2. ctx' \in [Pages -> Ctx]
      BY <1>1, CtxSet, Zenon DEF Types, Errs, StashWithoutCache, Failing, Move
    <2> QED
      BY <1>1, <2>1, <2>2, Zenon DEF Types, stashv, hist, StashWithoutCache, Failing, Move
  <1>3. \A q \in Pages \ {p} : SameCtx(q)
    BY <1>1, Zenon DEF Types, SameCtx, StashWithoutCache, Failing, Move
  <1>4. PLocal(p)'
    BY <1>1, Zenon DEF Types, Ctx, YesNo, Callers, PLocal, StashWithoutCache, Failing, Move
  <1>5. Handed(p)
    BY <1>1, Zenon DEF Types, Ctx, YesNo, PLocal, Handed, Holds, StashWithoutCache, Failing,
       Move
  <1> QED
    BY <1>2, <1>3, <1>4, <1>5, OnePage, Zenon

(* A page is written to the stash file: the semaphore is handed on         *)
(* correctly.                                                              *)
LEMMA Hmdfs_stash_writepageP ==
  ASSUME PInv, NEW p \in Pages, hmdfs_stash_writepage(p)
  PROVE  PInv'
  <1>1. Types /\ PLocal(p)
    BY Zenon DEF PInv
  <1>2. Types'
    BY <1>1, Zenon DEF Types, hmdfs_stash_writepage, Move, stashv, hist, Where, Ctx, YesNo,
       Callers, Errs
  <1>3. \A q \in Pages \ {p} : SameCtx(q)
    BY <1>1, Zenon DEF Types, SameCtx, hmdfs_stash_writepage, Move
  <1>4. PLocal(p)'
    BY <1>1, Zenon DEF Types, Ctx, YesNo, Callers, PLocal, hmdfs_stash_writepage, Move
  <1>5. Handed(p)
    BY <1>1, Zenon DEF Types, Ctx, YesNo, PLocal, Handed, Holds, hmdfs_stash_writepage, Move
  <1> QED
    BY <1>2, <1>3, <1>4, <1>5, OnePage, Zenon

(* A page is in the stash file: the semaphore is handed on correctly.      *)
LEMMA StashWriteDoneP ==
  ASSUME PInv, NEW p \in Pages, StashWriteDone(p)
  PROVE  PInv'
  <1>1. Types /\ PLocal(p)
    BY Zenon DEF PInv
  <1>2. Types'
    BY <1>1, Zenon DEF Types, StashWriteDone, Move, Released, stashv, hist, Where, Ctx, YesNo,
       Callers, Errs
  <1>3. \A q \in Pages \ {p} : SameCtx(q)
    BY <1>1, Zenon DEF Types, SameCtx, StashWriteDone, Move, Released
  <1>4. PLocal(p)'
    BY <1>1, Zenon DEF Types, Ctx, YesNo, Callers, PLocal, StashWriteDone, Move, Released
  <1>5. Handed(p)
    BY <1>1, Zenon DEF Types, Ctx, YesNo, PLocal, Handed, Holds, StashWriteDone, Move,
       Released
  <1> QED
    BY <1>2, <1>3, <1>4, <1>5, OnePage, Zenon

(* A page cannot be written to the stash file: the semaphore is handed on  *)
(* correctly.                                                              *)
LEMMA StashWriteFailsP ==
  ASSUME PInv, NEW p \in Pages, StashWriteFails(p)
  PROVE  PInv'
  <1>1. Types /\ PLocal(p)
    BY Zenon DEF PInv
  <1>2. Types'
    <2>1. where' \in [Pages -> Where]
      BY <1>1, Zenon DEF Types, Where, StashWriteFails, Failing, Move
    <2>2. ctx' \in [Pages -> Ctx]
      BY <1>1, CtxSet, Zenon DEF Types, Errs, StashWriteFails, Failing, Move
    <2> QED
      BY <1>1, <2>1, <2>2, Zenon DEF Types, stashv, hist, StashWriteFails, Failing, Move
  <1>3. \A q \in Pages \ {p} : SameCtx(q)
    BY <1>1, Zenon DEF Types, SameCtx, StashWriteFails, Failing, Move
  <1>4. PLocal(p)'
    BY <1>1, Zenon DEF Types, Ctx, YesNo, Callers, PLocal, StashWriteFails, Failing, Move
  <1>5. Handed(p)
    BY <1>1, Zenon DEF Types, Ctx, YesNo, PLocal, Handed, Holds, StashWriteFails, Failing,
       Move
  <1> QED
    BY <1>2, <1>3, <1>4, <1>5, OnePage, Zenon

(* The writeback of a page ends with an error: the semaphore is handed on  *)
(* correctly.                                                              *)
LEMMA EndWritebackP ==
  ASSUME PInv, NEW p \in Pages, EndWriteback(p)
  PROVE  PInv'
  <1>1. Types /\ PLocal(p)
    BY Zenon DEF PInv
  <1>2. Types'
    BY <1>1, Zenon DEF Types, EndWriteback, Move, Released, stashv, hist, Where, Ctx, YesNo,
       Callers, Errs
  <1>3. \A q \in Pages \ {p} : SameCtx(q)
    BY <1>1, Zenon DEF Types, SameCtx, EndWriteback, Move, Released
  <1>4. PLocal(p)'
    BY <1>1, Zenon DEF Types, Ctx, YesNo, Callers, PLocal, EndWriteback, Move, Released
  <1>5. Handed(p)
    BY <1>1, Zenon DEF Types, Ctx, YesNo, PLocal, Handed, Holds, EndWriteback, Move, Released
  <1> QED
    BY <1>2, <1>3, <1>4, <1>5, OnePage, Zenon

(* The caller learns of the error of a page: the semaphore is handed on    *)
(* correctly.                                                              *)
LEMMA CallFailsP ==
  ASSUME PInv, NEW p \in Pages, CallFails(p)
  PROVE  PInv'
  <1>1. Types /\ PLocal(p)
    BY Zenon DEF PInv
  <1>2. Types'
    <2>1. where' \in [Pages -> Where]
      BY <1>1, Zenon DEF Types, Where, CallFails, GiveUp, Redirty, Move
    <2>2. ctx' \in [Pages -> Ctx]
      BY <1>1, Zenon DEF Types, CallFails, GiveUp, Redirty, Move
    <2> QED
      BY <1>1, <2>1, <2>2, Zenon DEF Types, stashv, hist, CallFails, GiveUp, Redirty, Move
  <1>3. \A q \in Pages \ {p} : SameCtx(q)
    BY <1>1, Zenon DEF Types, SameCtx, CallFails, GiveUp, Redirty, Move
  <1>4. PLocal(p)'
    BY <1>1, Zenon DEF Types, Ctx, YesNo, Callers, PLocal, CallFails, GiveUp, Redirty, Move
  <1>5. Handed(p)
    BY <1>1, Zenon DEF Types, Ctx, YesNo, PLocal, Handed, Holds, CallFails, GiveUp, Redirty,
       Move
  <1> QED
    BY <1>2, <1>3, <1>4, <1>5, OnePage, Zenon

(* A page fails after its caller has left: the semaphore is handed on      *)
(* correctly.                                                              *)
LEMMA Hmdfs_client_writepage_errP ==
  ASSUME PInv, NEW p \in Pages, hmdfs_client_writepage_err(p)
  PROVE  PInv'
  <1>1. Types /\ PLocal(p)
    BY Zenon DEF PInv
  <1>2. Types'
    <2>1. where' \in [Pages -> Where]
      BY <1>1, Zenon DEF Types, Where, hmdfs_client_writepage_err, GiveUp, Redirty, Move,
         Released
    <2>2. ctx' \in [Pages -> Ctx]
      BY <1>1, Zenon DEF Types, hmdfs_client_writepage_err, GiveUp, Redirty, Move, Released
    <2> QED
      BY <1>1, <2>1, <2>2, Zenon DEF Types, stashv, hist, hmdfs_client_writepage_err, GiveUp,
         Redirty, Move, Released
  <1>3. \A q \in Pages \ {p} : SameCtx(q)
    BY <1>1, Zenon DEF Types, SameCtx, hmdfs_client_writepage_err, GiveUp, Redirty, Move,
       Released
  <1>4. PLocal(p)'
    BY <1>1, Zenon DEF Types, Ctx, YesNo, Callers, PLocal, hmdfs_client_writepage_err, GiveUp,
       Redirty, Move, Released
  <1>5. Handed(p)
    BY <1>1, Zenon DEF Types, Ctx, YesNo, PLocal, Handed, Holds, hmdfs_client_writepage_err,
       GiveUp, Redirty, Move, Released
  <1> QED
    BY <1>2, <1>3, <1>4, <1>5, OnePage, Zenon

(* A page of the batch of the flush is picked, or was clean already: the   *)
(* semaphore is not touched.                                               *)
LEMMA FlushPageP ==
  ASSUME PInv, NEW p \in Pages, FlushPage(p)
  PROVE  PInv'
  <1>1. Types /\ PLocal(p)
    BY Zenon DEF PInv
  <1>2. CASE p \notin dirty
    <2>1. UNCHANGED <<pagev, acked, gaveup, forgotten, stashed>>
      BY <1>2, Zenon DEF FlushPage, stashv, hist
    <2>2. Types' /\ UNCHANGED <<where, ctx, readers>>
      BY <1>1, <2>1, Zenon DEF Types, pagev
    <2> QED
      BY <2>1, <2>2, NoPage, Zenon
  <1>3. CASE p \in dirty
    <2>1. write_cache_pages(p, "flush", "yes") /\ UNCHANGED <<acked, gaveup, forgotten, stashed>>
      BY <1>3, Zenon DEF FlushPage, stashv, hist
    <2>2. Types'
      BY <1>1, <2>1, Zenon DEF Types, write_cache_pages, Where, Ctx, YesNo, Callers, Errs
    <2>3. \A q \in Pages \ {p} : SameCtx(q)
      BY <1>1, <2>1, Zenon DEF Types, SameCtx, write_cache_pages
    <2>4. PLocal(p)'
      BY <1>1, <2>1, Zenon DEF Types, PLocal, write_cache_pages
    <2>5. Handed(p)
      BY <1>1, <2>1, Zenon DEF Types, PLocal, Handed, Holds, write_cache_pages
    <2> QED
      BY <2>2, <2>3, <2>4, <2>5, OnePage, Zenon
  <1> QED
    BY <1>2, <1>3, Zenon

(* A page of the batch of the stash is picked, or was clean already: the   *)
(* semaphore is not touched.                                               *)
LEMMA StashPageP ==
  ASSUME PInv, NEW p \in Pages, StashPage(p)
  PROVE  PInv'
  <1>1. Types /\ PLocal(p)
    BY Zenon DEF PInv
  <1>2. CASE p \notin dirty
    <2>1. UNCHANGED <<pagev, acked, gaveup, forgotten, stashed>>
      BY <1>2, Zenon DEF StashPage, stashv, hist
    <2>2. Types' /\ UNCHANGED <<where, ctx, readers>>
      BY <1>1, <2>1, Zenon DEF Types, pagev
    <2> QED
      BY <2>1, <2>2, NoPage, Zenon
  <1>3. CASE p \in dirty
    <2>1. write_cache_pages(p, "stash", "yes") /\ UNCHANGED <<acked, gaveup, forgotten, stashed>>
      BY <1>3, Zenon DEF StashPage, stashv, hist
    <2>2. Types'
      BY <1>1, <2>1, Zenon DEF Types, write_cache_pages, Where, Ctx, YesNo, Callers, Errs
    <2>3. \A q \in Pages \ {p} : SameCtx(q)
      BY <1>1, <2>1, Zenon DEF Types, SameCtx, write_cache_pages
    <2>4. PLocal(p)'
      BY <1>1, <2>1, Zenon DEF Types, PLocal, write_cache_pages
    <2>5. Handed(p)
      BY <1>1, <2>1, Zenon DEF Types, PLocal, Handed, Holds, write_cache_pages
    <2> QED
      BY <2>2, <2>3, <2>4, <2>5, OnePage, Zenon
  <1> QED
    BY <1>2, <1>3, Zenon

(* Steps that touch neither a page nor what became of it.                  *)
Quiet ==
  \/ hmdfs_file_write_iter_remote \/ WriteReturns \/ \E c \in counting : CountPage(c)
  \/ FlushStart \/ FlushStep \/ FlushAgain
  \/ NodeStatus \/ hmdfs_init_stash_file_cache \/ (StashStep /\ ~hmdfs_stash_remote_inode)

(* They leave the pages alone.                                             *)
LEMMA QuietSteps ==
  ASSUME Quiet
  PROVE  UNCHANGED <<ver, dirty, tagged, where, ctx, readers, stashed, acked, gaveup, forgotten>>
  <1>1. CASE hmdfs_file_write_iter_remote
    BY <1>1, Zenon DEF hmdfs_file_write_iter_remote, pagev, stashv, hist
  <1>2. CASE WriteReturns
    BY <1>2, Zenon DEF WriteReturns, pagev, stashv, hist
  <1>3. CASE FlushStart
    BY <1>3, Zenon DEF FlushStart, pagev, stashv, hist
  <1>4. CASE FlushDownWrite
    BY <1>4, Zenon DEF FlushDownWrite, pagev, stashv, hist
  <1>5. CASE FlushReturns
    BY <1>5, Zenon DEF FlushReturns, pagev, stashv, hist
  <1>6. CASE FlushAgain
    BY <1>6, Zenon DEF FlushAgain, pagev, stashv, hist
  <1>7. CASE NodeStatus
    BY <1>7, Zenon DEF NodeStatus, pagev, stashv, hist
  <1>8. CASE hmdfs_init_stash_file_cache
    BY <1>8, Zenon DEF hmdfs_init_stash_file_cache, pagev, stashv, hist
  <1>9. CASE StashInodeLock
    BY <1>9, Zenon DEF StashInodeLock, pagev, stashv, hist
  <1>10. CASE StashCheckDirty
    BY <1>10, Zenon DEF StashCheckDirty, pagev, stashv, hist
  <1>11. CASE hmdfs_wait_remote_writeback_once
    BY <1>11, Zenon DEF hmdfs_wait_remote_writeback_once, pagev, stashv, hist
  <1>12. CASE StashRoundDone
    BY <1>12, Zenon DEF StashRoundDone, pagev, stashv, hist
  <1>13. CASE hmdfs_close_stash_file
    BY <1>13, Zenon DEF hmdfs_close_stash_file, pagev, stashv, hist
  <1>14. CASE hmdfs_flush_stash_file_metadata
    BY <1>14, Zenon DEF hmdfs_flush_stash_file_metadata, pagev, stashv, hist
  <1>15. CASE \E c \in counting : CountPage(c)
    BY <1>15, Zenon DEF CountPage, pagev, hist
  <1>16. CASE FlushLocked
    BY <1>16, Zenon DEF FlushLocked, pagev, stashv, hist
  <1> QED
    BY <1>1, <1>2, <1>3, <1>4, <1>5, <1>6, <1>7, <1>8, <1>9, <1>10, <1>11,
       <1>12, <1>13, <1>14, <1>15, <1>16, ZenonT(30), ZenonT(30) DEF Quiet,
       StashStep, FlushStep

(* The stash file is closed and, unless it was linked, gone.               *)
LEMMA Hmdfs_stash_remote_inodeP ==
  ASSUME PInv, hmdfs_stash_remote_inode
  PROVE  PInv'
  <1>1. UNCHANGED <<ver, dirty, tagged, where, ctx, readers, acked>>
    BY Zenon DEF hmdfs_stash_remote_inode, pagev
  <1>2. Types'
    BY <1>1, Zenon DEF PInv, Types, hmdfs_stash_remote_inode
  <1> QED
    BY <1>1, <1>2, NoPage, Zenon

(* The time of a page runs out.                                            *)
LEMMA ExpireP ==
  ASSUME PInv, NEW p \in Pages, Expire(p)
  PROVE  PInv'
  <1>1. UNCHANGED <<ver, dirty, tagged, where, ctx, readers, stashed, acked, gaveup, forgotten>>
    BY Zenon DEF Expire, stashv, hist
  <1>2. Types'
    BY <1>1, Zenon DEF PInv, Types
  <1> QED
    BY <1>1, <1>2, NoPage, Zenon

(* The first state.                                                        *)
LEMMA InitP == Init => PInv
  <1> SUFFICES ASSUME Init PROVE PInv
    BY Zenon
  <1>1. Types
    BY Zenon DEF Init, Types, Where, Ctx, NoCtx, YesNo, Callers, Errs
  <1>2. Holders = {} /\ readers = 0
    BY Zenon DEF Init, Holders, Holds
  <1>3. \A p \in Pages : PLocal(p)
    BY Zenon DEF Init, PLocal, NoCtx
  <1> QED
    BY <1>1, <1>2, <1>3, FS_EmptySet, Zenon DEF PInv

(* Every step.                                                             *)
LEMMA NextP == PInv /\ [Next]_vars => PInv'
  <1> SUFFICES ASSUME PInv, [Next]_vars PROVE PInv'
    BY Zenon
  <1>1. CASE UNCHANGED vars
    <2>1. UNCHANGED <<ver, dirty, tagged, where, ctx, readers, stashed, acked, gaveup, forgotten>>
      BY <1>1, Zenon DEF vars, pagev, stashv, hist
    <2>2. Types'
      BY <2>1, Zenon DEF PInv, Types
    <2> QED
      BY <2>1, <2>2, NoPage, Zenon
  <1>2. CASE Quiet
    <2>1. Types'
      BY <1>2, QuietSteps, Zenon DEF PInv, Types
    <2> QED
      BY <1>2, <2>1, QuietSteps, NoPage, Zenon
  <1>3. ASSUME NEW p \in Pages, Settle(p) PROVE PInv'
    BY <1>3, Allow_cur_thread_wpageP, WpageRefusedP,
       Hmdfs_remote_write_to_remoteP, Hmdfs_client_writepageP, SendFailsP,
       Hmdfs_remote_writepage_retryP, WritepageDoneP, RedoP, AnswerFailsP,
       StashWithoutCacheP, Hmdfs_stash_writepageP, StashWriteDoneP,
       StashWriteFailsP, EndWritebackP, CallFailsP, Hmdfs_client_writepage_errP,
       ZenonT(30), ZenonT(30) DEF Settle
  <1>4. ASSUME NEW p \in Pages,
               \/ hmdfs_write_end_remote(p) \/ BackgroundWriteback(p) \/ WpageOom(p)
               \/ WpageSignal(p) \/ Expire(p) \/ FlushPage(p) \/ StashPage(p)
        PROVE  PInv'
    BY <1>4, Hmdfs_write_end_remoteP, BackgroundWritebackP, WpageOomP, WpageSignalP, ExpireP,
       FlushPageP, StashPageP, Zenon
  <1>5. CASE hmdfs_stash_remote_inode
    BY <1>5, Hmdfs_stash_remote_inodeP, Zenon
  <1> QED
    BY <1>1, <1>2, <1>3, <1>4, <1>5, Zenon DEF Next, Quiet

(* wpage_sem, taken in hmdfs_writepage_remote and released by whichever    *)
(* thread ends the writeback, has exactly the readers its pages' contexts  *)
(* say: for any number of pages and whatever fails.                        *)
THEOREM SemaphoreSafe == Spec => []ReadersExact
  <1>1. PInv => ReadersExact
    BY HoldersAre, Zenon DEF PInv, ReadersExact
  <1> QED
    BY <1>1, InitP, NextP, PTL DEF Spec

-----------------------------------------------------------------------------
(* The stash of the inode and write().                                     *)

StashPcs == {"idle", "inode_lock", "dirty", "wait_once", "write", "metadata", "link", "close",
             "done"}
StashTypes ==
  stash \in [pc : StashPcs, todo : SUBSET Pages, ret : {"0", "1", "EIO", "EINVAL"}, round : Nat]

(* From the inode lock on, until the inode leaves STASHING, or for good if *)
(* it is left RESTORING.                                                   *)
Frozen ==
  \/ stash.pc \in {"dirty", "wait_once", "write", "metadata", "link", "close"}
  \/ stash.pc = "done" /\ stash.ret = "1"

FInv ==
  /\ StashTypes
  /\ stash.pc = "idle" => stash_status = "NONE"
  /\ stash.pc \notin {"idle", "done"} => StashEnabled /\ stash_status = "STASHING"
  /\ stash.pc = "done" /\ stash.ret = "1" => StashEnabled /\ stash_status = "RESTORING"
  /\ stash.pc \in {"idle", "inode_lock", "dirty", "wait_once"} => stash.round = 0
  /\ Frozen => i_rwsem = "free"

(* A step that neither moves the stash nor starts a write() keeps this.    *)
LEMMA NotStash ==
  ASSUME FInv, UNCHANGED <<stash, stash_status>>, i_rwsem' = i_rwsem \/ i_rwsem' = "free"
  PROVE  FInv'
  BY Zenon DEF FInv, StashTypes, Frozen

(* Every step keeps it: a write() cannot start once the inode is STASHING, *)
(* and the stash waits for one that has started.                           *)
LEMMA NextF ==
  ASSUME Types, FInv, [Next]_vars
  PROVE  FInv'
  <1>1. CASE hmdfs_file_write_iter_remote
    <2>1. UNCHANGED <<stash, stash_status>> /\ ~hmdfs_is_file_unwritable
      BY <1>1, Zenon DEF hmdfs_file_write_iter_remote, stashv, hist
    <2>2. ~Frozen
      BY <2>1, Zenon DEF FInv, Frozen, hmdfs_is_file_unwritable
    <2> QED
      BY <2>1, <2>2, Zenon DEF FInv, StashTypes, Frozen
  <1>2. ASSUME NEW p \in Pages, CallFails(p) PROVE FInv'
    <2>1. UNCHANGED <<stash_status, i_rwsem>>
      BY <1>2, Zenon DEF CallFails, stashv, hist
    <2>2. stash' = stash \/ stash' = [stash EXCEPT !.ret = "EIO"]
      BY <1>2, Zenon DEF CallFails
    <2> QED
      BY <2>1, <2>2, Zenon DEF FInv, StashTypes, StashPcs, Frozen
  <1>3. ASSUME NEW p \in Pages, StashPage(p) PROVE FInv'
    <2>1. UNCHANGED <<stash_status, i_rwsem>> /\ stash' = [stash EXCEPT !.todo = @ \ {p}]
      BY <1>3, Zenon DEF StashPage, stashv, hist
    <2> QED
      BY <2>1, Zenon DEF FInv, StashTypes, StashPcs, Frozen
  <1>4. CASE hmdfs_init_stash_file_cache
    BY <1>4, Zenon DEF FInv, StashTypes, StashPcs, Frozen, hmdfs_init_stash_file_cache, Types,
       stashv, hist
  <1>5. CASE StashInodeLock
    BY <1>5, Zenon DEF FInv, StashTypes, StashPcs, Frozen, StashInodeLock, Types, stashv, hist
  <1>6. CASE StashCheckDirty
    BY <1>6, ZenonT(30), ZenonT(30) DEF FInv, StashTypes, StashPcs, Frozen,
       StashCheckDirty, Types, stashv, hist
  <1>7. CASE hmdfs_wait_remote_writeback_once
    BY <1>7, Zenon DEF FInv, StashTypes, StashPcs, Frozen, hmdfs_wait_remote_writeback_once,
       Types, stashv, hist
  <1>8. CASE StashRoundDone
    <2>1. UNCHANGED <<stash_status, i_rwsem>> /\ stash.pc = "write"
      BY <1>8, Zenon DEF StashRoundDone, stashv, hist
    <2>2. \/ stash' = [stash EXCEPT !.pc = "close", !.ret = "EIO"]
          \/ stash' = [stash EXCEPT !.todo = tagged, !.round = @ + 1]
          \/ stash' = [stash EXCEPT !.pc = "metadata"]
      BY <1>8, Zenon DEF StashRoundDone
    <2>3. CASE stash' = [stash EXCEPT !.pc = "close", !.ret = "EIO"]
      BY <2>1, <2>3, Zenon DEF FInv, StashTypes, StashPcs, Frozen
    <2>4. CASE stash' = [stash EXCEPT !.todo = tagged, !.round = @ + 1]
      <3>1. tagged \in SUBSET Pages /\ stash.round \in Nat
        BY Zenon DEF Types, FInv, StashTypes
      <3>2. StashTypes'
        <4>1. stash.round + 1 \in Nat
          BY <3>1
        <4>2. stash' = [pc |-> stash.pc, todo |-> tagged, ret |-> stash.ret, round |-> stash.round + 1]
          BY <2>4, Zenon DEF FInv, StashTypes
        <4>3. stash.pc \in StashPcs /\ stash.ret \in {"0", "1", "EIO", "EINVAL"}
          BY Zenon DEF FInv, StashTypes
        <4> QED
          BY <3>1, <4>1, <4>2, <4>3, Zenon DEF StashTypes
      <3>3. stash'.pc = stash.pc /\ stash'.ret = stash.ret
        BY <2>4, Zenon DEF FInv, StashTypes
      <3> QED
        BY <2>1, <3>2, <3>3, Zenon DEF FInv, Frozen
    <2>5. CASE stash' = [stash EXCEPT !.pc = "metadata"]
      BY <2>1, <2>5, Zenon DEF FInv, StashTypes, StashPcs, Frozen
    <2> QED
      BY <2>2, <2>3, <2>4, <2>5, Zenon
  <1>9. CASE hmdfs_close_stash_file
    BY <1>9, Zenon DEF FInv, StashTypes, StashPcs, Frozen, hmdfs_close_stash_file, Types,
       stashv, hist
  <1>14. CASE hmdfs_flush_stash_file_metadata
    BY <1>14, ZenonT(30) DEF FInv, StashTypes, StashPcs, Frozen,
       hmdfs_flush_stash_file_metadata, Types, stashv, hist
  <1>10. CASE hmdfs_stash_remote_inode
    BY <1>10, Zenon DEF FInv, StashTypes, StashPcs, Frozen, hmdfs_stash_remote_inode, Types,
       stashv, hist
  <1>11. ASSUME NEW p \in Pages, Settle(p), ~CallFails(p) PROVE FInv'
    <2>1. UNCHANGED <<stash, stash_status, i_rwsem>>
      BY <1>11, Zenon DEF Settle, allow_cur_thread_wpage, WpageRefused,
         hmdfs_remote_write_to_remote, hmdfs_client_writepage, SendFails,
         hmdfs_remote_writepage_retry, WritepageDone, Redo, AnswerFails, StashWithoutCache,
         hmdfs_stash_writepage, StashWriteDone, StashWriteFails, EndWriteback,
         hmdfs_client_writepage_err, Failing, stashv, hist
    <2> QED
      BY <2>1, NotStash, Zenon
  <1>12. ASSUME NEW p \in Pages,
               \/ hmdfs_write_end_remote(p) \/ BackgroundWriteback(p) \/ WpageOom(p)
               \/ WpageSignal(p) \/ Expire(p) \/ FlushPage(p)
        PROVE  FInv'
    <2>1. UNCHANGED <<stash, stash_status, i_rwsem>>
      BY <1>12, Zenon DEF hmdfs_write_end_remote, BackgroundWriteback, WpageOom, WpageSignal,
         Expire, FlushPage, Failing, stashv, hist
    <2> QED
      BY <2>1, NotStash, Zenon
  <1>13. CASE \/ WriteReturns \/ (\E c \in counting : CountPage(c)) \/ FlushStart \/ FlushStep
              \/ FlushAgain \/ NodeStatus \/ UNCHANGED vars
    <2>1. UNCHANGED <<stash, stash_status>> /\ (i_rwsem' = i_rwsem \/ i_rwsem' = "free")
      BY <1>13, Zenon DEF WriteReturns, CountPage, FlushStart, FlushStep, FlushDownWrite,
         FlushLocked, FlushReturns, FlushAgain, NodeStatus, vars, stashv, hist
    <2> QED
      BY <2>1, NotStash, Zenon
  <1> QED
    BY <1>1, <1>2, <1>3, <1>4, <1>5, <1>6, <1>7, <1>8, <1>9, <1>10, <1>11,
       <1>12, <1>13, <1>14, ZenonT(30), ZenonT(30) DEF Next, StashStep

(* The first state.                                                        *)
LEMMA InitF == Init => FInv
  BY DEF Init, FInv, StashTypes, StashPcs, Frozen

(* Once hmdfs_flush_stash_file_data has had the inode lock, no write()     *)
(* changes a page until the stash of the inode is over: the status is      *)
(* STASHING before the lock is asked for, so a write() that comes later is *)
(* refused and an earlier one is waited for.                               *)
THEOREM PagesFrozen == Spec => StashFreezesPages
  <1>1. FInv /\ [Next]_vars => [stash.pc \notin {"idle", "inode_lock", "done"} => ver' = ver]_vars
    <2> SUFFICES ASSUME FInv, Next, stash.pc \notin {"idle", "inode_lock", "done"}
                 PROVE  ver' = ver
      BY Zenon
    <2>1. i_rwsem = "free"
      BY Zenon DEF FInv, StashTypes, StashPcs, Frozen
    <2>2. ASSUME NEW p \in Pages, Settle(p) PROVE ver' = ver
      BY <2>2, Zenon DEF Settle, allow_cur_thread_wpage, WpageRefused,
         hmdfs_remote_write_to_remote, hmdfs_client_writepage, SendFails,
         hmdfs_remote_writepage_retry, WritepageDone, Redo, AnswerFails, StashWithoutCache,
         hmdfs_stash_writepage, StashWriteDone, StashWriteFails, EndWriteback, CallFails,
         hmdfs_client_writepage_err
    <2>3. ASSUME NEW p \in Pages,
                 \/ BackgroundWriteback(p) \/ WpageOom(p) \/ WpageSignal(p) \/ Expire(p)
                 \/ FlushPage(p) \/ StashPage(p)
          PROVE  ver' = ver
      BY <2>3, Zenon DEF BackgroundWriteback, WpageOom, WpageSignal, Expire, FlushPage,
         StashPage, write_cache_pages, pagev
    <2>4. CASE hmdfs_stash_remote_inode
      BY <2>4, Zenon DEF hmdfs_stash_remote_inode, pagev
    <2>5. CASE Quiet
      BY <2>5, QuietSteps, Zenon
    <2>6. ASSUME NEW p \in Pages, hmdfs_write_end_remote(p) PROVE FALSE
      BY <2>1, <2>6, Zenon DEF hmdfs_write_end_remote
    <2> QED
      BY <2>2, <2>3, <2>4, <2>5, <2>6, Zenon DEF Next, Quiet
  <1>2. PInv => Types
    BY Zenon DEF PInv
  <1>3. PInv /\ FInv /\ [Next]_vars => FInv'
    BY <1>2, NextF, Zenon
  <1> QED
    BY <1>1, <1>3, InitP, NextP, InitF, PTL DEF Spec, StashFreezesPages

-----------------------------------------------------------------------------
(* What becomes of the content of a page.                                  *)

(* Nothing is left under writeback and nothing is dirty any more.          *)
Flushed ==
  /\ stash.round > 0
  /\ \/ stash.pc \in {"metadata", "link"}
     \/ stash.pc \in {"close", "done"} /\ stash.ret = "1"

(* A failure after which a page is not redirtied.                          *)
Final(p) ==
  where[p] \in {"failing", "ended"} =>
    ctx[p].sync = "yes" \/ ctx[p].err \in {"EIO", "ENOMEM", "0"}

(* In the first round of the stash a page that background writeback picks  *)
(* goes to the stash file, while one sent before may yet be redirtied; in  *)
(* the second round there is none of these, so each page that is still     *)
(* tagged is awaited by the stash, or forgotten.                           *)
StashedPage(p) ==
  /\ where[p] # "none" /\ stash.pc \in {"idle", "inode_lock", "dirty", "wait_once"} =>
       ctx[p].by # "stash"
  /\ stash.pc = "write" /\ ctx[p].from = "call" /\ ctx[p].sync = "no" =>
       where[p] # "to_remote" /\ Final(p)
  /\ stash.pc = "write" /\ stash.round > 1 =>
       /\ where[p] # "none" => ctx[p].from = "call" /\ where[p] # "to_remote"
       /\ p \in dirty \/ where[p] = "picked" =>
            p \in stash.todo \/ (where[p] = "picked" /\ ctx[p].by = "stash")
  /\ Flushed => where[p] \in {"none", "ended"} /\ p \notin dirty /\ Final(p)

KeptPage(p) ==
  /\ p \in dirty \/ where[p] = "picked" => p \in tagged
  /\ p \in tagged => p \in dirty \/ where[p] = "picked" \/ (where[p] = "none" /\ p \in forgotten)
  /\ where[p] # "none" => p \notin dirty
  /\ where[p] = "local" => cache # "null" \/ stash.pc = "done"
  /\ where[p] = "none" /\ p \notin dirty =>
       /\ p \in Saved \cup forgotten
       /\ p \in Saved \/ p \in tagged \/ (stash.pc = "done" /\ stash.ret # "1")

CacheInv == stash.pc = "idle" => cache = "null"

SInv == CacheInv /\ \A p \in Pages : KeptPage(p) /\ StashedPage(p)

(* The step leaves the page q alone, and the stash where it is.            *)
SamePage(q) ==
  /\ SameCtx(q)
  /\ q \in acked' <=> q \in acked
  /\ q \in stashed' <=> q \in stashed
  /\ q \in gaveup' <=> q \in gaveup
  /\ q \in forgotten' <=> q \in forgotten
  /\ q \in dirty' <=> q \in dirty
  /\ q \in tagged' <=> q \in tagged
StashKeeps(q) ==
  /\ stash'.pc = stash.pc /\ stash'.round = stash.round
  /\ stash'.ret = stash.ret \/ stash'.ret = "EIO"
  /\ q \in stash'.todo <=> q \in stash.todo

(* A step leaves the pages as they should be that it does not touch, and   *)
(* keeps the invariant, if the page it is about is as it should be         *)
(* afterwards.                                                             *)
LEMMA OnePageS ==
  ASSUME SInv, NEW p \in Pages, KeptPage(p)', StashedPage(p)', CacheInv', cache' = cache,
         \A q \in Pages \ {p} : SamePage(q) /\ StashKeeps(q)
  PROVE  SInv'
  <1>1. ASSUME NEW q \in Pages \ {p} PROVE KeptPage(q)' /\ StashedPage(q)'
    <2>1. KeptPage(q) /\ StashedPage(q) /\ SamePage(q) /\ StashKeeps(q)
      BY <1>1, Zenon DEF SInv
    <2>2. KeptPage(q)'
      BY <2>1, Zenon DEF KeptPage, Saved, SamePage, SameCtx, StashKeeps
    <2>3. StashedPage(q)'
      BY <2>1, ZenonT(30) DEF StashedPage, Flushed, Final, SamePage, SameCtx,
         StashKeeps
    <2> QED
      BY <2>2, <2>3, Zenon
  <1> QED
    BY <1>1, Zenon DEF SInv

(* write() dirties a page: nothing is lost by it.                          *)
LEMMA Hmdfs_write_end_remoteS ==
  ASSUME PInv, FInv, SInv, NEW p \in Pages, hmdfs_write_end_remote(p)
  PROVE  SInv'
  <1>1. Types /\ PLocal(p) /\ FInv /\ KeptPage(p) /\ StashedPage(p) /\ CacheInv
    BY Zenon DEF PInv, SInv
  <1>2. CacheInv' /\ cache' = cache /\ \A q \in Pages \ {p} : SamePage(q) /\ StashKeeps(q)
    BY <1>1, Zenon DEF Types, PLocal, FInv, StashTypes, KeptPage, SamePage, SameCtx,
       StashKeeps, CacheInv, hmdfs_write_end_remote, stashv, hist
  <1>3. KeptPage(p)'
    BY <1>1, Zenon DEF Types, Ctx, PLocal, KeptPage, Saved,
       hmdfs_write_end_remote, stashv, hist
  <1>4. StashedPage(p)'
    BY <1>1, Zenon DEF Types, Ctx, Callers, PLocal, FInv, StashTypes, StashPcs, KeptPage,
       StashedPage, Flushed, Final, hmdfs_write_end_remote, stashv, hist, Frozen
  <1> QED
    BY <1>2, <1>3, <1>4, OnePageS, Zenon

(* Background writeback picks a page: nothing is lost by it.               *)
LEMMA BackgroundWritebackS ==
  ASSUME PInv, FInv, SInv, NEW p \in Pages, BackgroundWriteback(p)
  PROVE  SInv'
  <1>1. Types /\ PLocal(p) /\ FInv /\ KeptPage(p) /\ StashedPage(p) /\ CacheInv
    BY Zenon DEF PInv, SInv
  <1>2. CacheInv' /\ cache' = cache /\ \A q \in Pages \ {p} : SamePage(q) /\ StashKeeps(q)
    BY <1>1, Zenon DEF Types, PLocal, FInv, StashTypes, KeptPage, SamePage, SameCtx,
       StashKeeps, CacheInv, BackgroundWriteback, write_cache_pages, stashv, hist
  <1>3. KeptPage(p)'
    BY <1>1, Zenon DEF Types, Ctx, PLocal, KeptPage, Saved, BackgroundWriteback,
       write_cache_pages, stashv, hist
  <1>4. StashedPage(p)'
    BY <1>1, ZenonT(30) DEF Types, Ctx, Callers, PLocal, FInv, StashTypes, StashPcs, KeptPage,
       StashedPage, Flushed, Final, BackgroundWriteback, write_cache_pages, stashv, hist
  <1> QED
    BY <1>2, <1>3, <1>4, OnePageS, Zenon

(* A page goes under writeback and takes wpage_sem: nothing is lost by it. *)
LEMMA Allow_cur_thread_wpageS ==
  ASSUME PInv, FInv, SInv, NEW p \in Pages, allow_cur_thread_wpage(p)
  PROVE  SInv'
  <1>1. Types /\ PLocal(p) /\ FInv /\ KeptPage(p) /\ StashedPage(p) /\ CacheInv
    BY Zenon DEF PInv, SInv
  <1>2. CacheInv' /\ cache' = cache /\ \A q \in Pages \ {p} : SamePage(q) /\ StashKeeps(q)
    BY <1>1, Zenon DEF Types, PLocal, FInv, StashTypes, KeptPage, SamePage, SameCtx,
       StashKeeps, CacheInv, allow_cur_thread_wpage, Move, stashv, hist
  <1>3. KeptPage(p)'
    BY <1>1, Zenon DEF Types, Ctx, PLocal, KeptPage, Saved,
       allow_cur_thread_wpage, Move, stashv, hist
  <1>4. StashedPage(p)'
    BY <1>1 DEF Types, Ctx, Callers, PLocal, FInv, StashTypes, StashPcs,
       KeptPage, StashedPage, Flushed, Final, allow_cur_thread_wpage, Move,
       stashv, hist
  <1> QED
    BY <1>2, <1>3, <1>4, OnePageS, Zenon

(* There is no memory for a context: nothing is lost by it.                *)
LEMMA WpageOomS ==
  ASSUME PInv, FInv, SInv, NEW p \in Pages, WpageOom(p)
  PROVE  SInv'
  <1>1. Types /\ PLocal(p) /\ FInv /\ KeptPage(p) /\ StashedPage(p) /\ CacheInv
    BY Zenon DEF PInv, SInv
  <1>2. CacheInv' /\ cache' = cache /\ \A q \in Pages \ {p} : SamePage(q) /\ StashKeeps(q)
    BY <1>1, Zenon DEF Types, PLocal, FInv, StashTypes, KeptPage, SamePage, SameCtx,
       StashKeeps, CacheInv, WpageOom, Failing, Move, stashv, hist
  <1>3. KeptPage(p)'
    BY <1>1, Zenon DEF Types, Ctx, PLocal, KeptPage, Saved, WpageOom, Failing, Move, stashv,
       hist
  <1>4. StashedPage(p)'
    BY <1>1, ZenonT(30), ZenonT(30) DEF Types, Ctx, Callers, PLocal, FInv,
       StashTypes, StashPcs, KeptPage, StashedPage, Flushed, Final, WpageOom,
       Failing, Move, stashv, hist
  <1> QED
    BY <1>2, <1>3, <1>4, OnePageS, Zenon

(* A page is directed to the server or to the stash file: nothing is lost  *)
(* by it.                                                                  *)
LEMMA Hmdfs_remote_write_to_remoteS ==
  ASSUME PInv, FInv, SInv, NEW p \in Pages, hmdfs_remote_write_to_remote(p)
  PROVE  SInv'
  <1>1. Types /\ PLocal(p) /\ FInv /\ KeptPage(p) /\ StashedPage(p) /\ CacheInv
    BY Zenon DEF PInv, SInv
  <1>2. CacheInv' /\ cache' = cache /\ \A q \in Pages \ {p} : SamePage(q) /\ StashKeeps(q)
    BY <1>1, Zenon DEF Types, PLocal, FInv, StashTypes, KeptPage, SamePage, SameCtx,
       StashKeeps, CacheInv, hmdfs_remote_write_to_remote, Move, stashv, hist
  <1>3. KeptPage(p)'
    BY <1>1, Zenon DEF Types, Ctx, PLocal, KeptPage, Saved, hmdfs_remote_write_to_remote,
       Move, stashv, hist
  <1>4. StashedPage(p)'
    BY <1>1, ZenonT(30), ZenonT(30) DEF Types, Ctx, Callers, PLocal, FInv,
       StashTypes, StashPcs, KeptPage, StashedPage, Flushed, Final,
       hmdfs_remote_write_to_remote, Move, stashv, hist
  <1> QED
    BY <1>2, <1>3, <1>4, OnePageS, Zenon

(* A page is sent: nothing is lost by it.                                  *)
LEMMA Hmdfs_client_writepageS ==
  ASSUME PInv, FInv, SInv, NEW p \in Pages, hmdfs_client_writepage(p)
  PROVE  SInv'
  <1>1. Types /\ PLocal(p) /\ FInv /\ KeptPage(p) /\ StashedPage(p) /\ CacheInv
    BY Zenon DEF PInv, SInv
  <1>2. CacheInv' /\ cache' = cache /\ \A q \in Pages \ {p} : SamePage(q) /\ StashKeeps(q)
    BY <1>1, Zenon DEF Types, PLocal, FInv, StashTypes, KeptPage, SamePage, SameCtx,
       StashKeeps, CacheInv, hmdfs_client_writepage, Defer, Move, stashv, hist
  <1>3. KeptPage(p)'
    BY <1>1, Zenon DEF Types, Ctx, PLocal, KeptPage, Saved, hmdfs_client_writepage, Defer,
       Move, stashv, hist
  <1>4. StashedPage(p)'
    BY <1>1, ZenonT(30), ZenonT(30) DEF Types, Ctx, Callers, PLocal, FInv,
       StashTypes, StashPcs, KeptPage, StashedPage, Flushed, Final,
       hmdfs_client_writepage, Defer, Move, stashv, hist
  <1> QED
    BY <1>2, <1>3, <1>4, OnePageS, Zenon

(* A page cannot be sent: nothing is lost by it.                           *)
LEMMA SendFailsS ==
  ASSUME PInv, FInv, SInv, NEW p \in Pages, NEW err \in {"EAGAIN", "ESHUTDOWN", "ENOMEM"}, SendFails(p, err)
  PROVE  SInv'
  <1>1. Types /\ PLocal(p) /\ FInv /\ KeptPage(p) /\ StashedPage(p) /\ CacheInv
    BY Zenon DEF PInv, SInv
  <1>2. CacheInv' /\ cache' = cache /\ \A q \in Pages \ {p} : SamePage(q) /\ StashKeeps(q)
    BY <1>1, ZenonT(30), ZenonT(30) DEF Types, PLocal, FInv, StashTypes,
       KeptPage, SamePage, SameCtx, StashKeeps, CacheInv, SendFails, Defer,
       Failing, Move, stashv, hist
  <1>3. KeptPage(p)'
    BY <1>1, Zenon DEF Types, Ctx, PLocal, KeptPage, Saved, SendFails, Defer,
       Failing, Move, stashv, hist
  <1>4. StashedPage(p)'
    BY <1>1 DEF Types, Ctx, Callers, PLocal, FInv, StashTypes, StashPcs,
       KeptPage, StashedPage, Flushed, Final, SendFails, Defer, Failing, Move,
       stashv, hist, hmdfs_client_rewrite_for_offline, OFFLINE_ERR
  <1> QED
    BY <1>2, <1>3, <1>4, OnePageS, Zenon

(* A page is retried: nothing is lost by it.                               *)
LEMMA Hmdfs_remote_writepage_retryS ==
  ASSUME PInv, FInv, SInv, NEW p \in Pages, hmdfs_remote_writepage_retry(p)
  PROVE  SInv'
  <1>1. Types /\ PLocal(p) /\ FInv /\ KeptPage(p) /\ StashedPage(p) /\ CacheInv
    BY Zenon DEF PInv, SInv
  <1>2. CacheInv' /\ cache' = cache /\ \A q \in Pages \ {p} : SamePage(q) /\ StashKeeps(q)
    BY <1>1, Zenon DEF Types, PLocal, FInv, StashTypes, KeptPage, SamePage, SameCtx,
       StashKeeps, CacheInv, hmdfs_remote_writepage_retry, Move, stashv, hist
  <1>3. KeptPage(p)'
    BY <1>1, Zenon DEF Types, Ctx, PLocal, KeptPage, Saved, hmdfs_remote_writepage_retry,
       Move, stashv, hist
  <1>4. StashedPage(p)'
    BY <1>1, Zenon DEF Types, Ctx, Callers, PLocal, FInv, StashTypes, StashPcs, KeptPage,
       StashedPage, Flushed, Final, hmdfs_remote_writepage_retry, Move, stashv, hist
  <1> QED
    BY <1>2, <1>3, <1>4, OnePageS, Zenon

(* The server acknowledges a page: nothing is lost by it.                  *)
LEMMA WritepageDoneS ==
  ASSUME PInv, FInv, SInv, NEW p \in Pages, WritepageDone(p)
  PROVE  SInv'
  <1>1. Types /\ PLocal(p) /\ FInv /\ KeptPage(p) /\ StashedPage(p) /\ CacheInv
    BY Zenon DEF PInv, SInv
  <1>2. CacheInv' /\ cache' = cache /\ \A q \in Pages \ {p} : SamePage(q) /\ StashKeeps(q)
    BY <1>1, Zenon DEF Types, PLocal, FInv, StashTypes, KeptPage, SamePage, SameCtx,
       StashKeeps, CacheInv, WritepageDone, Move, Released, stashv, hist
  <1>3. KeptPage(p)'
    BY <1>1, Zenon DEF Types, Ctx, PLocal, KeptPage, Saved, WritepageDone, Move,
       Released, stashv, hist
  <1>4. StashedPage(p)'
    BY <1>1, Zenon DEF Types, Ctx, Callers, PLocal, FInv, StashTypes, StashPcs, KeptPage,
       StashedPage, Flushed, Final, WritepageDone, Move, Released, stashv, hist
  <1> QED
    BY <1>2, <1>3, <1>4, OnePageS, Zenon

(* A page is redone: nothing is lost by it.                                *)
LEMMA RedoS ==
  ASSUME PInv, FInv, SInv, NEW p \in Pages, NEW err \in ServerErr, Redo(p, err)
  PROVE  SInv'
  <1>1. Types /\ PLocal(p) /\ FInv /\ KeptPage(p) /\ StashedPage(p) /\ CacheInv
    BY Zenon DEF PInv, SInv
  <1>2. CacheInv' /\ cache' = cache /\ \A q \in Pages \ {p} : SamePage(q) /\ StashKeeps(q)
    BY <1>1, Zenon DEF Types, PLocal, FInv, StashTypes, KeptPage, SamePage, SameCtx,
       StashKeeps, CacheInv, Redo, Move, stashv, hist
  <1>3. KeptPage(p)'
    BY <1>1, Zenon DEF Types, Ctx, PLocal, KeptPage, Saved, Redo, Move, stashv, hist
  <1>4. StashedPage(p)'
    BY <1>1, Zenon DEF Types, Ctx, Callers, PLocal, FInv, StashTypes, StashPcs, KeptPage,
       StashedPage, Flushed, Final, Redo, Move, stashv, hist
  <1> QED
    BY <1>2, <1>3, <1>4, OnePageS, Zenon

(* The server refuses a page, or does not answer: nothing is lost by it.   *)
LEMMA AnswerFailsS ==
  ASSUME PInv, FInv, SInv, NEW p \in Pages, NEW err \in ServerErr, AnswerFails(p, err)
  PROVE  SInv'
  <1>1. Types /\ PLocal(p) /\ FInv /\ KeptPage(p) /\ StashedPage(p) /\ CacheInv
    BY Zenon DEF PInv, SInv
  <1>2. CacheInv' /\ cache' = cache /\ \A q \in Pages \ {p} : SamePage(q) /\ StashKeeps(q)
    BY <1>1, Zenon DEF Types, PLocal, FInv, StashTypes, KeptPage, SamePage, SameCtx,
       StashKeeps, CacheInv, AnswerFails, Failing, Move, stashv, hist
  <1>3. KeptPage(p)'
    BY <1>1, ZenonT(30) DEF Types, Ctx, PLocal, KeptPage, Saved, AnswerFails, Failing, Move,
       stashv, hist
  <1>4. StashedPage(p)'
    BY <1>1, ZenonT(30), ZenonT(30) DEF Types, Ctx, Callers, PLocal, FInv,
       StashTypes, StashPcs, KeptPage, StashedPage, Flushed, Final, AnswerFails,
       Failing, Move, stashv, hist
  <1> QED
    BY <1>2, <1>3, <1>4, OnePageS, Zenon

(* There is no stash file: nothing is lost by it.                          *)
LEMMA StashWithoutCacheS ==
  ASSUME PInv, FInv, SInv, NEW p \in Pages, StashWithoutCache(p)
  PROVE  SInv'
  <1>1. Types /\ PLocal(p) /\ FInv /\ KeptPage(p) /\ StashedPage(p) /\ CacheInv
    BY Zenon DEF PInv, SInv
  <1>2. CacheInv' /\ cache' = cache /\ \A q \in Pages \ {p} : SamePage(q) /\ StashKeeps(q)
    BY <1>1, Zenon DEF Types, PLocal, FInv, StashTypes, KeptPage, SamePage, SameCtx,
       StashKeeps, CacheInv, StashWithoutCache, Failing, Move, stashv, hist
  <1>3. KeptPage(p)'
    BY <1>1, Zenon DEF Types, Ctx, PLocal, KeptPage, Saved, StashWithoutCache, Failing, Move,
       stashv, hist
  <1>4. StashedPage(p)'
    BY <1>1, ZenonT(30), ZenonT(30) DEF Types, Ctx, Callers, PLocal, FInv,
       StashTypes, StashPcs, KeptPage, StashedPage, Flushed, Final,
       StashWithoutCache, Failing, Move, stashv, hist
  <1> QED
    BY <1>2, <1>3, <1>4, OnePageS, Zenon

(* A page is written to the stash file: nothing is lost by it.             *)
LEMMA Hmdfs_stash_writepageS ==
  ASSUME PInv, FInv, SInv, NEW p \in Pages, hmdfs_stash_writepage(p)
  PROVE  SInv'
  <1>1. Types /\ PLocal(p) /\ FInv /\ KeptPage(p) /\ StashedPage(p) /\ CacheInv
    BY Zenon DEF PInv, SInv
  <1>2. CacheInv' /\ cache' = cache /\ \A q \in Pages \ {p} : SamePage(q) /\ StashKeeps(q)
    BY <1>1, Zenon DEF Types, PLocal, FInv, StashTypes, KeptPage, SamePage, SameCtx,
       StashKeeps, CacheInv, hmdfs_stash_writepage, Move, stashv, hist
  <1>3. KeptPage(p)'
    BY <1>1, Zenon DEF Types, Ctx, PLocal, KeptPage, Saved, hmdfs_stash_writepage, Move,
       stashv, hist
  <1>4. StashedPage(p)'
    BY <1>1, ZenonT(30) DEF Types, Ctx, Callers, PLocal, FInv, StashTypes, StashPcs, KeptPage,
       StashedPage, Flushed, Final, hmdfs_stash_writepage, Move, stashv, hist
  <1> QED
    BY <1>2, <1>3, <1>4, OnePageS, Zenon

(* A page is in the stash file: nothing is lost by it.                     *)
LEMMA StashWriteDoneS ==
  ASSUME PInv, FInv, SInv, NEW p \in Pages, StashWriteDone(p)
  PROVE  SInv'
  <1>1. Types /\ PLocal(p) /\ FInv /\ KeptPage(p) /\ StashedPage(p) /\ CacheInv
    BY Zenon DEF PInv, SInv
  <1>2. CacheInv' /\ cache' = cache /\ \A q \in Pages \ {p} : SamePage(q) /\ StashKeeps(q)
    BY <1>1, Zenon DEF Types, PLocal, FInv, StashTypes, KeptPage, SamePage, SameCtx,
       StashKeeps, CacheInv, StashWriteDone, Move, Released, stashv, hist
  <1>3. KeptPage(p)'
    BY <1>1, Zenon DEF Types, Ctx, PLocal, KeptPage, Saved, StashWriteDone,
       Move, Released, stashv, hist
  <1>4. StashedPage(p)'
    BY <1>1, ZenonT(30) DEF Types, Ctx, Callers, PLocal, FInv, StashTypes, StashPcs, KeptPage,
       StashedPage, Flushed, Final, StashWriteDone, Move, Released, stashv, hist
  <1> QED
    BY <1>2, <1>3, <1>4, OnePageS, Zenon

(* A page cannot be written to the stash file: nothing is lost by it.      *)
LEMMA StashWriteFailsS ==
  ASSUME PInv, FInv, SInv, NEW p \in Pages, StashWriteFails(p)
  PROVE  SInv'
  <1>1. Types /\ PLocal(p) /\ FInv /\ KeptPage(p) /\ StashedPage(p) /\ CacheInv
    BY Zenon DEF PInv, SInv
  <1>2. CacheInv' /\ cache' = cache /\ \A q \in Pages \ {p} : SamePage(q) /\ StashKeeps(q)
    BY <1>1, Zenon DEF Types, PLocal, FInv, StashTypes, KeptPage, SamePage, SameCtx,
       StashKeeps, CacheInv, StashWriteFails, Failing, Move, stashv, hist
  <1>3. KeptPage(p)'
    BY <1>1, Zenon DEF Types, Ctx, PLocal, KeptPage, Saved, StashWriteFails, Failing, Move,
       stashv, hist
  <1>4. StashedPage(p)'
    BY <1>1, ZenonT(30), ZenonT(30) DEF Types, Ctx, Callers, PLocal, FInv,
       StashTypes, StashPcs, KeptPage, StashedPage, Flushed, Final,
       StashWriteFails, Failing, Move, stashv, hist
  <1> QED
    BY <1>2, <1>3, <1>4, OnePageS, Zenon

(* The writeback of a page ends with an error: nothing is lost by it.      *)
LEMMA EndWritebackS ==
  ASSUME PInv, FInv, SInv, NEW p \in Pages, EndWriteback(p)
  PROVE  SInv'
  <1>1. Types /\ PLocal(p) /\ FInv /\ KeptPage(p) /\ StashedPage(p) /\ CacheInv
    BY Zenon DEF PInv, SInv
  <1>2. CacheInv' /\ cache' = cache /\ \A q \in Pages \ {p} : SamePage(q) /\ StashKeeps(q)
    BY <1>1, Zenon DEF Types, PLocal, FInv, StashTypes, KeptPage, SamePage, SameCtx,
       StashKeeps, CacheInv, EndWriteback, Move, Released, stashv, hist
  <1>3. KeptPage(p)'
    BY <1>1, Zenon DEF Types, Ctx, PLocal, KeptPage, Saved, EndWriteback, Move, Released,
       stashv, hist
  <1>4. StashedPage(p)'
    BY <1>1, Zenon DEF Types, Ctx, Callers, PLocal, FInv, StashTypes, StashPcs, KeptPage,
       StashedPage, Flushed, Final, EndWriteback, Move, Released, stashv, hist
  <1> QED
    BY <1>2, <1>3, <1>4, OnePageS, Zenon

(* The caller learns of the error of a page: nothing is lost by it.        *)
LEMMA CallFailsS ==
  ASSUME PInv, FInv, SInv, NEW p \in Pages, CallFails(p)
  PROVE  SInv'
  <1>1. Types /\ PLocal(p) /\ FInv /\ KeptPage(p) /\ StashedPage(p) /\ CacheInv
    BY Zenon DEF PInv, SInv
  <1>2. CacheInv' /\ cache' = cache /\ \A q \in Pages \ {p} : SamePage(q) /\ StashKeeps(q)
    BY <1>1, ZenonT(30) DEF Types, PLocal, FInv, StashTypes, KeptPage, SamePage, SameCtx,
       StashKeeps, CacheInv, CallFails, GiveUp, Redirty, Move, stashv, hist
  <1>3. KeptPage(p)'
    BY <1>1, Zenon DEF Types, Ctx, PLocal, KeptPage, Saved, CallFails, GiveUp,
       Redirty, Move, stashv, hist
  <1>5. /\ where[p] = "ended" /\ where'[p] = "none" /\ ctx'[p] = ctx[p]
        /\ stash'.pc = stash.pc /\ stash'.round = stash.round
        /\ stash'.ret = stash.ret \/ stash'.ret = "EIO"
        /\ stash'.todo = stash.todo
    BY <1>1, Zenon DEF Types, FInv, StashTypes, CallFails, GiveUp, Redirty, Move
  <1>6. Final(p) => p \notin dirty'
    BY <1>1, <1>5, Zenon DEF KeptPage, Final, CallFails, GiveUp, Redirty,
       hmdfs_need_redirty_page, OFFLINE_ERR
  <1>7. stash.pc = "write" => p \notin dirty'
    BY <1>1, <1>5, <1>6, Zenon DEF Types, Ctx, YesNo, PLocal, StashedPage, Final
  <1>8. Flushed => p \notin dirty'
    BY <1>1, <1>6, Zenon DEF StashedPage
  <1>4. StashedPage(p)'
    BY <1>1, <1>5, <1>7, <1>8, Zenon DEF StashedPage, Flushed, Final
  <1> QED
    BY <1>2, <1>3, <1>4, OnePageS, Zenon

(* A page fails after its caller has left: nothing is lost by it.          *)
LEMMA Hmdfs_client_writepage_errS ==
  ASSUME PInv, FInv, SInv, NEW p \in Pages, hmdfs_client_writepage_err(p)
  PROVE  SInv'
  <1>1. Types /\ PLocal(p) /\ FInv /\ KeptPage(p) /\ StashedPage(p) /\ CacheInv
    BY Zenon DEF PInv, SInv
  <1>2. CacheInv' /\ cache' = cache /\ \A q \in Pages \ {p} : SamePage(q) /\ StashKeeps(q)
    BY <1>1, Zenon DEF Types, PLocal, FInv, StashTypes, KeptPage, SamePage, SameCtx,
       StashKeeps, CacheInv, hmdfs_client_writepage_err, GiveUp, Redirty, Move, Released,
       stashv, hist
  <1>3. KeptPage(p)'
    BY <1>1, Zenon DEF Types, Ctx, PLocal, KeptPage, Saved,
       hmdfs_client_writepage_err, GiveUp, Redirty, Move, Released, stashv, hist
  <1>4. StashedPage(p)'
    BY <1>1, Zenon DEF Types, Ctx, Callers, PLocal, FInv, StashTypes, StashPcs, KeptPage,
       StashedPage, Flushed, Final, hmdfs_client_writepage_err, GiveUp, Redirty, Move,
       Released, stashv, hist
  <1> QED
    BY <1>2, <1>3, <1>4, OnePageS, Zenon

(* A page is refused wpage_sem: it is forgotten, and stays tagged.         *)
LEMMA WpageRefusedS ==
  ASSUME PInv, FInv, SInv, NEW p \in Pages, WpageRefused(p)
  PROVE  SInv'
  <1>1. Types /\ PLocal(p) /\ FInv /\ KeptPage(p) /\ StashedPage(p) /\ CacheInv
    BY Zenon DEF PInv, SInv
  <1>2. CacheInv' /\ cache' = cache /\ \A q \in Pages \ {p} : SamePage(q) /\ StashKeeps(q)
    BY <1>1, Zenon DEF Types, PLocal, FInv, StashTypes, SamePage, SameCtx, StashKeeps,
       CacheInv, WpageRefused, Move, stashv, hist
  <1>3. KeptPage(p)'
    BY <1>1, Zenon DEF Types, Ctx, PLocal, KeptPage, Saved, WpageRefused, Move,
       stashv, hist
  <1>4. StashedPage(p)'
    BY <1>1, ZenonT(30) DEF Types, Ctx, Callers, PLocal, FInv, StashTypes,
       StashPcs, KeptPage, StashedPage, Flushed, Final, WpageRefused, Move, stashv,
       hist
  <1> QED
    BY <1>2, <1>3, <1>4, OnePageS, Zenon

(* A page is cancelled, or past the end of the file.                       *)
LEMMA WpageSignalS ==
  ASSUME PInv, FInv, SInv, NEW p \in Pages, WpageSignal(p)
  PROVE  SInv'
  <1>1. Types /\ PLocal(p) /\ FInv /\ KeptPage(p) /\ StashedPage(p) /\ CacheInv
    BY Zenon DEF PInv, SInv
  <1>2. CacheInv' /\ cache' = cache /\ \A q \in Pages \ {p} : SamePage(q) /\ StashKeeps(q)
    BY <1>1, Zenon DEF Types, PLocal, FInv, StashTypes, SamePage, SameCtx, StashKeeps,
       CacheInv, WpageSignal, Failing, Move, stashv, hist
  <1>3. KeptPage(p)'
    BY <1>1, Zenon DEF Types, Ctx, PLocal, KeptPage, Saved, WpageSignal,
       Failing, Move, stashv, hist
  <1>4. StashedPage(p)'
    BY <1>1, ZenonT(30) DEF Types, Ctx, Callers, PLocal, FInv, StashTypes,
       StashPcs, KeptPage, StashedPage, Flushed, Final, WpageSignal, Failing, Move,
       stashv, hist
  <1> QED
    BY <1>2, <1>3, <1>4, OnePageS, Zenon

(* A page of the flush's batch is picked, or was clean already.            *)
LEMMA FlushPageS ==
  ASSUME PInv, FInv, SInv, NEW p \in Pages, FlushPage(p)
  PROVE  SInv'
  <1>1. Types /\ PLocal(p) /\ FInv /\ KeptPage(p) /\ StashedPage(p) /\ CacheInv
    BY Zenon DEF PInv, SInv
  <1>2. CacheInv' /\ cache' = cache /\ \A q \in Pages \ {p} : SamePage(q) /\ StashKeeps(q)
    BY <1>1, ZenonT(30) DEF Types, PLocal, FInv, StashTypes, SamePage, SameCtx, StashKeeps,
       CacheInv, FlushPage, write_cache_pages, pagev, stashv, hist
  <1>3. KeptPage(p)'
    BY <1>1, Zenon DEF Types, Ctx, PLocal, KeptPage, Saved, FlushPage,
       write_cache_pages, pagev, stashv, hist
  <1>4. StashedPage(p)'
    BY <1>1 DEF Types, Ctx, Callers, PLocal, FInv, StashTypes, StashPcs,
       KeptPage, StashedPage, Flushed, Final, FlushPage, write_cache_pages, pagev, stashv, hist
  <1> QED
    BY <1>2, <1>3, <1>4, OnePageS, Zenon

(* A page of the stash's batch is picked, or was clean already.            *)
LEMMA StashPageS ==
  ASSUME PInv, FInv, SInv, NEW p \in Pages, StashPage(p)
  PROVE  SInv'
  <1>1. Types /\ PLocal(p) /\ FInv /\ KeptPage(p) /\ StashedPage(p) /\ CacheInv
    BY Zenon DEF PInv, SInv
  <1>2. CacheInv' /\ cache' = cache /\ \A q \in Pages \ {p} : SamePage(q) /\ StashKeeps(q)
    BY <1>1, ZenonT(30) DEF Types, PLocal, FInv, StashTypes, SamePage, SameCtx, StashKeeps,
       CacheInv, StashPage, write_cache_pages, pagev, stashv, hist
  <1>3. KeptPage(p)'
    BY <1>1, Zenon DEF Types, Ctx, PLocal, KeptPage, Saved, StashPage,
       write_cache_pages, pagev, stashv, hist
  <1>4. StashedPage(p)'
    BY <1>1 DEF Types, Ctx, Callers, PLocal, FInv, StashTypes, StashPcs,
       KeptPage, StashedPage, Flushed, Final, StashPage, write_cache_pages, pagev, stashv, hist
  <1> QED
    BY <1>2, <1>3, <1>4, OnePageS, Zenon

(* Steps that change no page: what they say of the stash must hold of      *)
(* every page.                                                             *)
LEMMA NoPageS ==
  ASSUME SInv, UNCHANGED <<dirty, tagged, where, ctx, stashed, acked, gaveup, forgotten, cache>>,
         stash.pc = "done" => stash' = stash,
         CacheInv', \A p \in Pages : StashedPage(p)'
  PROVE  SInv'
  <1>1. ASSUME NEW p \in Pages PROVE KeptPage(p)'
    BY <1>1, Zenon DEF SInv, KeptPage, Saved
  <1> QED
    BY <1>1, Zenon DEF SInv

(* Steps that neither change a page nor move the stash.                    *)
LEMMA StillS ==
  ASSUME SInv,
         UNCHANGED <<dirty, tagged, where, ctx, stashed, acked, gaveup, forgotten, cache, stash>>
  PROVE  SInv'
  <1>1. \A p \in Pages : StashedPage(p)'
    BY ZenonT(30), ZenonT(30) DEF SInv, StashedPage, Flushed, Final
  <1>2. CacheInv'
    BY Zenon DEF SInv, CacheInv
  <1> QED
    BY <1>1, <1>2, NoPageS, Zenon

(* An inode begins to be stashed.                                          *)
LEMMA Hmdfs_init_stash_file_cacheS ==
  ASSUME PInv, FInv, SInv, hmdfs_init_stash_file_cache
  PROVE  SInv'
  <1>1. UNCHANGED <<dirty, tagged, where, ctx, stashed, acked, gaveup, forgotten>>
    BY Zenon DEF hmdfs_init_stash_file_cache, pagev, hist
  <1>2. /\ stash.pc = "idle" /\ cache = "null" /\ stash.round = 0
        /\ stash'.pc = "inode_lock" /\ stash'.round = 0 /\ stash'.ret = stash.ret
    BY Zenon DEF FInv, StashTypes, SInv, CacheInv, hmdfs_init_stash_file_cache
  <1>3. ASSUME NEW p \in Pages PROVE KeptPage(p)' /\ StashedPage(p)'
    <2>1. KeptPage(p) /\ StashedPage(p)
      BY <1>3, Zenon DEF SInv
    <2>2. KeptPage(p)'
      BY <1>1, <1>2, <2>1, Zenon DEF KeptPage, Saved
    <2>3. StashedPage(p)'
      BY <1>1, <1>2, <2>1, Zenon DEF StashedPage, Flushed, Final
    <2> QED
      BY <2>2, <2>3, Zenon
  <1> QED
    BY <1>2, <1>3, Zenon DEF SInv, CacheInv

(* The stash file is closed and, unless it was linked, gone: what it held  *)
(* is given up or forgotten.                                               *)
LEMMA Hmdfs_stash_remote_inodeS ==
  ASSUME PInv, FInv, SInv, hmdfs_stash_remote_inode
  PROVE  SInv'
  <1>1. UNCHANGED <<dirty, tagged, where, ctx, acked>>
    BY Zenon DEF hmdfs_stash_remote_inode, pagev
  <1>2. /\ stash.pc = "close" /\ stash'.pc = "done" /\ stash'.round = stash.round
        /\ stash'.ret = stash.ret
    BY Zenon DEF FInv, StashTypes, hmdfs_stash_remote_inode
  <1>3. Saved \cup forgotten \subseteq (Saved \cup forgotten)'
    BY <1>1, Zenon DEF Saved, hmdfs_stash_remote_inode
  <1>4. stash.ret = "1" => Saved' = Saved
    BY <1>1, Zenon DEF Saved, hmdfs_stash_remote_inode
  <1>5. forgotten \subseteq forgotten'
    BY Zenon DEF hmdfs_stash_remote_inode
  <1>6. ASSUME NEW p \in Pages PROVE KeptPage(p)' /\ StashedPage(p)'
    <2>1. KeptPage(p) /\ StashedPage(p)
      BY <1>6, Zenon DEF SInv
    <2>2. KeptPage(p)'
      BY <1>1, <1>2, <1>3, <1>4, <1>5, <2>1, Zenon DEF KeptPage
    <2>3. StashedPage(p)'
      BY <1>1, <1>2, <2>1, Zenon DEF StashedPage, Flushed, Final
    <2> QED
      BY <2>2, <2>3, Zenon
  <1> QED
    BY <1>2, <1>6, Zenon DEF SInv, CacheInv

(* The stash moves on in between: it waits for the background writeback,   *)
(* ends a round, completes the file.                                       *)
LEMMA StashStepS ==
  ASSUME PInv, FInv, SInv, StashStep, ~hmdfs_stash_remote_inode
  PROVE  SInv'
  <1>1. UNCHANGED <<dirty, tagged, where, ctx, stashed, acked, gaveup, forgotten>>
    BY QuietSteps, Zenon DEF Quiet
  <1>2. /\ cache' = cache /\ stash.pc # "done" /\ stash'.pc # "idle"
    BY ZenonT(30) DEF FInv, StashTypes, StashStep, StashInodeLock, StashCheckDirty,
       hmdfs_wait_remote_writeback_once, StashRoundDone, hmdfs_flush_stash_file_metadata,
       hmdfs_close_stash_file, stashv
  <1>3. ASSUME NEW p \in Pages PROVE StashedPage(p)'
    <2>0. Types /\ PLocal(p) /\ StashTypes /\ KeptPage(p) /\ StashedPage(p)
      BY <1>3, Zenon DEF PInv, FInv, SInv
    <2>1. CASE StashInodeLock \/ StashCheckDirty
      <3>1. /\ stash.pc \in {"inode_lock", "dirty"} /\ stash.round = 0
            /\ stash'.pc \in {"dirty", "wait_once", "metadata"}
            /\ stash'.round = stash.round
        BY <2>0, <2>1, Zenon DEF FInv, StashTypes, StashPcs, StashInodeLock, StashCheckDirty
      <3> QED
        BY <1>1, <2>0, <3>1 DEF StashedPage, Flushed, Final
    <2>2. CASE hmdfs_wait_remote_writeback_once
      <3>1. stash.pc = "wait_once" /\ stash'.pc = "write" /\ stash'.round = 1
        BY <2>0, <2>2, Zenon DEF StashTypes, hmdfs_wait_remote_writeback_once
      <3>2. where[p] # "none" => ctx[p].from = "cb" \/ ctx[p].by # "bg"
        BY <2>0, <2>2, <1>3, ZenonT(30) DEF Types, Ctx, Where, PLocal, Submitting,
           hmdfs_wait_remote_writeback_once
      <3>3. ctx[p].from = "call" /\ ctx[p].sync = "no" => where[p] = "none"
        BY <2>0, <3>2, Zenon DEF PLocal
      <3> QED
        BY <1>1, <2>0, <3>1, <3>3 DEF StashedPage, Flushed, Final
    <2>3. CASE StashRoundDone /\ stash'.pc = "write"
      <3>1. /\ stash.pc = "write" /\ stash'.todo = tagged /\ Writeback = {}
        BY <2>0, <2>3, Zenon DEF StashTypes, StashRoundDone
      <3>2. where[p] \in {"none", "picked", "ended"}
        BY <1>3, <3>1, Zenon DEF Writeback
      <3> QED
        BY <1>1, <2>0, <2>3, <3>1, <3>2, Zenon DEF Types, PLocal, KeptPage, StashedPage,
           Flushed, Final
    <2>4. CASE StashRoundDone /\ stash'.pc = "metadata"
      <3>1. /\ stash.pc = "write" /\ stash.todo = {} /\ stash.round > 1 /\ Writeback = {}
            /\ ~Submitting("stash")
        BY <2>0, <2>4 DEF StashTypes, StashRoundDone, HMDFS_STASH_FLUSH_CNT
      <3>2. where[p] \in {"none", "picked", "ended"}
        BY <1>3, <3>1, Zenon DEF Writeback
      <3>3. ~(where[p] = "picked" /\ ctx[p].by = "stash" /\ ctx[p].from = "call")
        BY <1>3, <3>1, Zenon DEF Submitting
      <3>4. p \notin dirty /\ where[p] # "picked"
        BY <2>0, <3>1, <3>3, Zenon DEF StashedPage, PLocal
      <3>5. Final(p)'
        BY <1>1, <2>0, <3>1, <3>2, <3>4, Zenon DEF Types, Ctx, YesNo, PLocal,
           StashedPage, Final
      <3> QED
        BY <1>1, <2>0, <2>4, <3>1, <3>2, <3>4, <3>5, ZenonT(30) DEF StashedPage, Flushed
    <2>5. CASE StashRoundDone /\ stash'.pc = "close"
      <3>1. stash'.ret = "EIO"
        BY <2>0, <2>5, Zenon DEF StashTypes, StashRoundDone
      <3> QED
        BY <2>5, <3>1, ZenonT(30) DEF StashedPage, Flushed
    <2>6. CASE hmdfs_flush_stash_file_metadata
      <3>1. /\ stash.pc = "metadata" /\ stash'.round = stash.round
            /\ \/ stash'.pc = "link"
               \/ stash'.pc = "close" /\ stash'.ret \in {"EIO", "EINVAL"}
        BY <2>0, <2>6, Zenon DEF StashTypes, hmdfs_flush_stash_file_metadata
      <3> QED
        BY <1>1, <2>0, <3>1, Zenon DEF StashedPage, Flushed, Final
    <2>7. CASE hmdfs_close_stash_file
      <3>1. stash.pc = "link" /\ stash'.pc = "close" /\ stash'.round = stash.round
        BY <2>0, <2>7, Zenon DEF StashTypes, hmdfs_close_stash_file
      <3> QED
        BY <1>1, <2>0, <3>1, Zenon DEF StashedPage, Flushed, Final
    <2>8. StashRoundDone => stash'.pc \in {"write", "metadata", "close"}
      BY <2>0, Zenon DEF StashTypes, StashRoundDone
    <2> QED
      BY <2>1, <2>2, <2>3, <2>4, <2>5, <2>6, <2>7, <2>8, Zenon DEF StashStep
  <1>4. CacheInv'
    BY <1>2, Zenon DEF CacheInv
  <1> QED
    BY <1>1, <1>2, <1>3, <1>4, NoPageS, Zenon

(* The first state.                                                        *)
LEMMA InitS == Init => SInv
  BY ZenonT(30) DEF Init, SInv, CacheInv, KeptPage, Saved, StashedPage, Flushed,
     Final

(* Every step.                                                             *)
LEMMA NextS ==
  ASSUME PInv, FInv, SInv, [Next]_vars
  PROVE  SInv'
  <1>1. ASSUME NEW p \in Pages, Settle(p) PROVE SInv'
    BY <1>1, Allow_cur_thread_wpageS, WpageRefusedS, Hmdfs_remote_write_to_remoteS,
       Hmdfs_client_writepageS, SendFailsS, Hmdfs_remote_writepage_retryS, WritepageDoneS,
       RedoS, AnswerFailsS, StashWithoutCacheS, Hmdfs_stash_writepageS, StashWriteDoneS,
       StashWriteFailsS, EndWritebackS, CallFailsS, Hmdfs_client_writepage_errS, ZenonT(30)
       DEF Settle
  <1>2. ASSUME NEW p \in Pages,
               \/ hmdfs_write_end_remote(p) \/ BackgroundWriteback(p) \/ WpageOom(p)
               \/ WpageSignal(p) \/ FlushPage(p) \/ StashPage(p)
        PROVE  SInv'
    BY <1>2, Hmdfs_write_end_remoteS, BackgroundWritebackS, WpageOomS, WpageSignalS,
       FlushPageS, StashPageS, Zenon
  <1>3. ASSUME NEW p \in Pages, Expire(p) PROVE SInv'
    <2>1. UNCHANGED <<dirty, tagged, where, ctx, stashed, acked, gaveup, forgotten, cache, stash>>
      BY <1>3, Zenon DEF Expire, stashv, hist
    <2> QED
      BY <2>1, StillS, Zenon
  <1>4. CASE hmdfs_init_stash_file_cache
    BY <1>4, Hmdfs_init_stash_file_cacheS, Zenon
  <1>5. CASE StashStep
    BY <1>5, StashStepS, Hmdfs_stash_remote_inodeS, Zenon
  <1>6. CASE \/ hmdfs_file_write_iter_remote \/ WriteReturns \/ (\E c \in counting : CountPage(c))
             \/ NodeStatus \/ FlushStart \/ FlushStep \/ FlushAgain \/ UNCHANGED vars
    <2>1. UNCHANGED <<dirty, tagged, where, ctx, stashed, acked, gaveup, forgotten, cache, stash>>
      BY <1>6, Zenon DEF hmdfs_file_write_iter_remote, WriteReturns, CountPage, NodeStatus,
         FlushStart, FlushStep, FlushDownWrite, FlushLocked, FlushReturns, FlushAgain, vars,
         pagev, stashv, hist
    <2> QED
      BY <2>1, StillS, Zenon
  <1> QED
    BY <1>1, <1>2, <1>3, <1>4, <1>5, <1>6, Zenon DEF Next

(* The three invariants hold together.                                     *)
LEMMA PagesInvariant == Spec => [](PInv /\ FInv /\ SInv)
  <1>1. PInv => Types
    BY Zenon DEF PInv
  <1>2. PInv /\ FInv /\ [Next]_vars => FInv'
    BY <1>1, NextF, Zenon
  <1>3. PInv /\ FInv /\ SInv /\ [Next]_vars => SInv'
    BY NextS, Zenon
  <1> QED
    BY <1>2, <1>3, InitP, NextP, InitF, InitS, PTL DEF Spec

(* No content of a page is dropped silently: what is neither dirty nor     *)
(* under writeback is on the server, in the stash file, or was given up    *)
(* with an error (hmdfs_writepage_remote and the callbacks it leaves the   *)
(* page to), but for a page that was refused wpage_sem while flush()       *)
(* wanted it and one whose stash file was taken for empty.                 *)
THEOREM PagesSaved == Spec => []CleanIsSaved
  <1>1. SInv => CleanIsSaved
    BY Zenon DEF SInv, KeptPage, CleanIsSaved
  <1> QED
    BY <1>1, PagesInvariant, PTL

(* Two rounds of filemap_write_and_wait in hmdfs_flush_stash_file_data are *)
(* enough, whatever flush() and the background writeback do meanwhile:     *)
(* they leave no page dirty or under writeback, and every page's newest    *)
(* content is saved or reported when the inode becomes RESTORING, unless   *)
(* the page was refused wpage_sem.                                         *)
THEOREM StashComplete == Spec => []StashSaves
  <1>1. PInv /\ FInv /\ SInv => StashSaves
    <2> SUFFICES ASSUME PInv, FInv, SInv PROVE StashSaves
      BY Zenon
    <2>1. ASSUME stash.pc \in {"metadata", "link"}, stash.round > 0
          PROVE  dirty = {} /\ Writeback = {} /\ tagged \subseteq forgotten
      <3>1. Flushed
        BY <2>1, Zenon DEF Flushed
      <3>2. \A p \in Pages : where[p] \in {"none", "ended"} /\ p \notin dirty
        BY <3>1, Zenon DEF SInv, StashedPage
      <3>3. \A p \in Pages : p \in tagged => p \in forgotten
        BY <3>2, Zenon DEF SInv, KeptPage
      <3> QED
        BY <3>2, <3>3, Zenon DEF PInv, Types, Writeback
    <2>2. ASSUME stash.pc = "done", stash.ret = "1", stash.round > 0, NEW p \in Pages
          PROVE  p \in Saved \/ where[p] = "ended" \/ p \in forgotten \cap tagged
      <3>1. Flushed
        BY <2>2, Zenon DEF Flushed
      <3>2. where[p] \in {"none", "ended"} /\ p \notin dirty
        BY <3>1, Zenon DEF SInv, StashedPage
      <3> QED
        BY <2>2, <3>2, Zenon DEF SInv, KeptPage
    <2> QED
      BY <2>1, <2>2, Zenon DEF StashSaves
  <1> QED
    BY <1>1, PagesInvariant, PTL

=============================================================================
