------------------------- MODULE MailArchiveProofs -------------------------
(***************************************************************************)
(* Theorems about MailArchive, for every set of messages, every number of  *)
(* versions, every content-addressing MimeOf/BlobsOf and every batch size. *)
(***************************************************************************)
EXTENDS MailArchive, TLAPS

\* A row without a capture points at nothing; a row with one points at the
\* files of the version whose changekey it recorded.
RowOK(m) ==
  /\ archive_state[m] \in {"none", "live"} =>
       mime_sha256[m] = NoFile /\ captured_changekey[m] = 0 /\ attachments[m] = {}
  /\ archive_state[m] \in Archived =>
       /\ captured_changekey[m] # 0
       /\ mime_sha256[m] = MimeOf[m][captured_changekey[m]]
  /\ attachments[m] # {} => attachments[m] = BlobsOf[m][captured_changekey[m]]

RowsOK == \A m \in Msgs : RowOK(m)

\* What sync still has to report, and what is a tombstone, is gone upstream.
GoneOK ==
  /\ \A m \in notice \cup vanished : exch[m] = 0
  /\ \A m \in Msgs : archive_state[m] = "deleted" => exch[m] = 0

\* The copy of m is on disk, or the disk lost it after it was vouched for.
Safe(m) ==
  /\ file[mime_sha256[m]] = "good" \/ mime_sha256[m] \in late
  /\ \A b \in attachments[m] : file[b] # "absent" \/ b \in late

PurgeOK(m) ==
  purged[m] # 0 =>
    /\ exch[m] = 0
    /\ archive_state[m] \in Archived
    /\ mime_sha256[m] = MimeOf[m][purged[m]] \/ m \in raced
    /\ Safe(m)

PurgedOK == \A m \in Msgs : PurgeOK(m)

AuditOK == \A m \in audited : purged[m] # 0 /\ archive_state[m] = "deleted"

CaptureOK ==
  /\ pc = "c_mark" => \A m \in cur : seen[m] # 0
  /\ pc = "c_attach" => \A m \in cur :
       /\ seen[m] # 0
       /\ purged[m] = 0
       /\ archive_state[m] \in {"captured", "deleted"}
       /\ captured_changekey[m] = seen[m]

VerifyOK ==
  pc \in {"v_eval", "v_apply"} => \A m \in batch : purged[m] = 0

GcOK == pc = "g_sweep" => \A m \in Msgs : Held(m) \subseteq keep

\* The deleter's snapshot is that of the row as long as the row is pending.
Pending(m) ==
  /\ archive_state[m] \in {"verified", "deleted"}
  /\ archive_state[m] = "verified" => m \in ripe
  /\ byId[m].mime = mime_sha256[m]
  /\ byId[m].ck = captured_changekey[m]

DeletePCs == {"d_chunk", "d_fetch", "d_item", "d_requeue", "d_persist"}

DeleteOK ==
  /\ pc \in DeletePCs => \A m \in batch : Pending(m) /\ m \notin good /\ m \notin stale
  /\ pc \in {"d_fetch", "d_item"} =>
       \A m \in good : Pending(m) /\ Safe(m) /\ m \notin stale
  /\ pc \in {"d_item", "d_requeue", "d_persist"} => \A m \in done : purged[m] # 0
  /\ pc = "d_fetch" => done = {} /\ stale = {}
  /\ pc = "d_item" => \A m \in good :
       \/ seen[m] = 0 \/ exch[m] = 0 \/ exch[m] = seen[m] \/ m \in raced

Inv ==
  /\ TypeOK /\ RowsOK /\ GoneOK /\ PurgedOK /\ AuditOK
  /\ CaptureOK /\ VerifyOK /\ GcOK /\ DeleteOK

-----------------------------------------------------------------------------
\* What reset_to_live and mark_verified write is well typed.
LEMMA RowWritesTyped ==
  ASSUME TypeOK, NEW m \in Msgs, reset_to_live(m) \/ mark_verified(m)
  PROVE  /\ archive_state' \in [Msgs -> ArchiveStates]
         /\ mime_sha256' \in [Msgs -> Files \cup {NoFile}]
         /\ captured_changekey' \in [Msgs -> Changekeys]
         /\ attachments' \in [Msgs -> SUBSET Files]
         /\ ripe' \subseteq Msgs
         /\ older' \in [Msgs -> SUBSET Msgs]
<1>0. 0 \in Changekeys
  BY ConstantsAssumption DEF Changekeys
<1>1. CASE archive_state[m] # "captured"
  BY <1>1 DEF TypeOK, row, reset_to_live, mark_verified
<1>2. CASE archive_state[m] = "captured" /\ reset_to_live(m)
  <2>1. Unqueue(m) \in [Msgs -> SUBSET Msgs]
    BY DEF TypeOK, Unqueue
  <2>2. older' \in [Msgs -> SUBSET Msgs]
    BY <1>2, <2>1 DEF reset_to_live
  <2>3. /\ archive_state' = [archive_state EXCEPT ![m] = "live"]
        /\ mime_sha256' = [mime_sha256 EXCEPT ![m] = NoFile]
        /\ captured_changekey' = [captured_changekey EXCEPT ![m] = 0]
        /\ attachments' = [attachments EXCEPT ![m] = {}]
        /\ ripe' = ripe \ {m}
    BY <1>2 DEF reset_to_live
  <2> QED
    BY <1>0, <2>2, <2>3 DEF TypeOK, ArchiveStates
<1>3. CASE archive_state[m] = "captured" /\ mark_verified(m)
  BY <1>3 DEF TypeOK, ArchiveStates, mark_verified
<1> QED
  BY <1>1, <1>2, <1>3

\* An item whose bytes are stored was returned by the fetch.
Fetched == pc \in {"c_mark", "c_attach"} => \A m \in cur : seen[m] # 0

(* Every step keeps the state well typed. *)
LEMMA TypeInductive == TypeOK /\ Fetched /\ [Next]_vars => TypeOK'
<1> SUFFICES ASSUME TypeOK, Fetched, [Next]_vars PROVE TypeOK'
  OBVIOUS
<1> USE ConstantsAssumption DEF TypeOK, Versions, Changekeys, ArchiveStates, FileStates,
        Lanes, PCs, Snapshot, mailbox, row, pass, history, Outside
<1>1. ASSUME NEW kind \in DOMAIN LanesOf, BeginRun(kind) PROVE TypeOK'
  <2>1. LanesOf[kind] \subseteq Lanes
    BY DEF LanesOf
  <2>2. lanes' \subseteq Lanes
    BY <1>1, <2>1 DEF BeginRun
  <2> QED
    BY <1>1, <2>2 DEF BeginRun, ClearPass, NoSnapshot, NothingSeen
<1>2. CASE \E l \in Lanes : SkipLane(l)
  BY <1>2 DEF SkipLane, Turn
<1>3. CASE FinishRun
  BY <1>3 DEF FinishRun, ClearPass, NoSnapshot, NothingSeen
<1>4. CASE AbortRun
  BY <1>4 DEF AbortRun, ClearPass, NoSnapshot, NothingSeen
<1>5. CASE Crash
  BY <1>5 DEF Crash, ClearPass, NoSnapshot, NothingSeen
<1>6. CASE CaptureSelect
  BY <1>6 DEF CaptureSelect, StartLane, Chosen, archive_candidates, InState, NoSnapshot, NothingSeen
<1>7. CASE CaptureFetch
  BY <1>7 DEF CaptureFetch
<1>8. CASE VerifySelect
  BY <1>8 DEF VerifySelect, captured_rows, StartLane, InState, NoSnapshot, NothingSeen
<1>9. CASE VerifyFetch
  BY <1>9 DEF VerifyFetch, Loop
<1>10. CASE VerifyEvaluate
  BY <1>10 DEF VerifyEvaluate
<1>11. CASE GcRead
  BY <1>11 DEF GcRead, Referenced, Held
<1>12. CASE GcSweep
  BY <1>12 DEF GcSweep
<1>13. CASE DeleteSelect
  BY <1>13 DEF DeleteSelect, StartLane, Chosen, deletable_rows, InState, NoSnapshot, NothingSeen
<1>14. CASE DeleteCheck
  BY <1>14 DEF DeleteCheck, Page, Chosen, demote_to_captured, InState, LoopDelete, Loop
<1>15. CASE DeleteFetch
  BY <1>15 DEF DeleteFetch
<1>16. CASE DeleteRequeue
  BY <1>16 DEF DeleteRequeue, demote_to_captured, InState, LoopDelete, Loop
<1>17. CASE DeleteRequeueFails
  BY <1>17 DEF DeleteRequeueFails, demote_to_captured, InState, ClearPass, NoSnapshot, NothingSeen
<1>18. CASE DeletePersist
  BY <1>18 DEF DeletePersist, mark_deleted, LoopDelete, Loop
<1>44. CASE DeletePersistFails
  BY <1>44 DEF DeletePersistFails, mark_deleted
<1>19. CASE DeleteBreak
  BY <1>19 DEF DeleteBreak
<1>20. ASSUME NEW m \in Msgs, CaptureTooLarge(m) PROVE TypeOK'
  BY <1>20 DEF CaptureTooLarge, DropItem, Loop
<1>21. ASSUME NEW m \in Msgs, CaptureFails(m) PROVE TypeOK'
  <2>1. file' \in [Files -> FileStates] /\ late' \subseteq Files
    BY <1>21 DEF CaptureFails, StoreFiles
  <2> QED
    BY <1>21, <2>1 DEF CaptureFails, DropItem, Loop
<1>22. ASSUME NEW m \in Msgs, CaptureStore(m) PROVE TypeOK'
  BY <1>22 DEF CaptureStore, StoreFiles
<1>23. ASSUME NEW m \in Msgs, CaptureMark(m) PROVE TypeOK'
  BY <1>23 DEF CaptureMark, mark_captured, Fetched
<1>24. ASSUME NEW m \in Msgs, CaptureSkip(m) PROVE TypeOK'
  BY <1>24 DEF CaptureSkip, DropItem, Loop
<1>25. ASSUME NEW m \in Msgs, CaptureAttach(m) PROVE TypeOK'
  <2>1. m \in cur /\ seen[m] \in Versions
    BY <1>25 DEF CaptureAttach, Fetched
  <2>2. attachments' \in [Msgs -> SUBSET Files]
    BY <1>25, <2>1 DEF CaptureAttach
  <2> QED
    BY <1>25, <2>2 DEF CaptureAttach, DropItem, Loop
<1>26. ASSUME NEW m \in Msgs, CaptureUndo(m) PROVE TypeOK'
  BY <1>26, RowWritesTyped DEF CaptureUndo, DropItem, Loop
<1>27. ASSUME NEW m \in Msgs, CaptureUndoFails(m) PROVE TypeOK'
  BY <1>27 DEF CaptureUndoFails, DropItem, Loop
<1>28. ASSUME NEW m \in Msgs, VerifyApply(m) PROVE TypeOK'
  BY <1>28, RowWritesTyped DEF VerifyApply, Loop
<1>43. ASSUME NEW m \in Msgs, VerifyItemFails(m) PROVE TypeOK'
  BY <1>43 DEF VerifyItemFails, Loop
<1>29. ASSUME NEW m \in Msgs, DeleteItem(m) PROVE TypeOK'
  <2>1. /\ exch' \in [Msgs -> Changekeys] /\ purged' \in [Msgs -> Changekeys]
        /\ notice' \subseteq Msgs
    BY <1>29 DEF DeleteItem, HardDelete
  <2> QED
    BY <1>29, <2>1 DEF DeleteItem, HardDelete, NextItem
<1>30. ASSUME NEW m \in Msgs, DeleteReplyLost(m) PROVE TypeOK'
  <2>1. /\ exch' \in [Msgs -> Changekeys] /\ purged' \in [Msgs -> Changekeys]
        /\ notice' \subseteq Msgs
    BY <1>30 DEF DeleteReplyLost, HardDelete
  <2> QED
    BY <1>30, <2>1 DEF DeleteReplyLost, HardDelete, NextItem
<1>31. ASSUME NEW m \in Msgs, DeleteItemFails(m) PROVE TypeOK'
  BY <1>31 DEF DeleteItemFails, NextItem
<1>32. ASSUME NEW m \in Msgs, DeleteItemStale(m) PROVE TypeOK'
  BY <1>32 DEF DeleteItemStale, NextItem
<1>33. ASSUME NEW m \in Msgs, UserEdit(m) PROVE TypeOK'
  <2>1. exch' \in [Msgs -> Changekeys]
    BY <1>33 DEF UserEdit
  <2> QED
    BY <1>33, <2>1 DEF UserEdit
<1>34. ASSUME NEW m \in Msgs, UserDelete(m) PROVE TypeOK'
  BY <1>34 DEF UserDelete
<1>35. ASSUME NEW m \in Msgs, FolderVanishes(m) PROVE TypeOK'
  BY <1>35 DEF FolderVanishes
<1>36. ASSUME NEW m \in Msgs, SyncDropsFolder(m) PROVE TypeOK'
  BY <1>36 DEF SyncDropsFolder
<1>37. ASSUME NEW m \in Msgs, SyncUpsert(m) PROVE TypeOK'
  BY <1>37 DEF SyncUpsert, upsert_messages
<1>38. ASSUME NEW m \in Msgs, SyncDelete(m) PROVE TypeOK'
  BY <1>38 DEF SyncDelete, apply_server_deletes
<1>39. ASSUME NEW m \in Msgs, WriteThrough(m) PROVE TypeOK'
  BY <1>39 DEF WriteThrough, apply_server_deletes
<1>40. ASSUME NEW m \in Msgs, GracePasses(m) PROVE TypeOK'
  BY <1>40 DEF GracePasses
<1>41. ASSUME NEW f \in Files, DiskDecay(f) PROVE TypeOK'
  BY <1>41 DEF DiskDecay
<1>42. CASE UNCHANGED vars
  BY <1>42 DEF vars
<1> QED
  BY <1>1, <1>2, <1>3, <1>4, <1>5, <1>6, <1>7, <1>8, <1>9, <1>10, <1>11, <1>12, <1>13, <1>14, <1>15, <1>16, <1>17, <1>18, <1>19, <1>20, <1>21, <1>22, <1>23, <1>24, <1>25, <1>26, <1>27, <1>28, <1>29, <1>30, <1>31, <1>32, <1>33, <1>34, <1>35, <1>36, <1>37, <1>38, <1>39, <1>40, <1>41, <1>42, <1>43, <1>44
  DEF Next, Runner, CaptureStep, VerifyStep, DeleteStep, Environment

(* Fetched is kept too: only CaptureStore enters c_mark. *)
LEMMA FetchedInductive == TypeOK /\ Fetched /\ [Next]_vars => Fetched'
<1> SUFFICES ASSUME TypeOK, Fetched, [Next]_vars,
                    pc' \in {"c_mark", "c_attach"}
             PROVE  \A m \in cur' : seen'[m] # 0
  BY DEF Fetched
<1>1. CASE pc \in {"c_mark", "c_attach"} /\ UNCHANGED <<pc, cur, seen>>
  BY <1>1 DEF Fetched
<1>2. ASSUME NEW m \in Msgs, CaptureStore(m) PROVE cur' = {m} /\ seen'[m] # 0
  BY <1>2 DEF CaptureStore
<1>3. ASSUME NEW m \in Msgs, CaptureMark(m)
      PROVE  pc \in {"c_mark", "c_attach"} /\ UNCHANGED <<cur, seen>>
  BY <1>3 DEF CaptureMark
<1>4. CASE Runner
  BY <1>4 DEF Runner, BeginRun, SkipLane, Turn, FinishRun, AbortRun, Crash, CaptureSelect,
     CaptureFetch, VerifySelect, StartLane, VerifyFetch, VerifyEvaluate, GcRead, GcSweep,
     DeleteSelect, DeleteCheck, DeleteFetch, DeleteRequeue, DeleteRequeueFails,
     DeletePersist, DeletePersistFails, DeleteBreak, LoopDelete, Loop
<1>5. ASSUME NEW m \in Msgs, CaptureStep(m) PROVE \A k \in cur' : seen'[k] # 0
  BY <1>2, <1>3, <1>5 DEF Fetched, CaptureStep, CaptureTooLarge, CaptureFails, CaptureSkip,
     CaptureAttach, CaptureUndo, CaptureUndoFails, DropItem, Loop
<1>6. ASSUME NEW m \in Msgs, VerifyStep(m) \/ DeleteStep(m) PROVE FALSE
  BY <1>6 DEF VerifyStep, VerifyApply, VerifyItemFails, DeleteStep, DeleteItem, DeleteReplyLost, DeleteItemFails,
     DeleteItemStale, NextItem, Loop
<1>7. ASSUME \/ \E m \in Msgs : Environment(m)
             \/ \E f \in Files : DiskDecay(f)
             \/ UNCHANGED vars
      PROVE  UNCHANGED <<pc, cur, seen>>
  BY <1>7 DEF Environment, UserEdit, UserDelete, FolderVanishes, SyncDropsFolder, SyncUpsert,
     SyncDelete, WriteThrough, GracePasses, DiskDecay, vars, pass
<1> QED
  BY <1>1, <1>4, <1>5, <1>6, <1>7 DEF Next

(* TypeOK is an invariant of the pipeline. *)
THEOREM TypeCorrect == Spec => []TypeOK
<1>1. Init => TypeOK /\ Fetched
  BY ConstantsAssumption DEF Init, TypeOK, Fetched, Versions, Changekeys, ArchiveStates,
     FileStates, Lanes, PCs, Snapshot, NoSnapshot, NothingSeen
<1>2. TypeOK /\ Fetched /\ [Next]_vars => (TypeOK /\ Fetched)'
  BY TypeInductive, FetchedInductive
<1> QED
  BY <1>1, <1>2, PTL DEF Spec

-----------------------------------------------------------------------------
(***************************************************************************)
(* What one step can do to one row, one item and one file.  Each fact is   *)
(* proved once over the actions; the invariants below only use the facts.  *)
(***************************************************************************)
SameCopy(k) ==
  /\ mime_sha256'[k] = mime_sha256[k]
  /\ captured_changekey'[k] = captured_changekey[k]

SameInventory(k) == attachments'[k] = attachments[k]

StaysRipe(k) == k \in ripe => k \in ripe'

Kept(k) == SameCopy(k) /\ SameInventory(k) /\ StaysRipe(k)

RowUnmoved(k) == archive_state'[k] = archive_state[k] /\ Kept(k)

RowCaptured(k) ==
  /\ pc = "c_mark" /\ k \in cur
  /\ archive_state[k] = "live" /\ archive_state'[k] = "captured"
  /\ mime_sha256'[k] = MimeOf[k][seen[k]]
  /\ captured_changekey'[k] = seen[k]
  /\ SameInventory(k)

RowInventoried(k) ==
  /\ pc = "c_attach" /\ k \in cur
  /\ archive_state'[k] = archive_state[k]
  /\ attachments'[k] = BlobsOf[k][seen[k]]
  /\ SameCopy(k) /\ StaysRipe(k)

RowReset(k) ==
  /\ \/ pc = "c_attach" /\ k \in cur
     \/ pc = "v_apply" /\ k \in batch
  /\ archive_state[k] = "captured" /\ archive_state'[k] = "live"
  /\ mime_sha256'[k] = NoFile /\ captured_changekey'[k] = 0 /\ attachments'[k] = {}

RowVerified(k) ==
  /\ pc = "v_apply" /\ k \in batch
  /\ archive_state[k] = "captured" /\ archive_state'[k] = "verified"
  /\ SameCopy(k) /\ SameInventory(k)

RowDemoted(k) ==
  /\ archive_state[k] = "verified" /\ archive_state'[k] = "captured"
  /\ pc \in {"d_chunk", "d_requeue"}
  /\ SameCopy(k) /\ SameInventory(k)

RowDeleted(k) ==
  /\ pc = "d_persist" /\ k \in done
  /\ archive_state[k] = "verified" /\ archive_state'[k] = "deleted"
  /\ Kept(k)

RowTombstoned(k) ==
  /\ k \in notice
  /\ archive_state[k] \in Archived /\ archive_state'[k] = "deleted"
  /\ Kept(k)

RowMirrored(k) ==
  /\ archive_state[k] \in {"none", "live"} /\ archive_state'[k] \in {"none", "live"}
  /\ Kept(k)

RowMove(k) ==
  \/ RowUnmoved(k) \/ RowCaptured(k) \/ RowInventoried(k) \/ RowReset(k) \/ RowVerified(k)
  \/ RowDemoted(k) \/ RowDeleted(k) \/ RowTombstoned(k) \/ RowMirrored(k)

\* Every step moves a row along the arcs of its life cycle, or leaves it alone.
LEMMA RowMoves ==
  ASSUME TypeOK, [Next]_vars, NEW k \in Msgs
  PROVE  RowMove(k)
<1> USE DEF RowMove, Kept, SameCopy, SameInventory, StaysRipe
<1>1. ASSUME UNCHANGED row PROVE RowMove(k)
  BY <1>1 DEF row, RowUnmoved
<1>2. ASSUME NEW S \in SUBSET Msgs, demote_to_captured(S), pc \in {"d_chunk", "d_requeue"}
      PROVE  RowMove(k)
  BY <1>2 DEF TypeOK, demote_to_captured, InState, RowUnmoved, RowDemoted
<1>3. ASSUME NEW m \in Msgs, CaptureMark(m) PROVE RowMove(k)
  BY <1>3 DEF TypeOK, CaptureMark, mark_captured, RowUnmoved, RowCaptured
<1>4. ASSUME NEW m \in Msgs, CaptureAttach(m) PROVE RowMove(k)
  BY <1>4 DEF TypeOK, CaptureAttach, RowUnmoved, RowInventoried
<1>5. ASSUME NEW m \in Msgs, CaptureUndo(m) PROVE RowMove(k)
  BY <1>1, <1>5 DEF TypeOK, CaptureUndo, reset_to_live, RowUnmoved, RowReset
<1>6. ASSUME NEW m \in Msgs, VerifyApply(m) PROVE RowMove(k)
  <2>1. CASE archive_state[m] = "captured"
    BY <1>6, <2>1 DEF TypeOK, VerifyApply, mark_verified, reset_to_live, RowUnmoved,
       RowReset, RowVerified
  <2>2. CASE archive_state[m] # "captured"
    BY <1>1, <1>6, <2>2 DEF VerifyApply, mark_verified, reset_to_live
  <2> QED
    BY <2>1, <2>2
<1>7. CASE DeletePersist \/ DeletePersistFails
  BY <1>7 DEF TypeOK, DeletePersist, DeletePersistFails, mark_deleted, RowUnmoved, RowDeleted
<1>8. ASSUME NEW m \in Msgs, SyncDropsFolder(m) PROVE RowMove(k)
  BY <1>8 DEF TypeOK, SyncDropsFolder, RowUnmoved, RowMirrored
<1>9. ASSUME NEW m \in Msgs, SyncUpsert(m) PROVE RowMove(k)
  BY <1>9 DEF TypeOK, ArchiveStates, SyncUpsert, upsert_messages, RowUnmoved, RowMirrored
<1>10. ASSUME NEW m \in Msgs, SyncDelete(m) \/ WriteThrough(m) PROVE RowMove(k)
  BY <1>10 DEF TypeOK, ArchiveStates, Archived, SyncDelete, WriteThrough,
     apply_server_deletes, RowUnmoved, RowTombstoned, RowMirrored
<1>11. ASSUME NEW m \in Msgs, GracePasses(m) PROVE RowMove(k)
  BY <1>11 DEF GracePasses, RowUnmoved
<1>12. CASE Runner
  <2>1. CASE DeleteCheck
    <3> PICK chunk \in Page(batch, ChunkSize) :
          \E D \in SUBSET chunk : demote_to_captured(D)
      BY <2>1 DEF DeleteCheck
    <3> PICK D \in SUBSET chunk : demote_to_captured(D)
      OBVIOUS
    <3> QED
      BY <1>2, <2>1 DEF DeleteCheck, Page, Chosen, TypeOK
  <2>2. CASE DeleteRequeue \/ DeleteRequeueFails
    BY <1>2, <2>2 DEF DeleteRequeue, DeleteRequeueFails, TypeOK
  <2> QED
    BY <1>1, <1>7, <1>12, <2>1, <2>2 DEF Runner, BeginRun, SkipLane, FinishRun, AbortRun,
       Crash, CaptureSelect, CaptureFetch, VerifySelect, StartLane, VerifyFetch,
       VerifyEvaluate, GcRead, GcSweep, DeleteSelect, DeleteFetch, DeleteBreak, Outside
<1>13. ASSUME NEW m \in Msgs, CaptureStep(m) \/ VerifyStep(m) \/ DeleteStep(m)
       PROVE  RowMove(k)
  BY <1>1, <1>3, <1>4, <1>5, <1>6, <1>13 DEF VerifyStep, VerifyItemFails, CaptureStep, CaptureTooLarge, CaptureFails,
     CaptureStore, CaptureSkip, CaptureUndoFails, Outside, DeleteStep, DeleteItem,
     DeleteReplyLost, DeleteItemFails, DeleteItemStale, NextItem
<1>14. ASSUME NEW m \in Msgs, Environment(m) PROVE RowMove(k)
  BY <1>1, <1>8, <1>9, <1>10, <1>11, <1>14 DEF Environment, UserEdit, UserDelete,
     FolderVanishes
<1>15. CASE UNCHANGED vars \/ \E f \in Files : DiskDecay(f)
  BY <1>1, <1>15 DEF vars, DiskDecay
<1> QED
  BY <1>12, <1>13, <1>14, <1>15 DEF Next

ItemUnmoved(k) ==
  /\ exch'[k] = exch[k]
  /\ purged'[k] = purged[k]
  /\ k \in raced => \/ k \in raced'
                    \/ purged[k] = 0 /\ pc = "d_fetch"

ItemEdited(k) ==
  /\ exch[k] # 0
  /\ exch'[k] # 0
  /\ purged'[k] = purged[k]
  /\ pc = "d_item" /\ k \in good => k \in raced'

ItemRemoved(k) ==
  /\ exch'[k] = 0
  /\ purged'[k] = purged[k]
  /\ raced' = raced

ItemPurged(k) ==
  /\ pc = "d_item" /\ k \in good
  /\ SameChangekey(k)
  /\ exch[k] # 0
  /\ exch'[k] = 0
  /\ purged'[k] = exch[k]
  /\ raced' = raced

ItemMove(k) == ItemUnmoved(k) \/ ItemEdited(k) \/ ItemRemoved(k) \/ ItemPurged(k)

\* Every step leaves an item alone, or is an edit, a removal by somebody else,
\* or a hard delete by the deleter that compared the changekeys.
LEMMA ItemMoves ==
  ASSUME TypeOK, [Next]_vars, NEW k \in Msgs
  PROVE  ItemMove(k)
<1> USE DEF ItemMove
<1>1. ASSUME UNCHANGED <<exch, purged, raced>> PROVE ItemMove(k)
  BY <1>1 DEF ItemUnmoved
<1>2. CASE Runner
  <2>1. CASE DeleteFetch
    BY <2>1 DEF DeleteFetch, mailbox, ItemUnmoved, TypeOK
  <2> QED
    BY <1>1, <1>2, <2>1 DEF Runner, BeginRun, SkipLane, FinishRun, AbortRun,
       Crash, CaptureSelect, CaptureFetch, VerifySelect, StartLane, VerifyFetch,
       VerifyEvaluate, GcRead, GcSweep, DeleteSelect, DeleteCheck, DeleteRequeue,
       DeleteRequeueFails, DeletePersist, DeletePersistFails, DeleteBreak, Outside, mailbox, history
<1>3. ASSUME NEW m \in Msgs, DeleteItem(m) \/ DeleteReplyLost(m) PROVE ItemMove(k)
  BY <1>3 DEF DeleteItem, DeleteReplyLost, MayDelete, HardDelete, ItemUnmoved, ItemPurged,
     TypeOK
<1>4. ASSUME NEW m \in Msgs, UserEdit(m) PROVE ItemMove(k)
  BY <1>4, ConstantsAssumption DEF UserEdit, ItemUnmoved, ItemEdited, TypeOK, Changekeys
<1>5. ASSUME NEW m \in Msgs, UserDelete(m) \/ FolderVanishes(m) PROVE ItemMove(k)
  BY <1>5 DEF UserDelete, FolderVanishes, history, ItemUnmoved, ItemRemoved, TypeOK
<1>6. ASSUME NEW m \in Msgs, CaptureStep(m) \/ VerifyStep(m) PROVE ItemMove(k)
  BY <1>1, <1>6 DEF CaptureStep, CaptureTooLarge, CaptureFails, CaptureStore, CaptureMark,
     CaptureSkip, CaptureAttach, CaptureUndo, CaptureUndoFails, VerifyStep, VerifyApply,
     VerifyItemFails, Outside, mailbox, history
<1>7. ASSUME NEW m \in Msgs, DeleteStep(m) PROVE ItemMove(k)
  BY <1>1, <1>3, <1>7 DEF DeleteStep, DeleteItemFails, DeleteItemStale, mailbox, history
<1>8. ASSUME NEW m \in Msgs, Environment(m) PROVE ItemMove(k)
  BY <1>1, <1>4, <1>5, <1>8 DEF Environment, SyncDropsFolder, SyncUpsert, SyncDelete,
     WriteThrough, GracePasses, mailbox, history
<1>9. CASE UNCHANGED vars \/ \E f \in Files : DiskDecay(f)
  BY <1>1, <1>9 DEF vars, DiskDecay, mailbox, history
<1> QED
  BY <1>2, <1>6, <1>7, <1>8, <1>9 DEF Next

\* A file that is referenced changes only by being written whole, or by a decay
\* that is recorded when the file was vouched for.
FileMove(f) ==
  \/ file'[f] = file[f] /\ (f \in late => f \in late')
  \/ file'[f] = "good"
  \/ pc = "g_sweep" /\ f \notin keep
  \/ /\ f \in late \cup Vouched => f \in late'
     /\ file'[f] # file[f]
     /\ UNCHANGED <<row, purged, pass>>

(* How a step may treat a file of the store.                               *)
LEMMA FileMoves ==
  ASSUME TypeOK, [Next]_vars, NEW f \in Files
  PROVE  FileMove(f)
<1> USE DEF FileMove
<1>1. ASSUME UNCHANGED <<file, late>> PROVE FileMove(f)
  BY <1>1
<1>2. ASSUME NEW F, StoreFiles(F) PROVE FileMove(f)
  BY <1>2 DEF StoreFiles, TypeOK
<1>3. CASE Runner
  <2>1. CASE GcSweep
    BY <2>1 DEF GcSweep, history, TypeOK
  <2> QED
    BY <1>1, <1>3, <2>1 DEF Runner, BeginRun, SkipLane, FinishRun, AbortRun,
       Crash, CaptureSelect, CaptureFetch, VerifySelect, StartLane, VerifyFetch,
       VerifyEvaluate, GcRead, DeleteSelect, DeleteCheck, DeleteFetch, DeleteRequeue,
       DeleteRequeueFails, DeletePersist, DeletePersistFails, DeleteBreak, Outside, history
<1>4. ASSUME NEW m \in Msgs, CaptureStep(m) \/ VerifyStep(m) PROVE FileMove(f)
  BY <1>1, <1>2, <1>4 DEF CaptureStep, CaptureTooLarge, CaptureFails, CaptureStore,
     CaptureMark, CaptureSkip, CaptureAttach, CaptureUndo, CaptureUndoFails, VerifyStep, VerifyApply,
     VerifyItemFails,
     Outside, history
<1>5. ASSUME NEW m \in Msgs, DeleteStep(m) \/ Environment(m) PROVE FileMove(f)
  BY <1>1, <1>5 DEF DeleteStep, DeleteItem, DeleteReplyLost, DeleteItemFails,
     DeleteItemStale, HardDelete, NextItem, Environment, UserEdit, UserDelete,
     FolderVanishes, SyncDropsFolder, SyncUpsert, SyncDelete, WriteThrough, GracePasses,
     history
<1>6. ASSUME NEW g \in Files, DiskDecay(g) PROVE FileMove(f)
  BY <1>6 DEF DiskDecay, TypeOK
<1>7. CASE UNCHANGED vars
  BY <1>1, <1>7 DEF vars, history
<1> QED
  BY <1>3, <1>4, <1>5, <1>6, <1>7 DEF Next


-----------------------------------------------------------------------------
(***************************************************************************)
(* The steps of others: no pass is involved.                               *)
(***************************************************************************)
Others == (\E m \in Msgs : Environment(m)) \/ (\E f \in Files : DiskDecay(f)) \/ UNCHANGED vars

\* Others leave the pass alone.
LEMMA OthersLeavePass == Others => UNCHANGED pass
BY DEF Others, Environment, UserEdit, UserDelete, FolderVanishes, SyncDropsFolder,
   SyncUpsert, SyncDelete, WriteThrough, GracePasses, DiskDecay, vars

\* Of a row with a copy, others only make a tombstone.
LEMMA OthersMoves ==
  ASSUME TypeOK, Others, NEW k \in Msgs
  PROVE  RowUnmoved(k) \/ RowTombstoned(k) \/ RowMirrored(k)
<1> USE DEF Kept, SameCopy, SameInventory, StaysRipe
<1>2. ASSUME UNCHANGED row PROVE RowUnmoved(k)
  BY <1>2 DEF row, RowUnmoved
<1>3. ASSUME NEW m \in Msgs, SyncDropsFolder(m) PROVE RowUnmoved(k) \/ RowMirrored(k)
  BY <1>3 DEF TypeOK, SyncDropsFolder, RowUnmoved, RowMirrored
<1>4. ASSUME NEW m \in Msgs, SyncUpsert(m) PROVE RowUnmoved(k) \/ RowMirrored(k)
  BY <1>4 DEF TypeOK, ArchiveStates, SyncUpsert, upsert_messages, RowUnmoved, RowMirrored
<1>5. ASSUME NEW m \in Msgs, SyncDelete(m) \/ WriteThrough(m)
      PROVE  RowUnmoved(k) \/ RowTombstoned(k) \/ RowMirrored(k)
  BY <1>5 DEF TypeOK, ArchiveStates, Archived, SyncDelete, WriteThrough,
     apply_server_deletes, RowUnmoved, RowTombstoned, RowMirrored
<1>6. ASSUME NEW m \in Msgs, GracePasses(m) PROVE RowUnmoved(k)
  BY <1>6 DEF GracePasses, RowUnmoved
<1> QED
  BY <1>2, <1>3, <1>4, <1>5, <1>6 DEF Others, Environment, UserEdit, UserDelete,
     FolderVanishes, DiskDecay, vars

\* An item sync is to report, or that went with its folder, is gone: either it
\* already was, or this very step removed it.
LEMMA NoticeMoves ==
  ASSUME TypeOK, [Next]_vars, NEW k \in Msgs
  PROVE  k \in notice' \cup vanished' => k \in notice \cup vanished \/ exch'[k] = 0
<1>1. ASSUME UNCHANGED <<notice, vanished>>
      PROVE  k \in notice' \cup vanished' => k \in notice \cup vanished
  BY <1>1
<1>2. CASE Runner
  BY <1>1, <1>2 DEF Runner, BeginRun, SkipLane, FinishRun, AbortRun,
     Crash, CaptureSelect, CaptureFetch, VerifySelect, StartLane, VerifyFetch,
     VerifyEvaluate, GcRead, GcSweep, DeleteSelect, DeleteCheck, DeleteFetch, DeleteRequeue,
     DeleteRequeueFails, DeletePersist, DeletePersistFails, DeleteBreak, Outside, mailbox
<1>3. ASSUME NEW m \in Msgs, CaptureStep(m) \/ VerifyStep(m)
      PROVE  UNCHANGED <<notice, vanished>>
  BY <1>3 DEF CaptureStep, CaptureTooLarge, CaptureFails, CaptureStore, CaptureMark,
     CaptureSkip, CaptureAttach, CaptureUndo, CaptureUndoFails, VerifyStep, VerifyApply,
     VerifyItemFails, Outside, mailbox
<1>4. ASSUME NEW m \in Msgs, DeleteStep(m)
      PROVE  k \in notice' \cup vanished' => k \in notice \cup vanished \/ exch'[k] = 0
  BY <1>4 DEF DeleteStep, DeleteItem, DeleteReplyLost, DeleteItemFails, DeleteItemStale,
     HardDelete, mailbox, TypeOK
<1>5. ASSUME NEW m \in Msgs, Environment(m)
      PROVE  k \in notice' \cup vanished' => k \in notice \cup vanished \/ exch'[k] = 0
  BY <1>5 DEF Environment, UserEdit, UserDelete, FolderVanishes, SyncDropsFolder, SyncUpsert,
     SyncDelete, WriteThrough, GracePasses, mailbox, TypeOK
<1>6. CASE UNCHANGED vars \/ \E f \in Files : DiskDecay(f)
  BY <1>6 DEF vars, DiskDecay, mailbox
<1> QED
  BY <1>1, <1>2, <1>3, <1>4, <1>5, <1>6 DEF Next

\* An audit record is added only for an item the deleter removed, and only
\* once its row is a tombstone.
LEMMA AuditMoves ==
  ASSUME TypeOK, [Next]_vars, NEW k \in audited'
  PROVE  \/ k \in audited
         \/ pc = "d_persist" /\ k \in done /\ archive_state'[k] = "deleted"
<1>1. CASE Runner
  BY <1>1 DEF Runner, BeginRun, SkipLane, FinishRun, AbortRun,
     Crash, CaptureSelect, CaptureFetch, VerifySelect, StartLane, VerifyFetch,
     VerifyEvaluate, GcRead, GcSweep, DeleteSelect, DeleteCheck, DeleteFetch, DeleteRequeue,
     DeleteRequeueFails, DeletePersist, DeletePersistFails, DeleteBreak, Outside
<1>2. ASSUME NEW m \in Msgs, CaptureStep(m) \/ VerifyStep(m) \/ DeleteStep(m)
      PROVE  audited' = audited
  BY <1>2 DEF CaptureStep, CaptureTooLarge, CaptureFails, CaptureStore, CaptureMark,
     CaptureSkip, CaptureAttach, CaptureUndo, CaptureUndoFails, VerifyStep, VerifyApply,
     VerifyItemFails, DeleteStep, DeleteItem, DeleteReplyLost, DeleteItemFails,
     DeleteItemStale, NextItem, Outside
<1>3. ASSUME Others PROVE audited' = audited
  BY <1>3 DEF Others, Environment, UserEdit, UserDelete, FolderVanishes, SyncDropsFolder,
     SyncUpsert, SyncDelete, WriteThrough, GracePasses, DiskDecay, vars
<1> QED
  BY <1>1, <1>2, <1>3 DEF Next, Others

-----------------------------------------------------------------------------
(***************************************************************************)
(* Every conjunct of Inv is kept by every step.                            *)
(***************************************************************************)
LEMMA RowsKept == Inv /\ [Next]_vars => RowsOK'
<1> SUFFICES ASSUME Inv, [Next]_vars, NEW k \in Msgs PROVE RowOK(k)'
  BY DEF RowsOK
<1>1. RowMove(k)
  BY RowMoves DEF Inv
<1>2. RowOK(k) /\ archive_state[k] \in ArchiveStates
  BY DEF Inv, RowsOK, TypeOK
<1> USE DEF RowOK, ArchiveStates, Archived, Kept, SameCopy, SameInventory
<1>3. CASE RowCaptured(k)
  BY <1>2, <1>3 DEF RowCaptured, Inv, CaptureOK
<1>4. CASE RowInventoried(k)
  BY <1>2, <1>4 DEF RowInventoried, Inv, CaptureOK
<1>5. CASE RowReset(k)
  BY <1>2, <1>5 DEF RowReset
<1>6. CASE RowUnmoved(k) \/ RowMirrored(k)
  BY <1>2, <1>6 DEF RowUnmoved, RowMirrored
<1>7. CASE RowVerified(k) \/ RowDemoted(k) \/ RowDeleted(k) \/ RowTombstoned(k)
  BY <1>2, <1>7 DEF RowVerified, RowDemoted, RowDeleted, RowTombstoned
<1> QED
  BY <1>1, <1>3, <1>4, <1>5, <1>6, <1>7 DEF RowMove

\* What is gone upstream stays gone.
LEMMA GoneStays ==
  ASSUME TypeOK, [Next]_vars, NEW k \in Msgs, exch[k] = 0
  PROVE  exch'[k] = 0
BY ItemMoves DEF ItemMove, ItemUnmoved, ItemEdited, ItemRemoved, ItemPurged

(* Every step keeps GoneOK.                                                *)
LEMMA GoneKept == Inv /\ [Next]_vars => GoneOK'
<1> SUFFICES ASSUME Inv, [Next]_vars PROVE GoneOK'
  OBVIOUS
<1>1. TypeOK /\ TypeOK'
  BY TypeInductive DEF Inv, CaptureOK, Fetched
<1>2. ASSUME NEW k \in Msgs, k \in notice' \cup vanished' PROVE exch'[k] = 0
  BY <1>1, <1>2, NoticeMoves, GoneStays DEF Inv, GoneOK
<1>3. ASSUME NEW k \in Msgs, archive_state'[k] = "deleted" PROVE exch'[k] = 0
  <2>1. archive_state[k] = "deleted" \/ RowDeleted(k) \/ RowTombstoned(k)
    BY <1>1, <1>3, RowMoves DEF RowMove, RowUnmoved, RowCaptured, RowInventoried, RowReset,
       RowVerified, RowDemoted, RowMirrored
  <2>2. CASE RowDeleted(k)
    BY <1>1, <2>2, GoneStays DEF RowDeleted, Inv, DeleteOK, PurgedOK, PurgeOK
  <2>3. CASE RowTombstoned(k)
    BY <1>1, <2>3, GoneStays DEF RowTombstoned, Inv, GoneOK
  <2> QED
    BY <1>1, <2>1, <2>2, <2>3, GoneStays DEF Inv, GoneOK
<1> QED
  BY <1>1, <1>2, <1>3 DEF GoneOK, TypeOK

\* A copy stays safe while the row keeps pointing at the same files and the copy
\* is vouched for: the sweep keeps what is referenced, a decay is on record.
LEMMA SafeStays ==
  ASSUME Inv, [Next]_vars, NEW k \in Msgs, Safe(k),
         archive_state[k] \in Archived,
         \/ purged[k] # 0
         \/ pc \in {"d_fetch", "d_item"} /\ k \in good,
         mime_sha256'[k] = mime_sha256[k], attachments'[k] = attachments[k]
  PROVE  Safe(k)'
<1>1. mime_sha256[k] \in Files /\ mime_sha256[k] # NoFile /\ attachments[k] \subseteq Files
  <2>1. TypeOK /\ RowOK(k)
    BY DEF Inv, RowsOK
  <2>2. captured_changekey[k] \in Versions
    BY <2>1, ConstantsAssumption DEF RowOK, TypeOK, Versions, Changekeys
  <2>3. MimeOf[k][captured_changekey[k]] \in Files
    BY <2>2, ConstantsAssumption
  <2> QED
    BY <2>1, <2>3, ConstantsAssumption DEF RowOK, TypeOK
<1>2. {mime_sha256[k]} \cup attachments[k] \subseteq Held(k)
  BY <1>1 DEF Held
<1>3. Held(k) \subseteq Vouched
  BY DEF Vouched
<1>4. pc = "g_sweep" => Held(k) \subseteq keep
  BY DEF Inv, GcOK
<1>5. ASSUME NEW f \in Held(k), f \in Files, file[f] = "good" \/ f \in late
      PROVE  file'[f] = "good" \/ f \in late'
  <2>1. FileMove(f)
    BY <1>5, FileMoves DEF Inv
  <2> QED
    BY <1>3, <1>4, <1>5, <2>1 DEF FileMove
<1>6. ASSUME NEW f \in Held(k), f \in Files, file[f] # "absent" \/ f \in late
      PROVE  file'[f] # "absent" \/ f \in late'
  <2>1. FileMove(f)
    BY <1>6, FileMoves DEF Inv
  <2> QED
    BY <1>3, <1>4, <1>6, <2>1 DEF FileMove
<1> QED
  BY <1>1, <1>2, <1>5, <1>6 DEF Safe

\* While its copy is pending, a row that is not being demoted keeps it.
LEMMA PurgedRowKept ==
  ASSUME Inv, [Next]_vars, NEW k \in Msgs, purged[k] # 0
  PROVE  /\ archive_state'[k] \in Archived
         /\ SameCopy(k) /\ SameInventory(k)
<1>1. RowMove(k)
  BY RowMoves DEF Inv
<1>2. archive_state[k] \in Archived
  BY DEF Inv, PurgedOK, PurgeOK
<1>3. ~RowCaptured(k) /\ ~RowMirrored(k)
  BY <1>2 DEF RowCaptured, RowMirrored, Archived
<1>4. ~RowInventoried(k) /\ ~RowReset(k)
  BY DEF RowInventoried, RowReset, Inv, CaptureOK, VerifyOK
<1> QED
  BY <1>1, <1>2, <1>3, <1>4 DEF RowMove, RowUnmoved, RowVerified, RowDemoted, RowDeleted,
     RowTombstoned, Kept, Archived

\* Nothing touches the row of an item while the deleter removes that item.
LEMMA PurgingRowKept ==
  ASSUME Inv, [Next]_vars, NEW k \in Msgs, ItemPurged(k)
  PROVE  archive_state[k] = "verified" /\ RowUnmoved(k)
<1>1. RowMove(k)
  BY RowMoves DEF Inv
<1>2. pc = "d_item" /\ k \in good /\ exch[k] # 0
  BY DEF ItemPurged
<1>3. archive_state[k] = "verified"
  BY <1>2 DEF Inv, DeleteOK, Pending, GoneOK
<1>4. k \notin notice
  BY <1>2 DEF Inv, GoneOK
<1> QED
  BY <1>1, <1>2, <1>3, <1>4 DEF RowMove, RowCaptured, RowInventoried, RowReset, RowVerified,
     RowDemoted, RowDeleted, RowTombstoned, RowMirrored

(* Every step keeps PurgedOK.                                              *)
LEMMA PurgedKept == Inv /\ [Next]_vars => PurgedOK'
<1> SUFFICES ASSUME Inv, [Next]_vars, NEW k \in Msgs, purged'[k] # 0
             PROVE  /\ exch'[k] = 0
                    /\ archive_state'[k] \in Archived
                    /\ mime_sha256'[k] = MimeOf[k][purged'[k]] \/ k \in raced'
                    /\ Safe(k)'
  BY DEF PurgedOK, PurgeOK
<1>1. CASE purged'[k] = purged[k]
  <2>1. PurgeOK(k) /\ purged[k] # 0
    BY <1>1 DEF Inv, PurgedOK
  <2>2. exch'[k] = 0
    BY <2>1, GoneStays DEF PurgeOK, Inv
  <2>3. archive_state'[k] \in Archived /\ SameCopy(k) /\ SameInventory(k)
    BY <2>1, PurgedRowKept
  <2>4. k \in raced => k \in raced'
    BY <1>1, <2>1, ItemMoves DEF Inv, PurgeOK, ItemMove, ItemUnmoved, ItemEdited,
       ItemRemoved, ItemPurged
  <2>5. Safe(k)'
    BY <2>1, <2>3, SafeStays DEF PurgeOK, SameCopy, SameInventory
  <2> QED
    BY <1>1, <2>1, <2>2, <2>3, <2>4, <2>5 DEF PurgeOK, SameCopy
<1>2. CASE purged'[k] # purged[k]
  <2>1. ItemPurged(k)
    BY <1>2, ItemMoves DEF Inv, ItemMove, ItemUnmoved, ItemEdited, ItemRemoved
  <2>2. archive_state[k] = "verified" /\ RowUnmoved(k)
    BY <2>1, PurgingRowKept
  <2>3. Pending(k) /\ Safe(k) /\ pc = "d_item" /\ k \in good
    BY <2>1 DEF ItemPurged, Inv, DeleteOK
  <2>4. Safe(k)'
    BY <2>2, <2>3, SafeStays DEF RowUnmoved, Kept, SameCopy, SameInventory, Archived
  <2>5. exch[k] = seen[k] \/ k \in raced
    BY <2>1 DEF ItemPurged, SameChangekey, Inv, DeleteOK
  <2>6. mime_sha256[k] = MimeOf[k][seen[k]]
    BY <2>1, <2>2, <2>3 DEF ItemPurged, SameChangekey, Pending, Inv, RowsOK, RowOK, Archived
  <2> QED
    BY <2>1, <2>2, <2>4, <2>5, <2>6 DEF ItemPurged, RowUnmoved, Kept, SameCopy, Archived
<1> QED
  BY <1>1, <1>2

\* What the deleter removed it has removed for good.
LEMMA PurgedStays ==
  ASSUME Inv, [Next]_vars, NEW k \in Msgs, purged[k] # 0
  PROVE  purged'[k] # 0
BY ItemMoves DEF Inv, ItemMove, ItemUnmoved, ItemEdited, ItemRemoved, ItemPurged

\* A tombstone is never brought back.
LEMMA TombstoneStays ==
  ASSUME Inv, [Next]_vars, NEW k \in Msgs, archive_state[k] = "deleted"
  PROVE  archive_state'[k] = "deleted" /\ SameCopy(k)
BY RowMoves DEF Inv, RowMove, RowUnmoved, RowCaptured, RowInventoried, RowReset, RowVerified,
   RowDemoted, RowDeleted, RowTombstoned, RowMirrored, Kept

(* Every step keeps AuditOK.                                               *)
LEMMA AuditKept == Inv /\ [Next]_vars => AuditOK'
<1> SUFFICES ASSUME Inv, [Next]_vars, NEW k \in audited'
             PROVE  purged'[k] # 0 /\ archive_state'[k] = "deleted"
  BY DEF AuditOK
<1>1. CASE k \in audited
  BY <1>1, PurgedStays, TombstoneStays DEF Inv, AuditOK, TypeOK
<1>2. CASE pc = "d_persist" /\ k \in done /\ archive_state'[k] = "deleted"
  BY <1>2, PurgedStays DEF Inv, DeleteOK, TypeOK
<1> QED
  BY <1>1, <1>2, AuditMoves DEF Inv

(* Every step keeps CaptureOK.                                             *)
LEMMA CaptureKept == Inv /\ [Next]_vars => CaptureOK'
<1> SUFFICES ASSUME Inv, [Next]_vars PROVE CaptureOK'
  OBVIOUS
<1>0. TypeOK
  BY DEF Inv
<1>1. CASE Others
  <2>1. ASSUME NEW m \in Msgs PROVE purged'[m] = purged[m] \/ pc = "d_item"
    BY <1>0, ItemMoves DEF ItemMove, ItemUnmoved, ItemEdited, ItemRemoved, ItemPurged
  <2>2. ASSUME NEW m \in Msgs PROVE RowUnmoved(m) \/ RowTombstoned(m) \/ RowMirrored(m)
    BY <1>0, <1>1, OthersMoves
  <2>3. cur \subseteq Msgs /\ CaptureOK
    BY DEF Inv, TypeOK
  <2>4. UNCHANGED pass
    BY <1>1, OthersLeavePass
  <2> QED
    BY <2>1, <2>2, <2>3, <2>4 DEF CaptureOK, pass, RowUnmoved, RowTombstoned, RowMirrored,
       Kept, SameCopy
<1>2. CASE Runner
  BY <1>2 DEF CaptureOK, Runner, BeginRun, SkipLane, Turn, FinishRun, AbortRun, Crash, CaptureSelect,
     CaptureFetch, VerifySelect, StartLane, VerifyFetch, VerifyEvaluate, GcRead, GcSweep,
     DeleteSelect, DeleteCheck, DeleteFetch, DeleteRequeue, DeleteRequeueFails,
     DeletePersist, DeletePersistFails, DeleteBreak, LoopDelete, Loop
<1>3. ASSUME NEW m \in Msgs, VerifyStep(m) \/ DeleteStep(m) PROVE CaptureOK'
  BY <1>3 DEF CaptureOK, VerifyStep, VerifyApply, VerifyItemFails, DeleteStep, DeleteItem,
     DeleteReplyLost, DeleteItemFails, DeleteItemStale, NextItem, Loop
<1>4. ASSUME NEW m \in Msgs, CaptureStore(m) PROVE CaptureOK'
  BY <1>4 DEF CaptureOK, CaptureStore
<1>5. ASSUME NEW m \in Msgs, CaptureMark(m) PROVE CaptureOK'
  BY <1>5 DEF CaptureOK, CaptureMark, mark_captured, history, Inv, TypeOK, PurgedOK, PurgeOK,
     Archived
<1>6. ASSUME NEW m \in Msgs, CaptureStep(m) PROVE CaptureOK'
  BY <1>4, <1>5, <1>6 DEF CaptureOK, CaptureStep, CaptureTooLarge, CaptureFails, CaptureSkip,
     CaptureAttach, CaptureUndo, CaptureUndoFails, DropItem, Loop
<1> QED
  BY <1>1, <1>2, <1>3, <1>6 DEF Next, Others

(* Every step keeps VerifyOK.                                              *)
LEMMA VerifyKept == Inv /\ [Next]_vars => VerifyOK'
<1> SUFFICES ASSUME Inv, [Next]_vars, pc' \in {"v_eval", "v_apply"}, NEW k \in batch'
             PROVE  purged'[k] = 0
  BY DEF VerifyOK
<1>0. batch \subseteq Msgs /\ TypeOK
  BY DEF Inv, TypeOK
<1>1. k \in batch
  /\ \/ pc \in {"v_eval", "v_apply"}
     \/ pc = "v_fetch" /\ exch[k] # 0
  <2>1. CASE Others
    BY <2>1, OthersLeavePass DEF pass
  <2>2. CASE Runner
    BY <2>2 DEF Runner, BeginRun, SkipLane, Turn, FinishRun, AbortRun, Crash, CaptureSelect,
       CaptureFetch, VerifySelect, StartLane, VerifyFetch, VerifyEvaluate, GcRead, GcSweep,
       DeleteSelect, DeleteCheck, DeleteFetch, DeleteRequeue, DeleteRequeueFails,
       DeletePersist, DeletePersistFails, DeleteBreak, LoopDelete, Loop
  <2>3. ASSUME NEW m \in Msgs, CaptureStep(m) \/ DeleteStep(m) PROVE FALSE
    BY <2>3 DEF CaptureStep, CaptureTooLarge, CaptureFails, CaptureStore, CaptureMark,
       CaptureSkip, CaptureAttach, CaptureUndo, CaptureUndoFails, DropItem, DeleteStep,
       DeleteItem, DeleteReplyLost, DeleteItemFails, DeleteItemStale, NextItem, Loop
  <2>4. ASSUME NEW m \in Msgs, VerifyStep(m) PROVE k \in batch /\ pc = "v_apply"
    BY <2>4 DEF VerifyStep, VerifyApply, VerifyItemFails
  <2> QED
    BY <2>1, <2>2, <2>3, <2>4 DEF Next, Others
<1>2. purged[k] = 0
  BY <1>0, <1>1 DEF Inv, VerifyOK, PurgedOK, PurgeOK
<1>3. purged'[k] = purged[k]
  BY <1>0, <1>1, ItemMoves DEF ItemMove, ItemUnmoved, ItemEdited, ItemRemoved, ItemPurged
<1> QED
  BY <1>2, <1>3

(* Every step keeps GcOK.                                                  *)
LEMMA GcKept == Inv /\ [Next]_vars => GcOK'
<1> SUFFICES ASSUME Inv, [Next]_vars, pc' = "g_sweep", NEW k \in Msgs
             PROVE  Held(k)' \subseteq keep'
  BY DEF GcOK
<1>1. CASE Others
  <2>1. UNCHANGED pass /\ (RowUnmoved(k) \/ RowTombstoned(k) \/ RowMirrored(k))
    BY <1>1, OthersLeavePass, OthersMoves DEF Inv
  <2> QED
    BY <2>1 DEF pass, RowUnmoved, RowTombstoned, RowMirrored, Kept, SameCopy, SameInventory,
       Held, Inv, GcOK
<1>2. CASE Runner
  <2>1. GcRead
    BY <1>2 DEF Runner, BeginRun, SkipLane, Turn, FinishRun, AbortRun, Crash, CaptureSelect,
       CaptureFetch, VerifySelect, StartLane, VerifyFetch, VerifyEvaluate, GcSweep,
       DeleteSelect, DeleteCheck, DeleteFetch, DeleteRequeue, DeleteRequeueFails,
       DeletePersist, DeletePersistFails, DeleteBreak, LoopDelete, Loop
  <2> QED
    BY <2>1 DEF GcRead, Referenced, Held, Outside, row
<1>3. ASSUME NEW m \in Msgs, CaptureStep(m) \/ VerifyStep(m) \/ DeleteStep(m) PROVE FALSE
  BY <1>3 DEF CaptureStep, CaptureTooLarge, CaptureFails, CaptureStore, CaptureMark,
     CaptureSkip, CaptureAttach, CaptureUndo, CaptureUndoFails, DropItem, VerifyStep,
     VerifyApply, VerifyItemFails, DeleteStep, DeleteItem, DeleteReplyLost, DeleteItemFails,
     DeleteItemStale, NextItem, Loop
<1> QED
  BY <1>1, <1>2, <1>3 DEF Next, Others

\* The deleter's bookkeeping survives what others do meanwhile.
LEMMA DeleteKeptByOthers == Inv /\ [Next]_vars /\ Others => DeleteOK'
<1> SUFFICES ASSUME Inv, [Next]_vars, Others PROVE DeleteOK'
  OBVIOUS
<1>1. UNCHANGED pass
  BY OthersLeavePass
<1>2. /\ TypeOK /\ DeleteOK
      /\ batch \subseteq Msgs /\ good \subseteq Msgs /\ done \subseteq Msgs
  BY DEF Inv, TypeOK
<1>3. ASSUME NEW m \in Msgs, Pending(m) PROVE Pending(m)' /\ Kept(m)
  <2>1. RowUnmoved(m) \/ RowTombstoned(m)
    BY <1>2, <1>3, OthersMoves DEF RowMirrored, Pending
  <2> QED
    BY <1>1, <1>3, <2>1 DEF pass, Pending, RowUnmoved, RowTombstoned, Kept, SameCopy, StaysRipe
<1>4. ASSUME NEW m \in good, pc \in {"d_fetch", "d_item"} PROVE Safe(m)'
  BY <1>2, <1>3, <1>4, SafeStays DEF DeleteOK, Pending, Kept, SameCopy, SameInventory, Archived
<1>5. ASSUME NEW m \in good, pc = "d_item"
      PROVE  seen[m] = 0 \/ exch'[m] = 0 \/ exch'[m] = seen[m] \/ m \in raced'
  BY <1>2, <1>5, ItemMoves DEF DeleteOK, ItemMove, ItemUnmoved, ItemEdited, ItemRemoved,
     ItemPurged
<1>6. ASSUME NEW m \in done, pc \in {"d_item", "d_requeue", "d_persist"} PROVE purged'[m] # 0
  BY <1>2, <1>6, PurgedStays DEF DeleteOK
<1> QED
  BY <1>1, <1>2, <1>3, <1>4, <1>5, <1>6 DEF DeleteOK, pass, DeletePCs

\* ... and what an attempt on one item of the chunk does.
LEMMA DeleteKeptByItem ==
  ASSUME Inv, [Next]_vars, NEW m \in Msgs, DeleteStep(m)
  PROVE  DeleteOK'
<1>1. /\ pc = "d_item" /\ m \in good /\ good' = good \ {m}
      /\ pc' \in {"d_item", "d_requeue"}
      /\ done' \subseteq done \cup {m} /\ stale' \subseteq stale \cup {m}
      /\ m \in done' \ done => purged'[m] # 0
      /\ raced' = raced
      /\ UNCHANGED <<row, batch, byId, seen>>
      /\ \A k \in Msgs \ {m} : exch'[k] = exch[k]
  BY DEF DeleteStep, DeleteItem, DeleteReplyLost, DeleteItemFails, DeleteItemStale,
     HardDelete, NextItem, mailbox, history, Inv, TypeOK
<1>2. /\ TypeOK /\ DeleteOK
      /\ batch \subseteq Msgs /\ good \subseteq Msgs /\ done \subseteq Msgs
  BY DEF Inv, TypeOK
<1>3. ASSUME NEW k \in Msgs, Pending(k) PROVE Pending(k)'
  BY <1>1, <1>3 DEF Pending, row
<1>4. ASSUME NEW k \in good PROVE Safe(k)'
  BY <1>1, <1>2, <1>4, SafeStays DEF DeleteOK, Pending, row, Archived
<1>5. ASSUME NEW k \in done' PROVE purged'[k] # 0
  BY <1>1, <1>2, <1>5, PurgedStays DEF DeleteOK
<1> QED
  BY <1>1, <1>2, <1>3, <1>4, <1>5 DEF DeleteOK, DeletePCs

(* Every step keeps DeleteOK.                                              *)
LEMMA DeleteKept == Inv /\ [Next]_vars => DeleteOK'
<1> SUFFICES ASSUME Inv, [Next]_vars PROVE DeleteOK'
  OBVIOUS
<1>0. /\ TypeOK /\ DeleteOK
      /\ batch \subseteq Msgs /\ good \subseteq Msgs /\ done \subseteq Msgs
  BY DEF Inv, TypeOK
<1> USE DEF DeletePCs
<1>1. CASE DeleteSelect
  <2>1. PICK B \in SUBSET deletable_rows : StartLane("delete", B, "d_chunk")
    BY <1>1 DEF DeleteSelect, Chosen
  <2>2. ASSUME NEW m \in B PROVE Pending(m)'
    BY <2>1 DEF StartLane, deletable_rows, InState, Pending, Outside, row
  <2> QED
    BY <2>1, <2>2 DEF StartLane, DeleteOK
<1>2. CASE DeleteCheck
  <2>0. PICK chunk \in SUBSET batch : \E raises \in SUBSET chunk :
          LET unusable == raises \cup {m \in chunk : ~CopyIntact(m)} IN
          /\ \E D \in SUBSET unusable : demote_to_captured(D)
          /\ good' = chunk \ unusable
          /\ batch' = batch \ chunk
    BY <1>2 DEF DeleteCheck, Page, Chosen
  <2>1. /\ good' \subseteq {m \in chunk : CopyIntact(m)}
        /\ batch' = batch \ chunk
        /\ \E D \in SUBSET (chunk \ good') : demote_to_captured(D)
    BY <2>0
  <2>2. /\ pc = "d_chunk" /\ pc' \in {"d_chunk", "d_fetch", "next"}
        /\ done' = {} /\ stale' = {}
        /\ UNCHANGED <<file, byId, late>>
    BY <1>2 DEF DeleteCheck, LoopDelete, Loop, history
  <2>3. ASSUME NEW m \in batch' \cup good' PROVE Pending(m)' /\ Kept(m)
    BY <1>0, <2>1, <2>2, <2>3 DEF DeleteOK, Pending, Kept, SameCopy, SameInventory, StaysRipe,
       demote_to_captured, InState
  <2>4. ASSUME NEW m \in good' PROVE Safe(m)'
    BY <1>0, <2>1, <2>2, <2>3, <2>4 DEF DeleteOK, Pending, CopyIntact, Safe, Kept, SameCopy,
       SameInventory
  <2> QED
    BY <2>1, <2>2, <2>3, <2>4 DEF DeleteOK
<1>3. CASE DeleteFetch
  <2>1. /\ pc = "d_fetch" /\ pc' = "d_item"
        /\ \A m \in good : seen'[m] = exch'[m]
        /\ UNCHANGED <<row, file, late, batch, byId, good, done, stale>>
    BY <1>0, <1>3 DEF DeleteFetch, mailbox, row
  <2> QED
    BY <1>0, <2>1 DEF DeleteOK, Pending, Safe, row
<1>4. CASE DeleteRequeue
  <2>1. /\ pc = "d_requeue" /\ pc' \in {"d_chunk", "d_persist", "next"}
        /\ demote_to_captured(stale)
        /\ UNCHANGED <<purged, batch, byId, good, done, stale>>
    BY <1>4 DEF DeleteRequeue, LoopDelete, Loop, history
  <2>2. ASSUME NEW m \in batch PROVE Pending(m)'
    BY <1>0, <2>1 DEF DeleteOK, Pending, demote_to_captured, InState
  <2> QED
    BY <1>0, <2>1, <2>2 DEF DeleteOK
<1>5. CASE DeletePersist
  <2>1. /\ pc = "d_persist" /\ pc' \in {"d_chunk", "next"}
        /\ mark_deleted(done)
        /\ UNCHANGED <<batch, byId, good, done, stale>>
    BY <1>5 DEF DeletePersist, LoopDelete, Loop
  <2>2. ASSUME NEW m \in batch PROVE Pending(m)'
    BY <1>0, <2>1 DEF DeleteOK, Pending, mark_deleted
  <2> QED
    BY <1>0, <2>1, <2>2 DEF DeleteOK
<1>6. CASE pc' \notin DeletePCs
  BY <1>6 DEF DeleteOK
<1>7. CASE Runner
  BY <1>1, <1>2, <1>3, <1>4, <1>5, <1>6, <1>7 DEF Runner, BeginRun, SkipLane, Turn, FinishRun,
     AbortRun, Crash, CaptureSelect, CaptureFetch, VerifySelect, StartLane, VerifyFetch,
     VerifyEvaluate, GcRead, GcSweep, DeleteRequeueFails, DeletePersistFails, DeleteBreak,
     Loop
<1>8. ASSUME NEW m \in Msgs, CaptureStep(m) \/ VerifyStep(m) PROVE pc' \notin DeletePCs
  BY <1>8 DEF CaptureStep, CaptureTooLarge, CaptureFails, CaptureStore, CaptureMark,
     CaptureSkip, CaptureAttach, CaptureUndo, CaptureUndoFails, DropItem, VerifyStep,
     VerifyApply, VerifyItemFails, Loop
<1> QED
  BY <1>6, <1>7, <1>8, DeleteKeptByOthers, DeleteKeptByItem DEF Next, Others

-----------------------------------------------------------------------------
(***************************************************************************)
(* The theorems.                                                           *)
(***************************************************************************)

(* Inv is an inductive invariant of the pipeline. *)
THEOREM Invariance == Spec => []Inv
<1>1. Init => Inv
  <2>1. Init => TypeOK
    BY ConstantsAssumption DEF Init, TypeOK, Versions, Changekeys, ArchiveStates,
       FileStates, Lanes, PCs, Snapshot, NoSnapshot, NothingSeen
  <2>2. Init => RowsOK /\ GoneOK /\ PurgedOK /\ AuditOK
    BY DEF Init, RowsOK, RowOK, GoneOK, PurgedOK, PurgeOK, AuditOK, Archived
  <2>3. Init => CaptureOK /\ VerifyOK /\ GcOK /\ DeleteOK
    BY DEF Init, CaptureOK, VerifyOK, GcOK, DeleteOK, DeletePCs
  <2> QED
    BY <2>1, <2>2, <2>3 DEF Inv
<1>2. Inv /\ [Next]_vars => Inv'
  <2>1. Inv /\ [Next]_vars => TypeOK'
    BY TypeInductive DEF Inv, CaptureOK, Fetched
  <2> QED
    BY <2>1, RowsKept, GoneKept, PurgedKept, AuditKept, CaptureKept, VerifyKept, GcKept,
       DeleteKept DEF Inv
<1> QED
  BY <1>1, <1>2, PTL DEF Spec

(* Whatever the batch sizes and the interleaving of sync, crashes, edits and *)
(* disk decay, mail the deleter removed is still in the archive (NoLoss).    *)
THEOREM MailIsNotLost == Spec => []NoLoss
<1>1. Inv => NoLoss
  <2> SUFFICES ASSUME Inv, NEW m \in Msgs, purged[m] # 0
               PROVE  /\ archive_state[m] \in Archived
                      /\ mime_sha256[m] # NoFile
                      /\ Safe(m)
    BY DEF NoLoss, Safe
  <2>1. PurgeOK(m) /\ RowOK(m) /\ TypeOK
    BY DEF Inv, PurgedOK, RowsOK
  <2>2. archive_state[m] \in Archived /\ Safe(m)
    BY <2>1 DEF PurgeOK
  <2>3. captured_changekey[m] \in Versions
    BY <2>1, <2>2, ConstantsAssumption DEF RowOK, TypeOK, Versions, Changekeys
  <2>4. mime_sha256[m] \in Files
    BY <2>1, <2>2, <2>3, ConstantsAssumption DEF RowOK
  <2> QED
    BY <2>2, <2>4, ConstantsAssumption
<1> QED
  BY <1>1, Invariance, PTL

(* The copy kept is that of the version destroyed, but for an edit inside    *)
(* the window between the chunk's fetch and the item's delete.               *)
THEOREM CopyMatches == Spec => []CopyIsOfPurgedVersion
<1>1. Inv => CopyIsOfPurgedVersion
  BY DEF Inv, PurgedOK, PurgeOK, CopyIsOfPurgedVersion
<1> QED
  BY <1>1, Invariance, PTL

(* No row ever carries the inventory of a capture that was thrown away.      *)
THEOREM InventoryMatches == Spec => []InventoryNotStale
<1>1. Inv => InventoryNotStale
  BY DEF Inv, RowsOK, RowOK, InventoryNotStale, TypeOK, ArchiveStates, Archived
<1> QED
  BY <1>1, Invariance, PTL

(* Every archive_delete audit record is true of mailbox and store.           *)
THEOREM AuditTrue == Spec => []AuditIsTrue
<1>1. Inv => AuditIsTrue
  BY DEF Inv, AuditOK, AuditIsTrue
<1> QED
  BY <1>1, Invariance, PTL

(* The deleter removes only what is verified and past its grace period.      *)
THEOREM PurgesAreVerified == Spec => PurgeOnlyVerified
<1>1. Inv /\ [Next]_vars =>
        [\A m \in Msgs : purged'[m] # purged[m] =>
            archive_state[m] = "verified" /\ m \in ripe]_vars
  <2> SUFFICES ASSUME Inv, [Next]_vars, NEW m \in Msgs, purged'[m] # purged[m]
               PROVE  archive_state[m] = "verified" /\ m \in ripe
    OBVIOUS
  <2>1. ItemPurged(m)
    BY ItemMoves DEF Inv, ItemMove, ItemUnmoved, ItemEdited, ItemRemoved
  <2> QED
    BY <2>1, PurgingRowKept DEF ItemPurged, Inv, DeleteOK, Pending
<1> QED
  BY <1>1, Invariance, PTL DEF Spec, PurgeOnlyVerified

(* No write of any component, in any order, revives a tombstone or takes its *)
(* copy away.                                                                *)
THEOREM TombstonesAreFinal == Spec => TombstoneIsFinal
<1>1. Inv /\ [Next]_vars =>
        [\A m \in Msgs : archive_state[m] = "deleted" =>
            archive_state'[m] = "deleted" /\ mime_sha256'[m] = mime_sha256[m]]_vars
  BY TombstoneStays DEF SameCopy
<1> QED
  BY <1>1, Invariance, PTL DEF Spec, TombstoneIsFinal

-----------------------------------------------------------------------------
(***************************************************************************)
(* Refinement: the pipeline implements Custody.                            *)
(***************************************************************************)

\* A reset is a Forget, or nothing when the row moved on.
LEMMA ResetForgets ==
  ASSUME Inv, NEW m \in Msgs, reset_to_live(m), UNCHANGED <<exch, purged>>, purged[m] = 0
  PROVE  [C!Next]_C!vars
<1>1. CASE archive_state[m] = "captured"
  <2>1. captured_changekey[m] # 0
    BY <1>1 DEF Inv, RowsOK, RowOK, Archived
  <2>2. captured_changekey' = [captured_changekey EXCEPT ![m] = 0]
    BY <1>1 DEF reset_to_live
  <2> QED
    BY <2>1, <2>2 DEF C!Next, C!Forget
<1>2. CASE archive_state[m] # "captured"
  BY <1>2 DEF reset_to_live, row, C!vars
<1> QED
  BY <1>1, <1>2

\* The owner's edits and removals are Owner steps.
LEMMA OwnerSteps ==
  ASSUME Inv, NEW m \in Msgs, UserEdit(m) \/ UserDelete(m) \/ FolderVanishes(m)
  PROVE  [C!Next]_C!vars
<1>1. UNCHANGED <<captured_changekey, purged>>
  BY DEF UserEdit, UserDelete, FolderVanishes, row, history
<1>2. CASE UserEdit(m)
  <2>1. exch[m] \in Nat /\ exch[m] # 0 /\ exch[m] + 1 \in 1 .. MaxVersion
    BY <1>2, ConstantsAssumption DEF UserEdit, Inv, TypeOK, Changekeys
  <2>2. exch' = [exch EXCEPT ![m] = exch[m] + 1]
    BY <1>2 DEF UserEdit
  <2>3. exch[m] + 1 \in {k \in C!Versions : k > exch[m]}
    BY <2>1 DEF C!Versions
  <2> QED
    BY <1>1, <2>1, <2>2, <2>3 DEF C!Next, C!Owner
<1>3. CASE exch[m] # 0 /\ exch' = [exch EXCEPT ![m] = 0]
  BY <1>1, <1>3 DEF C!Next, C!Owner
<1>4. CASE exch[m] = 0 /\ exch' = [exch EXCEPT ![m] = 0]
  BY <1>1, <1>4 DEF C!vars, Inv, TypeOK
<1> QED
  BY <1>2, <1>3, <1>4 DEF UserDelete, FolderVanishes

\* Every step of the pipeline is a step of Custody or a stutter.
LEMMA StepRefines == Inv /\ [Next]_vars => [C!Next]_C!vars
<1> SUFFICES ASSUME Inv, [Next]_vars PROVE [C!Next]_C!vars
  OBVIOUS
<1>1. ASSUME UNCHANGED <<exch, captured_changekey, purged>> PROVE [C!Next]_C!vars
  BY <1>1 DEF C!vars
<1>2. CASE Runner
  BY <1>1, <1>2 DEF Runner, BeginRun, SkipLane, FinishRun, AbortRun,
     Crash, CaptureSelect, CaptureFetch, VerifySelect, StartLane, VerifyFetch,
     VerifyEvaluate, GcRead, GcSweep, DeleteSelect, DeleteCheck, DeleteFetch, DeleteRequeue,
     DeleteRequeueFails, DeletePersist, DeletePersistFails, DeleteBreak,
     demote_to_captured, mark_deleted, Outside, mailbox, row, history
<1>3. ASSUME NEW m \in Msgs, CaptureMark(m) PROVE [C!Next]_C!vars
  <2>1. captured_changekey[m] = 0
    BY <1>3 DEF CaptureMark, Inv, RowsOK, RowOK
  <2>2. seen[m] \in C!Versions
    BY <1>3, ConstantsAssumption DEF CaptureMark, Inv, CaptureOK, TypeOK, Changekeys, C!Versions
  <2>3. /\ captured_changekey' = [captured_changekey EXCEPT ![m] = seen[m]]
        /\ UNCHANGED <<exch, purged>>
    BY <1>3 DEF CaptureMark, mark_captured, mailbox, history
  <2> QED
    BY <2>1, <2>2, <2>3 DEF C!Next, C!Keep
<1>4. ASSUME NEW m \in Msgs, CaptureUndo(m) PROVE [C!Next]_C!vars
  <2>1. reset_to_live(m) /\ UNCHANGED <<exch, purged>> /\ purged[m] = 0
    BY <1>4 DEF CaptureUndo, mailbox, history, Inv, CaptureOK
  <2> QED
    BY <2>1, ResetForgets
<1>5. ASSUME NEW m \in Msgs, VerifyApply(m) PROVE [C!Next]_C!vars
  <2>1. UNCHANGED <<exch, purged>> /\ purged[m] = 0
    BY <1>5 DEF VerifyApply, mailbox, history, Inv, VerifyOK
  <2>2. CASE reset_to_live(m)
    BY <2>1, <2>2, ResetForgets
  <2>3. CASE mark_verified(m)
    BY <1>1, <2>1, <2>3 DEF mark_verified, row
  <2> QED
    BY <1>5, <2>2, <2>3 DEF VerifyApply
<1>6. ASSUME NEW m \in Msgs, DeleteItem(m) \/ DeleteReplyLost(m) PROVE [C!Next]_C!vars
  <2>1. /\ exch[m] # 0
        /\ exch' = [exch EXCEPT ![m] = 0]
        /\ purged' = [purged EXCEPT ![m] = exch[m]]
        /\ captured_changekey' = captured_changekey
    BY <1>6 DEF DeleteItem, DeleteReplyLost, HardDelete, NextItem, row
  <2>2. captured_changekey[m] # 0
    BY <1>6 DEF DeleteItem, DeleteReplyLost, MayDelete, SameChangekey, Inv, DeleteOK, Pending
  <2> QED
    BY <2>1, <2>2 DEF C!Next, C!Purge
<1>7. ASSUME NEW m \in Msgs, CaptureStep(m) PROVE [C!Next]_C!vars
  BY <1>1, <1>3, <1>4, <1>7 DEF CaptureStep, CaptureTooLarge, CaptureFails, CaptureStore,
     CaptureSkip, CaptureAttach, CaptureUndoFails, Outside, mailbox, row, history
<1>8. ASSUME NEW m \in Msgs, VerifyStep(m) \/ DeleteStep(m) PROVE [C!Next]_C!vars
  BY <1>1, <1>5, <1>6, <1>8 DEF VerifyStep, VerifyItemFails, DeleteStep, DeleteItemFails,
     DeleteItemStale, NextItem, Outside, mailbox, row, history
<1>9. ASSUME NEW m \in Msgs, Environment(m) PROVE [C!Next]_C!vars
  BY <1>1, <1>9, OwnerSteps DEF Environment, SyncDropsFolder, SyncUpsert, SyncDelete,
     WriteThrough, GracePasses, upsert_messages, apply_server_deletes, mailbox, row, history
<1>10. CASE UNCHANGED vars \/ \E f \in Files : DiskDecay(f)
  BY <1>1, <1>10 DEF vars, DiskDecay, mailbox, row, history
<1> QED
  BY <1>2, <1>7, <1>8, <1>9, <1>10 DEF Next

(* The pipeline implements Custody: a copy whose original the deleter removed *)
(* is never forgotten or replaced, and none is removed without a copy.        *)
THEOREM ImplementsCustody == Spec => CustodyKept
<1>1. Init => C!Init
  BY DEF Init, C!Init
<1>2. Inv /\ [Next]_vars => [C!Next]_C!vars
  BY StepRefines
<1> QED
  BY <1>1, <1>2, Invariance, PTL DEF Spec, CustodyKept, C!Spec

=============================================================================
