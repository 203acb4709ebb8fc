---------------------------- MODULE MailArchive ----------------------------
(***************************************************************************)
(* The mail archive of ewsd: capture -> verify -> delete, plus the orphan  *)
(* file sweep (gc), over one Postgres mirror, one content-addressed file   *)
(* store and the Exchange mailbox.                                         *)
(*                                                                         *)
(*   ewsmcp/archive/{runner,capture,verify,delete,gc,files}.py             *)
(*   ewsmcp/cache/store.py   (the archive columns of ews.messages)         *)
(*                                                                         *)
(* One pass runs at a time (ArchiveRunner._lock), so the pass is a single  *)
(* sequential process with a program counter; between any two of its steps *)
(* the sync engine, the write tools, the mailbox's owner, the disk and a   *)
(* crash may act.  A changekey is a version number; 0 is "no such item" on *)
(* the mailbox side and NULL on the database side.                         *)
(***************************************************************************)
EXTENDS Naturals, FiniteSets

CONSTANTS
  Msgs,           \* ews ids
  MaxVersion,     \* bound on the owner's edits: a message has versions 1..MaxVersion
  Files,          \* names in the content-addressed store (mime/ and blobs/)
  NoFile,         \* SQL NULL for mime_sha256
  MimeOf,         \* MimeOf[m][v]: the .eml a capture of version v of m stores
  BlobsOf,        \* BlobsOf[m][v]: the attachment blobs of that version
  Oversize,       \* pairs <<m, v>>: version v of m is above ARCHIVE_MAX_ITEM_MB
  Fragile,        \* files the disk may lose or corrupt (bounds the model)
  CaptureLimit,   \* BATCH_SIZE of capture.py and verify.py
  MaxDelete,      \* ARCHIVE_MAX_DELETE_PER_RUN
  ChunkSize,      \* BATCH_SIZE of delete.py
  DeleteEnabled,  \* ARCHIVE_DELETE_ENABLED
  DeleteAuto      \* ARCHIVE_DELETE_AUTO: the background cycle may delete

Versions == 1 .. MaxVersion
Changekeys == 0 .. MaxVersion

ASSUME ConstantsAssumption ==
  /\ MaxVersion \in Nat \ {0}
  /\ NoFile \notin Files
  /\ MimeOf \in [Msgs -> [Versions -> Files]]
  /\ BlobsOf \in [Msgs -> [Versions -> SUBSET Files]]
  /\ Oversize \subseteq Msgs \X Versions
  /\ Fragile \subseteq Files
  /\ CaptureLimit \in Nat \ {0}
  /\ MaxDelete \in Nat \ {0}
  /\ ChunkSize \in Nat \ {0}
  /\ DeleteEnabled \in BOOLEAN
  /\ DeleteAuto \in BOOLEAN

VARIABLES
  \* The Exchange mailbox.
  exch,                \* version of each item, 0 when it is gone
  notice,              \* items whose removal the sync delta still has to report
  vanished,            \* items that went with their folder: never reported
  \* ews.messages and ews.attachments.
  archive_state,
  mime_sha256,
  captured_changekey,
  attachments,         \* the sha256 column of ews.attachments, per message
  ripe,                \* rows whose verified_at lies a grace period back
  older,               \* per row, the rows whose archived_at precedes its own
  \* DATA_DIR.
  file,
  \* The pass that holds ArchiveRunner._lock.
  pc, lanes, batch, cur, byId, seen, good, done, stale, keep,
  tooLarge,            \* ArchiveRunner._too_large_ids
  \* The audit chain: items with an archive_delete record.
  audited,
  \* History, read by the properties only.
  purged,              \* version the deleter removed from Exchange, 0 if none
  late,                \* files lost after the last-mile check vouched for them
  raced                \* items edited between the deleter's fetch and its delete

mailbox == <<exch, notice, vanished>>
row     == <<archive_state, mime_sha256, captured_changekey, attachments, ripe, older>>
pass    == <<pc, lanes, batch, cur, byId, seen, good, done, stale, keep>>
history == <<purged, late, raced>>
vars    == <<mailbox, row, file, pass, tooLarge, audited, history>>

ArchiveStates == {"none", "live", "captured", "verified", "deleted"}
Archived      == {"captured", "verified", "deleted"}
FileStates    == {"good", "rotten", "absent"}
                 \* rotten: right size, wrong bytes; absent: missing or short
Lanes         == {"capture", "verify", "gc", "delete"}
PCs           == {"idle", "next", "c_fetch", "c_item", "c_mark", "c_attach",
                  "v_fetch", "v_eval", "v_apply", "g_sweep",
                  "d_chunk", "d_fetch", "d_item", "d_requeue", "d_persist"}
Snapshot      == [mime : Files \cup {NoFile}, ck : Changekeys]

TypeOK ==
  /\ exch \in [Msgs -> Changekeys]
  /\ notice \subseteq Msgs
  /\ vanished \subseteq Msgs
  /\ archive_state \in [Msgs -> ArchiveStates]
  /\ mime_sha256 \in [Msgs -> Files \cup {NoFile}]
  /\ captured_changekey \in [Msgs -> Changekeys]
  /\ attachments \in [Msgs -> SUBSET Files]
  /\ ripe \subseteq Msgs
  /\ older \in [Msgs -> SUBSET Msgs]
  /\ file \in [Files -> FileStates]
  /\ pc \in PCs
  /\ lanes \subseteq Lanes
  /\ batch \subseteq Msgs
  /\ cur \subseteq Msgs
  /\ byId \in [Msgs -> Snapshot]
  /\ seen \in [Msgs -> Changekeys]
  /\ good \subseteq Msgs
  /\ done \subseteq Msgs
  /\ stale \subseteq Msgs
  /\ keep \subseteq Files
  /\ tooLarge \subseteq Msgs
  /\ audited \subseteq Msgs
  /\ purged \in [Msgs -> Changekeys]
  /\ late \subseteq Files
  /\ raced \subseteq Msgs

NoSnapshot == [m \in Msgs |-> [mime |-> NoFile, ck |-> 0]]
NothingSeen == [m \in Msgs |-> 0]

(***************************************************************************)
(* A mirrored mailbox nothing of which is archived yet, and an idle runner *)
(***************************************************************************)
Init ==
  /\ exch = [m \in Msgs |-> 1]
  /\ notice = {} /\ vanished = {}
  /\ archive_state = [m \in Msgs |-> "live"]
  /\ mime_sha256 = [m \in Msgs |-> NoFile]
  /\ captured_changekey = [m \in Msgs |-> 0]
  /\ attachments = [m \in Msgs |-> {}]
  /\ ripe = {}
  /\ older = [m \in Msgs |-> {}]
  /\ file = [f \in Files |-> "absent"]
  /\ pc = "idle" /\ lanes = {}
  /\ batch = {} /\ cur = {} /\ good = {} /\ done = {} /\ stale = {} /\ keep = {}
  /\ byId = NoSnapshot /\ seen = NothingSeen
  /\ tooLarge = {} /\ audited = {}
  /\ purged = [m \in Msgs |-> 0] /\ late = {} /\ raced = {}

-----------------------------------------------------------------------------
(***************************************************************************)
(* The store: each operator is one guarded UPDATE of cache/store.py.       *)
(***************************************************************************)
InState(s) == {m \in Msgs : archive_state[m] = s}

CopyFiles(m, v) == {MimeOf[m][v]} \cup BlobsOf[m][v]

\* What the row of m points at on disk.
Held(m) == ({mime_sha256[m]} \ {NoFile}) \cup attachments[m]

\* The order of archived_at is kept where it can matter, when the verifier's
\* page may not hold every row.
OnePage == Cardinality(Msgs) <= CaptureLimit

\* archived_at is cleared, and set anew by the next capture.
Unqueue(m) == [k \in Msgs |-> IF k = m THEN {} ELSE older[k] \ {m}]

mark_captured(m) ==
  /\ archive_state' = [archive_state EXCEPT ![m] = "captured"]
  /\ mime_sha256' = [mime_sha256 EXCEPT ![m] = MimeOf[m][seen[m]]]
  /\ captured_changekey' = [captured_changekey EXCEPT ![m] = seen[m]]
  /\ older' = [older EXCEPT ![m] = IF OnePage THEN {}
                                   ELSE {k \in Msgs : archive_state[k] \in Archived}]
  /\ UNCHANGED <<attachments, ripe>>

demote_to_captured(S) ==
  LET D == S \cap InState("verified") IN
  /\ archive_state' = [m \in Msgs |-> IF m \in D THEN "captured" ELSE archive_state[m]]
  /\ ripe' = ripe \ D
  /\ UNCHANGED <<mime_sha256, captured_changekey, attachments, older>>

\* Seeded fault: the inventory of the forgotten capture is left behind.
reset_to_live_keeping_inventory(m) ==
  IF archive_state[m] = "captured"
  THEN /\ archive_state' = [archive_state EXCEPT ![m] = "live"]
       /\ mime_sha256' = [mime_sha256 EXCEPT ![m] = NoFile]
       /\ captured_changekey' = [captured_changekey EXCEPT ![m] = 0]
       /\ older' = Unqueue(m)
       /\ UNCHANGED <<attachments, ripe>>
  ELSE UNCHANGED row

reset_to_live(m) ==
  IF archive_state[m] = "captured"
  THEN /\ archive_state' = [archive_state EXCEPT ![m] = "live"]
       /\ mime_sha256' = [mime_sha256 EXCEPT ![m] = NoFile]
       /\ captured_changekey' = [captured_changekey EXCEPT ![m] = 0]
       /\ attachments' = [attachments EXCEPT ![m] = {}]
       /\ ripe' = ripe \ {m}
       /\ older' = Unqueue(m)
  ELSE UNCHANGED row

\* Seeded fault: no WHERE archive_state = 'captured'.
mark_verified_unguarded(m) ==
  /\ archive_state' = [archive_state EXCEPT ![m] = "verified"]
  /\ ripe' = ripe \ {m}
  /\ UNCHANGED <<mime_sha256, captured_changekey, attachments, older>>

mark_verified(m) ==
  IF archive_state[m] = "captured"
  THEN /\ archive_state' = [archive_state EXCEPT ![m] = "verified"]
       /\ ripe' = ripe \ {m}
       /\ UNCHANGED <<mime_sha256, captured_changekey, attachments, older>>
  ELSE UNCHANGED row

\* Seeded fault: the newest captures come first.
captured_rows_newest ==
  {m \in InState("captured") :
     Cardinality({k \in InState("captured") : m \in older[k]}) < CaptureLimit}

\* ORDER BY archived_at LIMIT.
captured_rows ==
  {m \in InState("captured") : Cardinality(older[m] \cap InState("captured")) < CaptureLimit}

\* Verified rows past the verification half of rail 3.
deletable_rows == InState("verified") \cap ripe

\* Seeded fault: a state the column's CHECK does not know.
mark_deleted_as_purged(S) ==
  /\ archive_state' = [m \in Msgs |->
       IF m \in S /\ archive_state[m] = "verified" THEN "purged"
                                                   ELSE archive_state[m]]
  /\ UNCHANGED <<mime_sha256, captured_changekey, attachments, ripe, older>>

mark_deleted(S) ==
  /\ archive_state' = [m \in Msgs |->
       IF m \in S /\ archive_state[m] = "verified" THEN "deleted"
                                                   ELSE archive_state[m]]
  /\ UNCHANGED <<mime_sha256, captured_changekey, attachments, ripe, older>>

\* Seeded fault: a verified row, the deleter's business, is left to the deleter.
apply_server_deletes_captured_only(m) ==
  /\ archive_state' = [archive_state EXCEPT ![m] =
       IF @ = "captured" THEN "deleted" ELSE IF @ = "live" THEN "none" ELSE @]
  /\ UNCHANGED <<mime_sha256, captured_changekey, attachments, ripe, older>>

\* A kept copy becomes a tombstone, a live row is dropped (its attachments
\* cascade, it has none), a tombstone stays as it is.
apply_server_deletes(m) ==
  /\ archive_state' = [archive_state EXCEPT ![m] =
       IF @ \in Archived THEN "deleted" ELSE "none"]
  /\ UNCHANGED <<mime_sha256, captured_changekey, attachments, ripe, older>>

upsert_messages(m) ==
  /\ archive_state' = [archive_state EXCEPT ![m] = IF @ = "none" THEN "live" ELSE @]
  /\ UNCHANGED <<mime_sha256, captured_changekey, attachments, ripe, older>>

\* A selection under LIMIT: dates, folders and categories (the policy, or the
\* overrides of archive_run) decide which of the rows in S qualify.
Chosen(S, limit) == {B \in SUBSET S : B # {} /\ Cardinality(B) <= limit}

\* One slice of a batch: all of it when it fits.
Page(S, limit) == {B \in Chosen(S, limit) : Cardinality(S) <= limit => B = S}

-----------------------------------------------------------------------------
(***************************************************************************)
(* ArchiveRunner: passes and lanes.                                        *)
(***************************************************************************)
Rank == [capture |-> 1, verify |-> 2, gc |-> 3, delete |-> 4]

\* The lanes a pass of each kind goes through ("embed" touches none of this).
LanesOf == [capture |-> {"capture"}, verify |-> {"verify"}, gc |-> {"gc"},
            delete |-> {"delete"}, all |-> {"capture", "verify", "delete"}]

Outside == <<mailbox, row, file, tooLarge, audited, history>>

ClearPass ==
  /\ batch' = {} /\ cur' = {} /\ good' = {} /\ done' = {} /\ stale' = {} /\ keep' = {}
  /\ byId' = NoSnapshot /\ seen' = NothingSeen

\* run_once, and the background loop, which deletes only under DeleteAuto.
BeginRun(kind) ==
  /\ pc = "idle" /\ pc' = "next"
  /\ lanes' \in {LanesOf[kind]} \cup
       (IF kind = "all" /\ ~DeleteAuto THEN {LanesOf[kind] \ {"delete"}} ELSE {})
  /\ ClearPass
  /\ UNCHANGED Outside

Turn(l) == pc = "next" /\ l \in lanes /\ \A k \in lanes : Rank[l] <= Rank[k]

StartLane(l, B, first) ==
  /\ Turn(l)
  /\ lanes' = lanes \ {l}
  /\ pc' = first
  /\ batch' = B
  /\ byId' = [m \in Msgs |-> IF m \in B THEN [mime |-> mime_sha256[m],
                                              ck |-> captured_changekey[m]]
                                        ELSE NoSnapshot[m]]
  /\ seen' = NothingSeen
  /\ cur' = {} /\ good' = {} /\ done' = {} /\ stale' = {} /\ keep' = {}
  /\ UNCHANGED Outside

\* A lane that finds nothing to do, or stops before it starts: no free disk
\* space (capture), deletion off or held by a stale backup (delete).
SkipLane(l) ==
  /\ Turn(l)
  /\ l = "verify" => InState("captured") = {}
  /\ lanes' = lanes \ {l}
  /\ UNCHANGED <<Outside, pc, batch, cur, byId, seen, good, done, stale, keep>>

FinishRun ==
  /\ pc = "next" /\ lanes = {}
  /\ pc' = "idle"
  /\ ClearPass
  /\ UNCHANGED <<Outside, lanes>>

\* An exception that leaves a lane ends the pass; per-item errors do not.
AbortRun ==
  /\ pc \notin {"idle", "c_item", "c_mark", "c_attach", "d_item"}
  /\ pc' = "idle" /\ lanes' = {}
  /\ ClearPass
  /\ UNCHANGED Outside

\* ewsd dies anywhere and is started again.
Crash ==
  /\ pc' = "idle" /\ lanes' = {} /\ tooLarge' = {}
  /\ ClearPass
  /\ UNCHANGED <<mailbox, row, file, audited, history>>

\* Where a loop over batch goes when `rest` of it is left.
Loop(here, rest) == pc' = IF rest = {} THEN "next" ELSE here

-----------------------------------------------------------------------------
(***************************************************************************)
(* Capture.  The row is flipped before its inventory is written, in two    *)
(* transactions.                                                           *)
(***************************************************************************)
archive_candidates == InState("live") \ tooLarge

CaptureSelect ==
  \E B \in Chosen(archive_candidates, CaptureLimit) : StartLane("capture", B, "c_fetch")

CaptureFetch ==
  /\ pc = "c_fetch" /\ pc' = "c_item"
  /\ seen' = [m \in Msgs |-> IF m \in batch THEN exch[m] ELSE 0]
  /\ UNCHANGED <<Outside, lanes, batch, cur, byId, good, done, stale, keep>>

\* The item leaves the batch without a capture and its row stays as it is.
DropItem(m) ==
  /\ batch' = batch \ {m} /\ cur' = {}
  /\ Loop("c_item", batch \ {m})
  /\ UNCHANGED <<lanes, byId, seen, good, done, stale, keep>>

StoreFiles(F) ==
  /\ file' = [f \in Files |-> IF f \in F THEN "good" ELSE file[f]]
  /\ late' = late \ F

CaptureTooLarge(m) ==
  /\ pc = "c_item" /\ m \in batch /\ <<m, seen[m]>> \in Oversize
  /\ tooLarge' = tooLarge \cup {m}
  /\ DropItem(m)
  /\ UNCHANGED <<mailbox, row, file, audited, history>>

\* The fetch returned an error, or MIME or attachment bytes could not be had
\* or written: whatever was stored before that stays on disk.
CaptureFails(m) ==
  /\ pc = "c_item" /\ m \in batch
  /\ \E F \in SUBSET (IF seen[m] = 0 \/ <<m, seen[m]>> \in Oversize THEN {}
                      ELSE CopyFiles(m, seen[m])) : StoreFiles(F)
  /\ DropItem(m)
  /\ UNCHANGED <<mailbox, row, tooLarge, audited, purged, raced>>

CaptureStore(m) ==
  /\ pc = "c_item" /\ m \in batch /\ seen[m] # 0 /\ <<m, seen[m]>> \notin Oversize
  /\ StoreFiles(CopyFiles(m, seen[m]))
  /\ pc' = "c_mark" /\ cur' = {m}
  /\ UNCHANGED <<mailbox, row, lanes, batch, byId, seen, good, done, stale, keep,
                 tooLarge, audited, purged, raced>>

CaptureMark(m) ==
  /\ pc = "c_mark" /\ cur = {m}
  /\ archive_state[m] = "live"
  /\ mark_captured(m)
  /\ pc' = "c_attach"
  /\ UNCHANGED <<mailbox, file, lanes, batch, cur, byId, seen, good, done, stale, keep,
                 tooLarge, audited, history>>

\* The row moved underneath, or mark_captured raised.
CaptureSkip(m) ==
  /\ pc = "c_mark" /\ cur = {m}
  /\ DropItem(m)
  /\ UNCHANGED Outside

CaptureAttach(m) ==
  /\ pc = "c_attach" /\ cur = {m}
  /\ attachments' = [attachments EXCEPT ![m] = BlobsOf[m][seen[m]]]
  /\ DropItem(m)
  /\ UNCHANGED <<mailbox, archive_state, mime_sha256, captured_changekey, ripe, older,
                 file, tooLarge, audited, history>>

\* replace_attachments raised and the capture is undone ...
CaptureUndo(m) ==
  /\ pc = "c_attach" /\ cur = {m}
  /\ reset_to_live(m)
  /\ DropItem(m)
  /\ UNCHANGED <<mailbox, file, tooLarge, audited, history>>

\* ... unless the same outage makes reset_to_live raise too.
CaptureUndoFails(m) ==
  /\ pc = "c_attach" /\ cur = {m}
  /\ DropItem(m)
  /\ UNCHANGED Outside

-----------------------------------------------------------------------------
(***************************************************************************)
(* Verify.                                                                 *)
(***************************************************************************)
VerifySelect ==
  /\ captured_rows # {}
  /\ StartLane("verify", captured_rows, "v_fetch")

\* Seeded fault: an item Exchange does not return counts as a mismatch.
VerifyFetchKeepingMissing ==
  /\ pc = "v_fetch" /\ pc' = "v_eval"
  /\ seen' = [m \in Msgs |-> IF m \in batch THEN exch[m] ELSE 0]
  /\ UNCHANGED <<Outside, lanes, batch, cur, byId, good, done, stale, keep>>

\* Items Exchange does not return are counted failed and stay captured.
VerifyFetch ==
  /\ pc = "v_fetch"
  /\ seen' = [m \in Msgs |-> IF m \in batch THEN exch[m] ELSE 0]
  /\ batch' = {m \in batch : exch[m] # 0}
  /\ Loop("v_eval", {m \in batch : exch[m] # 0})
  /\ UNCHANGED <<Outside, lanes, cur, byId, good, done, stale, keep>>

\* Shared by the verifier and the last-mile check: the .eml is there and
\* hashes, every recorded blob is there with its size (it is not re-hashed).
CopyIntact(m) ==
  /\ byId[m].mime # NoFile
  /\ file[byId[m].mime] = "good"
  /\ \A b \in attachments[m] : file[b] # "absent"

SameChangekey(m) == byId[m].ck # 0 /\ seen[m] = byId[m].ck

VerifyEvaluate ==
  /\ pc = "v_eval" /\ pc' = "v_apply"
  /\ good' = {m \in batch : SameChangekey(m) /\ CopyIntact(m)}
  /\ UNCHANGED <<Outside, lanes, batch, cur, byId, seen, done, stale, keep>>

VerifyApply(m) ==
  /\ pc = "v_apply" /\ m \in batch
  /\ \/ m \in good /\ mark_verified(m)
     \/ m \notin good /\ reset_to_live(m)
  /\ batch' = batch \ {m}
  /\ Loop("v_apply", batch \ {m})
  /\ UNCHANGED <<mailbox, file, lanes, cur, byId, seen, good, done, stale, keep,
                 tooLarge, audited, history>>

\* The checks themselves raised (an unreadable file, the inventory query): the
\* verdict is `failed` and the row stays captured.
VerifyItemFails(m) ==
  /\ pc = "v_apply" /\ m \in batch
  /\ batch' = batch \ {m}
  /\ Loop("v_apply", batch \ {m})
  /\ UNCHANGED <<Outside, lanes, cur, byId, seen, good, done, stale, keep>>

-----------------------------------------------------------------------------
(***************************************************************************)
(* The orphan sweep: the keep sets are read first, then the tree is walked *)
(***************************************************************************)
\* Seeded fault: tombstones do not count as references.
ReferencedByActiveRows ==
  UNION {Held(m) : m \in InState("captured") \cup InState("verified")}

Referenced == UNION {Held(m) : m \in Msgs}

GcRead ==
  /\ Turn("gc")
  /\ lanes' = lanes \ {"gc"} /\ pc' = "g_sweep"
  /\ keep' = Referenced
  /\ UNCHANGED <<Outside, batch, cur, byId, seen, good, done, stale>>

\* Unreferenced files go, except those younger than GC_MIN_AGE_S (any subset).
GcSweep ==
  /\ pc = "g_sweep" /\ pc' = "next"
  /\ \E F \in SUBSET (Files \ keep) :
        file' = [f \in Files |-> IF f \in F THEN "absent" ELSE file[f]]
  /\ UNCHANGED <<mailbox, row, lanes, batch, cur, byId, seen, good, done, stale, keep,
                 tooLarge, audited, history>>

-----------------------------------------------------------------------------
(***************************************************************************)
(* Delete.                                                                 *)
(***************************************************************************)
DeleteSelect ==
  /\ DeleteEnabled
  /\ \E B \in Chosen(deletable_rows, MaxDelete) : StartLane("delete", B, "d_chunk")

LoopDelete(rest) == Loop("d_chunk", rest)

\* Seeded fault: what fails the disk check is demoted and deleted all the same.
DeleteCheckIgnored ==
  /\ pc = "d_chunk"
  /\ \E chunk \in Page(batch, ChunkSize) :
       /\ demote_to_captured({m \in chunk : ~CopyIntact(m)})
       /\ good' = chunk
       /\ batch' = batch \ chunk
  /\ pc' = "d_fetch"
  /\ done' = {} /\ stale' = {}
  /\ UNCHANGED <<mailbox, file, lanes, cur, byId, seen, keep, tooLarge, audited, history>>

\* One chunk: the disk check of _unusable_copies.  What fails it, or makes it
\* raise, is demoted (a demote that raises is logged) and is not deleted.
DeleteCheck ==
  /\ pc = "d_chunk"
  /\ \E chunk \in Page(batch, ChunkSize) : \E raises \in SUBSET chunk :
       LET unusable == raises \cup {m \in chunk : ~CopyIntact(m)} IN
       /\ \E D \in SUBSET unusable : demote_to_captured(D)
       /\ good' = chunk \ unusable
       /\ batch' = batch \ chunk
       /\ IF chunk = unusable THEN LoopDelete(batch \ chunk) ELSE pc' = "d_fetch"
  /\ done' = {} /\ stale' = {}
  /\ UNCHANGED <<mailbox, file, lanes, cur, byId, seen, keep, tooLarge, audited, history>>

\* One fetch for the whole chunk.
DeleteFetch ==
  /\ pc = "d_fetch" /\ pc' = "d_item"
  /\ seen' = [m \in Msgs |-> IF m \in good THEN exch[m] ELSE 0]
  /\ raced' = {m \in raced : purged[m] # 0}
  /\ UNCHANGED <<mailbox, row, file, lanes, batch, cur, byId, good, done, stale, keep,
                 tooLarge, audited, purged, late>>

\* HardDelete of an item that is there.  The server does not compare changekeys.
HardDelete(m) ==
  /\ exch[m] # 0
  /\ exch' = [exch EXCEPT ![m] = 0]
  /\ notice' = notice \cup {m}
  /\ purged' = [purged EXCEPT ![m] = exch[m]]
  /\ UNCHANGED <<vanished, late, raced>>

NextItem(m) ==
  /\ good' = good \ {m}
  /\ pc' = IF good = {m} THEN "d_requeue" ELSE "d_item"
  /\ UNCHANGED <<row, file, lanes, batch, cur, byId, seen, keep, tooLarge, audited>>

\* Seeded fault: whatever the fetch returned may be deleted.
MayDeleteAnything(m) == seen[m] # 0

MayDelete(m) == SameChangekey(m)

DeleteItem(m) ==
  /\ pc = "d_item" /\ m \in good
  /\ MayDelete(m)
  /\ HardDelete(m)
  /\ done' = done \cup {m}
  /\ NextItem(m)
  /\ UNCHANGED stale

\* The server deletes, the answer is lost: the item counts as failed.
DeleteReplyLost(m) ==
  /\ pc = "d_item" /\ m \in good
  /\ MayDelete(m)
  /\ HardDelete(m)
  /\ NextItem(m)
  /\ UNCHANGED <<done, stale>>

\* Seeded fault: a failed delete is recorded as done.
DeleteItemFailsAsDone(m) ==
  /\ pc = "d_item" /\ m \in good
  /\ seen[m] = 0 \/ MayDelete(m)
  /\ done' = done \cup {m}
  /\ NextItem(m)
  /\ UNCHANGED <<mailbox, stale, history>>

\* Not found, or item.delete() raised: a reason, no requeue.
DeleteItemFails(m) ==
  /\ pc = "d_item" /\ m \in good
  /\ seen[m] = 0 \/ MayDelete(m)
  /\ NextItem(m)
  /\ UNCHANGED <<mailbox, done, stale, history>>

DeleteItemStale(m) ==
  /\ pc = "d_item" /\ m \in good
  /\ seen[m] # 0 /\ ~MayDelete(m)
  /\ stale' = stale \cup {m}
  /\ NextItem(m)
  /\ UNCHANGED <<mailbox, done, history>>

DeleteRequeue ==
  /\ pc = "d_requeue"
  /\ demote_to_captured(stale)
  /\ IF done = {} THEN LoopDelete(batch) ELSE pc' = "d_persist"
  /\ UNCHANGED <<mailbox, file, lanes, batch, cur, byId, seen, good, done, stale, keep,
                 tooLarge, audited, history>>

\* A demote raises after some were made.  The exception leaves Deleter.run, so
\* what this chunk hard-deleted is not persisted.
DeleteRequeueFails ==
  /\ pc = "d_requeue" /\ stale # {}
  /\ \E D \in SUBSET stale : demote_to_captured(D)
  /\ pc' = "idle" /\ lanes' = {}
  /\ ClearPass
  /\ UNCHANGED <<mailbox, file, tooLarge, audited, history>>

\* mark_deleted, then one audit record per item that is now `deleted`.  A
\* record that cannot be written is dropped in silence (AuditLog.record).
DeletePersist ==
  /\ pc = "d_persist"
  /\ mark_deleted(done)
  /\ \E A \in SUBSET {m \in done : archive_state'[m] = "deleted"} :
        audited' = audited \cup A
  /\ LoopDelete(batch)
  /\ UNCHANGED <<mailbox, file, lanes, batch, cur, byId, seen, good, done, stale, keep,
                 tooLarge, history>>

\* Fewer rows than asked were marked and the read that names them raises: none
\* is audited and the loop over chunks breaks.
DeletePersistFails ==
  /\ pc = "d_persist"
  /\ \E m \in done : archive_state[m] # "verified"
  /\ mark_deleted(done)
  /\ pc' = "next"
  /\ batch' = {} /\ good' = {}
  /\ UNCHANGED <<mailbox, file, lanes, cur, byId, seen, done, stale, keep,
                 tooLarge, audited, history>>

\* The gateway call raises (in the fetch, or zip(strict) on a short answer
\* after some items went), or mark_deleted does: the loop over chunks breaks.
DeleteBreak ==
  /\ pc \in {"d_fetch", "d_item", "d_persist"}
  /\ pc' = "next"
  /\ batch' = {} /\ good' = {}
  /\ UNCHANGED <<Outside, lanes, cur, byId, seen, done, stale, keep>>

-----------------------------------------------------------------------------
(***************************************************************************)
(* Everyone else.                                                          *)
(***************************************************************************)
UserEdit(m) ==
  /\ exch[m] \in 1 .. (MaxVersion - 1)
  /\ exch' = [exch EXCEPT ![m] = @ + 1]
  /\ raced' = IF pc = "d_item" /\ m \in good THEN raced \cup {m} ELSE raced
  /\ UNCHANGED <<notice, vanished, row, file, pass, tooLarge, audited, purged, late>>

\* The owner, or a delete/move tool, removes the item.
UserDelete(m) ==
  /\ exch[m] # 0
  /\ exch' = [exch EXCEPT ![m] = 0]
  /\ notice' = notice \cup {m}
  /\ UNCHANGED <<vanished, row, file, pass, tooLarge, audited, history>>

\* The item's folder is removed; its sync token goes with it, unread.
FolderVanishes(m) ==
  /\ m \notin vanished
  /\ exch' = [exch EXCEPT ![m] = 0]
  /\ notice' = notice \ {m}
  /\ vanished' = vanished \cup {m}
  /\ UNCHANGED <<row, file, pass, tooLarge, audited, history>>

\* The hierarchy pass clears the live rows of a folder that is gone.
SyncDropsFolder(m) ==
  /\ m \in vanished /\ archive_state[m] = "live"
  /\ archive_state' = [archive_state EXCEPT ![m] = "none"]
  /\ UNCHANGED <<mailbox, mime_sha256, captured_changekey, attachments, ripe, older,
                 file, pass, tooLarge, audited, history>>

\* An item, or a buffered page that still lists it, reaches the mirror.
SyncUpsert(m) ==
  /\ exch[m] # 0 \/ m \in notice
  /\ upsert_messages(m)
  /\ UNCHANGED <<mailbox, file, pass, tooLarge, audited, history>>

SyncDelete(m) ==
  /\ m \in notice
  /\ notice' = notice \ {m}
  /\ apply_server_deletes(m)
  /\ UNCHANGED <<exch, vanished, file, pass, tooLarge, audited, history>>

\* A delete tool tombstones the row itself; the delta will report it again.
WriteThrough(m) ==
  /\ m \in notice
  /\ apply_server_deletes(m)
  /\ UNCHANGED <<mailbox, file, pass, tooLarge, audited, history>>

GracePasses(m) ==
  /\ archive_state[m] = "verified" /\ m \notin ripe
  /\ ripe' = ripe \cup {m}
  /\ UNCHANGED <<mailbox, archive_state, mime_sha256, captured_changekey, attachments, older,
                 file, pass, tooLarge, audited, history>>

\* Files a copy that was vouched for consists of: of a purged message, or of
\* one that passed the last-mile check of the chunk in flight.
Vouched ==
  UNION {Held(m) : m \in {k \in Msgs : \/ purged[k] # 0
                                       \/ pc \in {"d_fetch", "d_item"} /\ k \in good}}

DiskDecay(f) ==
  /\ f \in Fragile
  /\ \/ file[f] = "good" /\ file' = [file EXCEPT ![f] = "rotten"]
     \/ file[f] # "absent" /\ file' = [file EXCEPT ![f] = "absent"]
  /\ late' = IF f \in Vouched THEN late \cup {f} ELSE late
  /\ UNCHANGED <<mailbox, row, pass, tooLarge, audited, purged, raced>>

-----------------------------------------------------------------------------
CaptureStep(m) ==
  \/ CaptureTooLarge(m) \/ CaptureFails(m) \/ CaptureStore(m) \/ CaptureMark(m)
  \/ CaptureSkip(m) \/ CaptureAttach(m) \/ CaptureUndo(m) \/ CaptureUndoFails(m)

VerifyStep(m) == VerifyApply(m) \/ VerifyItemFails(m)

DeleteStep(m) ==
  \/ DeleteItem(m) \/ DeleteReplyLost(m) \/ DeleteItemFails(m) \/ DeleteItemStale(m)

Environment(m) ==
  \/ UserEdit(m) \/ UserDelete(m) \/ FolderVanishes(m) \/ SyncDropsFolder(m)
  \/ SyncUpsert(m) \/ SyncDelete(m) \/ WriteThrough(m) \/ GracePasses(m)

Runner ==
  \/ \E kind \in DOMAIN LanesOf : BeginRun(kind)
  \/ \E l \in Lanes : SkipLane(l)
  \/ FinishRun \/ AbortRun \/ Crash
  \/ CaptureSelect \/ CaptureFetch
  \/ VerifySelect \/ VerifyFetch \/ VerifyEvaluate
  \/ GcRead \/ GcSweep
  \/ DeleteSelect \/ DeleteCheck \/ DeleteFetch
  \/ DeleteRequeue \/ DeleteRequeueFails \/ DeletePersist \/ DeletePersistFails
  \/ DeleteBreak

Next ==
  \/ Runner
  \/ \E m \in Msgs : CaptureStep(m) \/ VerifyStep(m) \/ DeleteStep(m) \/ Environment(m)
  \/ \E f \in Files : DiskDecay(f)

Spec == Init /\ [][Next]_vars

-----------------------------------------------------------------------------
(***************************************************************************)
(* Properties.                                                             *)
(***************************************************************************)

\* No mail is lost: an item the deleter removed from Exchange still has its
\* row, and the .eml and the inventoried blobs the row names are on disk,
\* unless the disk lost them after the last-mile check had vouched for them.
\* (delete.py _unusable_copies, gc.py, apply_server_deletes.)
NoLoss ==
  \A m \in Msgs : purged[m] # 0 =>
    /\ archive_state[m] \in Archived
    /\ mime_sha256[m] # NoFile
    /\ file[mime_sha256[m]] = "good" \/ mime_sha256[m] \in late
    /\ \A b \in attachments[m] : file[b] # "absent" \/ b \in late

\* The copy that is kept is the copy of the version that was destroyed, except
\* for an edit that landed between the chunk's fetch and the item's delete.
\* (delete.py _delete_batch: the changekey comparison.)
CopyIsOfPurgedVersion ==
  \A m \in Msgs : purged[m] # 0 =>
    mime_sha256[m] = MimeOf[m][purged[m]] \/ m \in raced

\* The inventory of a row is that of its capture or empty, never that of an
\* earlier capture; a row without a capture has none.
\* (store.py reset_to_live, replace_attachments.)
InventoryNotStale ==
  \A m \in Msgs :
    attachments[m] # {} =>
      /\ archive_state[m] \in Archived
      /\ attachments[m] = BlobsOf[m][captured_changekey[m]]

\* An archive_delete audit record is true: the deleter did remove that item
\* and its row says so.  (delete.py _persist_batch.)
AuditIsTrue ==
  \A m \in audited : purged[m] # 0 /\ archive_state[m] = "deleted"

\* The deleter removes an item only while its row is verified and its grace
\* period is over, whatever sync and the disk check did since the selection.
PurgeOnlyVerified ==
  [][\A m \in Msgs : purged'[m] # purged[m] =>
        archive_state[m] = "verified" /\ m \in ripe]_vars

\* A tombstone is final and keeps its copy, whoever raced to write the row.
\* (the WHERE archive_state guards of cache/store.py.)
TombstoneIsFinal ==
  [][\A m \in Msgs : archive_state[m] = "deleted" =>
        archive_state'[m] = "deleted" /\ mime_sha256'[m] = mime_sha256[m]]_vars

\* The pipeline implements the hand-over of custody: a changekey on the row is
\* a copy held, and none is forgotten once the deleter has removed its item.
C == INSTANCE Custody WITH inbox <- exch, kept <- captured_changekey

CustodyKept == C!Spec

-----------------------------------------------------------------------------
(***************************************************************************)
(* Liveness.  Both loops of the daemon run for ever (SyncEngine._loop,     *)
(* ArchiveRunner._loop), so a step of either that stays possible is taken; *)
(* outages and restarts are assumed to stop at some point.                 *)
(***************************************************************************)
\* A pass that ends before its last lane, or a check that could not be made.
CutShort ==
  \/ /\ pc # "idle" /\ pc' = "idle"
     /\ ~(pc = "next" /\ lanes = {})
  \/ \E m \in Msgs : VerifyItemFails(m)
  \/ /\ pc = "d_chunk"
     /\ \E m \in batch \ good' : m \notin batch' /\ CopyIntact(m)

PassGoesOn ==
  \/ BeginRun("all") \/ \E l \in Lanes : SkipLane(l)
  \/ FinishRun
  \/ CaptureSelect \/ CaptureFetch \/ \E m \in Msgs : CaptureStep(m)
  \/ VerifySelect \/ VerifyFetch \/ VerifyEvaluate \/ \E m \in Msgs : VerifyApply(m)
  \/ GcRead \/ GcSweep
  \/ DeleteSelect \/ DeleteCheck \/ DeleteFetch \/ \E m \in Msgs : DeleteStep(m)
  \/ DeleteRequeue \/ DeletePersist

FairSpec ==
  /\ Spec
  /\ \A m \in Msgs : WF_vars(SyncDelete(m))
  /\ WF_vars(PassGoesOn)
  /\ SF_vars(BeginRun("all"))
  /\ <>[][~CutShort]_vars

\* The deletion of every item the deleter removed is eventually on record as a
\* tombstone, whatever failed between the two, unless its folder went first.
\* (delete.py's persist step, healed by the sync delta.)
PurgeIsRecorded ==
  \A m \in Msgs : purged[m] # 0 ~> archive_state[m] = "deleted" \/ m \in vanished

\* Rows at the head of the verifier's queue that nothing will ever decide:
\* their folder went, Exchange does not return them and no delta names them.
Stuck(m) == {k \in older[m] \cap vanished : archive_state[k] = "captured"}

\* A capture does not stay undecided: the verifier promotes or resets it, or
\* sync turns it into a tombstone; unless its folder went, or as many older
\* captures whose folder went as the verifier takes at a time hold the page
\* (store.py:517-521: the oldest first, and what failed stays the oldest).
CaptureIsDecided ==
  \A m \in Msgs :
    archive_state[m] = "captured" ~> \/ archive_state[m] # "captured"
                                     \/ m \in vanished
                                     \/ Cardinality(Stuck(m)) >= CaptureLimit

-----------------------------------------------------------------------------
(***************************************************************************)
(* What the documentation says and the code does not do.                   *)
(***************************************************************************)

\* capture.py:165-167 and archive/__init__.py:3-5: a half-finished capture is
\* retried whole, so a verified row has the inventory of its capture.
VerifiedHasInventory ==
  \A m \in Msgs : archive_state[m] = "verified" =>
    attachments[m] = BlobsOf[m][captured_changekey[m]]

=============================================================================
