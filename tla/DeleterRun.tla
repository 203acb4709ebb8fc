----------------------------- MODULE DeleterRun -----------------------------
(***************************************************************************)
(* The accounting of one Deleter.run (ewsmcp/archive/delete.py).           *)
(*                                                                         *)
(* MailArchive says which mail the deleter removes; this module says what  *)
(* the run tells the operator about it.  Rows are counted, not named: a    *)
(* chunk splits into copies that failed the disk check, items Exchange     *)
(* deleted and items that got a reason, and every call that leaves the     *)
(* event loop may raise.  AuditLog.record swallows its own failures, so    *)
(* the counts of records are counts of calls to it.                        *)
(***************************************************************************)
EXTENDS Naturals

CONSTANTS
  BATCH_SIZE,
  MaxRows       \* ARCHIVE_MAX_DELETE_PER_RUN, the LIMIT of the selection

ASSUME SizesAssumption ==
  /\ BATCH_SIZE \in Nat \ {0}
  /\ MaxRows \in Nat

VARIABLES
  pc,
  eligible,
  \* The loop over chunks.
  start, processed_upto,
  chunk,              \* rows of this chunk
  unusable,           \* of these, failed the disk check
  done, reasons,      \* of the rest, deleted / given a reason
  stale,              \* reasons that start with STALE_REASON
  \* The result.
  deleted, failed, remaining,
  unrecorded,         \* length of deleted_unrecorded
  \* What really happened.
  acked,              \* item.delete() calls that succeeded
  recorded,           \* rows marked deleted and audited
  skips,              \* archive_delete_skipped records
  malformed           \* a fetch answered with more or fewer items than asked

chunkVars  == <<chunk, unusable, done, reasons, stale>>
resultVars == <<deleted, failed, remaining, unrecorded>>
worldVars  == <<acked, recorded, skips, malformed>>
vars == <<pc, eligible, start, processed_upto, chunkVars, resultVars, worldVars>>

PCs == {"select", "loop", "skips_only", "call", "skips", "requeue", "persist",
        "exit_skips", "exit", "returned", "raised"}

TypeOK ==
  /\ pc \in PCs
  /\ eligible \in 0 .. MaxRows
  /\ start \in Nat /\ processed_upto \in Nat
  /\ chunk \in Nat /\ unusable \in Nat /\ done \in Nat /\ reasons \in Nat /\ stale \in Nat
  /\ deleted \in Nat /\ failed \in Nat /\ remaining \in Nat /\ unrecorded \in Nat
  /\ acked \in Nat /\ recorded \in Nat /\ skips \in Nat
  /\ malformed \in BOOLEAN

Init ==
  /\ pc = "select" /\ eligible = 0 /\ start = 0 /\ processed_upto = 0
  /\ chunk = 0 /\ unusable = 0 /\ done = 0 /\ reasons = 0 /\ stale = 0
  /\ deleted = 0 /\ failed = 0 /\ remaining = 0 /\ unrecorded = 0
  /\ acked = 0 /\ recorded = 0 /\ skips = 0 /\ malformed = FALSE

-----------------------------------------------------------------------------
\* Blocked, held by the backup rail, a dry run, or nothing to do.
ReturnEarly ==
  /\ pc = "select" /\ pc' = "returned"
  /\ eligible' \in 0 .. MaxRows
  /\ remaining' = eligible'
  /\ UNCHANGED <<start, processed_upto, chunkVars, deleted, failed, unrecorded, worldVars>>

Select ==
  /\ pc = "select" /\ pc' = "loop"
  /\ eligible' \in 1 .. MaxRows
  /\ UNCHANGED <<start, processed_upto, chunkVars, resultVars, worldVars>>

\* A database call outside the try blocks raises, and the result is lost: the
\* selection, or _requeue after the chunk was deleted.
Raise ==
  /\ pc = "select" \/ (pc = "requeue" /\ stale > 0)
  /\ pc' = "raised"
  /\ UNCHANGED <<eligible, start, processed_upto, chunkVars, resultVars, worldVars>>

\* _unusable_copies over the next chunk.
CheckDisk ==
  /\ pc = "loop" /\ start < eligible
  /\ chunk' = IF eligible - start < BATCH_SIZE THEN eligible - start ELSE BATCH_SIZE
  /\ unusable' \in 0 .. chunk'
  /\ failed' = failed + unusable'
  /\ done' = 0 /\ reasons' = 0 /\ stale' = 0
  /\ pc' = IF unusable' = chunk' THEN "skips_only" ELSE "call"
  /\ UNCHANGED <<eligible, start, processed_upto, deleted, remaining, unrecorded, worldVars>>

NextChunk ==
  /\ start' = start + BATCH_SIZE
  /\ pc' = "loop"

\* Nothing of the chunk is left to delete.
SkipChunk ==
  /\ pc = "skips_only"
  /\ skips' = skips + unusable
  /\ processed_upto' = start + chunk
  /\ NextChunk
  /\ UNCHANGED <<eligible, chunkVars, resultVars, acked, recorded, malformed>>

\* _delete_batch returns: every item has a verdict of its own.
CallReturns ==
  /\ pc = "call" /\ pc' = "skips"
  /\ \E d \in 0 .. (chunk - unusable) :
       /\ done' = d
       /\ acked' = acked + d
       /\ reasons' = chunk - unusable - d
       /\ stale' \in 0 .. (chunk - unusable - d)
       /\ failed' = failed + (chunk - unusable - d)
  /\ processed_upto' = start + chunk
  /\ UNCHANGED <<eligible, start, chunk, unusable, deleted, remaining, unrecorded,
                 recorded, skips, malformed>>

\* Seeded fault: the whole chunk counts as processed when the call raises.
CallRaisesCountingChunk ==
  /\ pc = "call" /\ pc' = "exit_skips"
  /\ processed_upto' = start + chunk
  /\ UNCHANGED <<eligible, start, chunkVars, resultVars, worldVars>>

\* The fetch raises: the run stops, the disk failures of this chunk are counted.
CallRaises ==
  /\ pc = "call" /\ pc' = "exit_skips"
  /\ processed_upto' = start + unusable
  /\ UNCHANGED <<eligible, start, chunkVars, resultVars, worldVars>>

\* zip(strict=True) raises at the end of a short or long answer, after the items
\* before it were deleted: _delete_batch takes their ids with it.
CallMalformed ==
  /\ pc = "call" /\ pc' = "exit_skips"
  /\ \E d \in 0 .. (chunk - unusable) : acked' = acked + d
  /\ processed_upto' = start + unusable
  /\ malformed' = TRUE
  /\ UNCHANGED <<eligible, start, chunkVars, resultVars, recorded, skips>>

ExitSkips ==
  /\ pc = "exit_skips" /\ pc' = "exit"
  /\ skips' = skips + unusable
  /\ UNCHANGED <<eligible, start, processed_upto, chunkVars, resultVars, acked, recorded, malformed>>

\* Seeded fault: only what Exchange refused is audited.
PersistReasonsOnly ==
  /\ pc = "skips" /\ pc' = "requeue"
  /\ skips' = skips + reasons
  /\ UNCHANGED <<eligible, start, processed_upto, chunkVars, resultVars, acked, recorded, malformed>>

PersistSkips ==
  /\ pc = "skips" /\ pc' = "requeue"
  /\ skips' = skips + unusable + reasons
  /\ UNCHANGED <<eligible, start, processed_upto, chunkVars, resultVars, acked, recorded, malformed>>

\* _requeue of the stale ones; what was deleted counts from here on.
Requeue ==
  /\ pc = "requeue"
  /\ IF done = 0 THEN NextChunk ELSE pc' = "persist" /\ UNCHANGED start
  /\ deleted' = deleted + done
  /\ UNCHANGED <<eligible, processed_upto, chunkVars, failed, remaining, unrecorded, worldVars>>

\* Seeded fault: a rowcount shortfall is not reported.
PersistIgnoringShortfall ==
  /\ pc = "persist"
  /\ \E unmarked \in 0 .. done : recorded' = recorded + (done - unmarked)
  /\ NextChunk
  /\ UNCHANGED <<eligible, processed_upto, chunkVars, resultVars, acked, skips, malformed>>

\* _persist_batch: rows that changed state meanwhile are reported as unmarked.
Persist ==
  /\ pc = "persist"
  /\ \E unmarked \in 0 .. done :
       /\ recorded' = recorded + (done - unmarked)
       /\ unrecorded' = unrecorded + unmarked
  /\ NextChunk
  /\ UNCHANGED <<eligible, processed_upto, chunkVars, deleted, failed, remaining, acked, skips,
                 malformed>>

PersistRaises ==
  /\ pc = "persist" /\ pc' = "exit"
  /\ unrecorded' = unrecorded + done
  /\ UNCHANGED <<eligible, start, processed_upto, chunkVars, deleted, failed, remaining,
                 worldVars>>

\* Seeded fault: the loop variable, which overshoots, in place of the count.
ReturnFromStart ==
  /\ \/ pc = "exit"
     \/ pc = "loop" /\ start >= eligible
  /\ pc' = "returned"
  /\ remaining' = eligible - start
  /\ UNCHANGED <<eligible, start, processed_upto, chunkVars, deleted, failed, unrecorded,
                 worldVars>>

\* The loop is exhausted or broken out of.
Return ==
  /\ \/ pc = "exit"
     \/ pc = "loop" /\ start >= eligible
  /\ pc' = "returned"
  /\ remaining' = eligible - processed_upto
  /\ UNCHANGED <<eligible, start, processed_upto, chunkVars, deleted, failed, unrecorded,
                 worldVars>>

Next ==
  \/ ReturnEarly \/ Select \/ Raise
  \/ CheckDisk \/ SkipChunk
  \/ CallReturns \/ CallRaises \/ CallMalformed \/ ExitSkips
  \/ PersistSkips \/ Requeue \/ Persist \/ PersistRaises
  \/ Return

Spec == Init /\ [][Next]_vars

-----------------------------------------------------------------------------
(***************************************************************************)
(* Properties.                                                             *)
(***************************************************************************)

\* The result partitions the eligible rows on every way out of the loop,
\* early stops included.  (delete.py:68-70.)
ResultPartitions ==
  pc = "returned" => deleted + failed + remaining = eligible

\* The result tells of every item Exchange deleted: it is on record, or counted
\* in deleted_unrecorded, as long as Exchange answers the fetches in full.
\* (delete.py:50-66.)
ResultTellsAll ==
  pc = "returned" /\ ~malformed => deleted = acked /\ acked = recorded + unrecorded

\* On every return the audit chain has one skip record per failed row.
\* (delete.py:259-264.)
SkipsAreAudited ==
  pc = "returned" => skips = failed

-----------------------------------------------------------------------------
(***************************************************************************)
(* What the documentation says and the code does not do.                   *)
(***************************************************************************)

\* delete.py:54-56: ids of mail that is gone with nothing recorded about it "are
\* never silently dropped": however the run ends, they are on record or reported
\* (leaving malformed answers aside, which drop them too).
NeverSilentlyDropped ==
  pc \in {"returned", "raised"} /\ ~malformed => acked = recorded + unrecorded

=============================================================================
