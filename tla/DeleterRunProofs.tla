-------------------------- MODULE DeleterRunProofs --------------------------
(***************************************************************************)
(* The accounting of a deleter run, proved for every batch size and every  *)
(* number of rows.                                                         *)
(***************************************************************************)
EXTENDS DeleterRun, TLAPS

\* Every row up to k has its verdict in the result, and what is known of the
\* deleted ones adds up when d deletes and s skips are still to be written.
Balanced(k, d, s) ==
  /\ deleted + failed = k
  /\ recorded + unrecorded + d = deleted
  /\ skips + s = failed

InChunk ==
  /\ start < eligible
  /\ chunk = IF eligible - start < BATCH_SIZE THEN eligible - start ELSE BATCH_SIZE
  /\ unusable <= chunk

\* What holds at each point of the run.
Ledger ==
  /\ pc = "select" =>
       processed_upto = 0 /\ start = 0 /\ acked = 0 /\ Balanced(0, 0, 0)
  /\ pc = "loop" =>
       /\ processed_upto = IF start < eligible THEN start ELSE eligible
       /\ (~malformed => acked = deleted) /\ Balanced(processed_upto, 0, 0)
  /\ pc = "skips_only" =>
       /\ InChunk /\ unusable = chunk
       /\ (~malformed => acked = deleted) /\ Balanced(start + unusable, 0, unusable)
  /\ pc = "call" =>
       /\ InChunk
       /\ (~malformed => acked = deleted) /\ Balanced(start + unusable, 0, unusable)
  /\ pc = "exit_skips" =>
       /\ InChunk /\ processed_upto = start + unusable
       /\ (~malformed => acked = deleted) /\ Balanced(start + unusable, 0, unusable)
  /\ pc \in {"skips", "requeue"} =>
       /\ InChunk /\ processed_upto = start + chunk
       /\ done + reasons + unusable = chunk
       /\ ~malformed => acked = deleted + done
       /\ deleted + done + failed = start + chunk
       /\ recorded + unrecorded = deleted
       /\ skips + (IF pc = "skips" THEN unusable + reasons ELSE 0) = failed
  /\ pc = "persist" =>
       /\ InChunk /\ processed_upto = start + chunk
       /\ (~malformed => acked = deleted) /\ Balanced(start + chunk, done, 0)
  /\ pc = "exit" =>
       /\ processed_upto <= eligible
       /\ (~malformed => acked = deleted) /\ Balanced(processed_upto, 0, 0)
  /\ pc = "returned" =>
       /\ deleted + failed + remaining = eligible
       /\ ~malformed => acked = deleted
       /\ recorded + unrecorded = deleted /\ skips = failed

Inv == TypeOK /\ Ledger

(* Every step keeps the ledger balanced. *)
LEMMA InvInductive == Inv /\ [Next]_vars => Inv'
<1> SUFFICES ASSUME TypeOK, Ledger, [Next]_vars PROVE TypeOK' /\ Ledger'
  BY DEF Inv
<1> USE SizesAssumption DEF TypeOK, PCs, Ledger, Balanced, InChunk,
        chunkVars, resultVars, worldVars
<1>1. CASE ReturnEarly
  <2>1. PICK e \in 0 .. MaxRows : eligible' = e /\ remaining' = e
    BY <1>1 DEF ReturnEarly
  <2> QED
    BY <1>1, <2>1 DEF ReturnEarly
<1>2. CASE Select
  BY <1>2 DEF Select
<1>3. CASE Raise
  BY <1>3 DEF Raise
<1>4. CASE CheckDisk
  <2> DEFINE c == IF eligible - start < BATCH_SIZE THEN eligible - start ELSE BATCH_SIZE
  <2>1. chunk' = c /\ c \in Nat
    BY <1>4 DEF CheckDisk
  <2>2. PICK u \in 0 .. c : unusable' = u /\ failed' = failed + u
    BY <1>4 DEF CheckDisk
  <2> QED
    BY <1>4, <2>1, <2>2 DEF CheckDisk
<1>5. CASE SkipChunk
  BY <1>5 DEF SkipChunk, NextChunk
<1>6. CASE CallReturns
  BY <1>6 DEF CallReturns
<1>7. CASE CallRaises
  BY <1>7 DEF CallRaises
<1>8. CASE CallMalformed
  BY <1>8 DEF CallMalformed
<1>9. CASE ExitSkips
  BY <1>9 DEF ExitSkips
<1>10. CASE PersistSkips
  BY <1>10 DEF PersistSkips
<1>11. CASE Requeue
  BY <1>11 DEF Requeue, NextChunk
<1>12. CASE Persist
  BY <1>12 DEF Persist, NextChunk
<1>13. CASE PersistRaises
  BY <1>13 DEF PersistRaises
<1>14. CASE Return
  BY <1>14 DEF Return
<1>15. CASE UNCHANGED vars
  BY <1>15 DEF vars
<1> QED
  BY <1>1, <1>2, <1>3, <1>4, <1>5, <1>6, <1>7, <1>8, <1>9, <1>10, <1>11, <1>12, <1>13,
     <1>14, <1>15 DEF Next

(* The ledger is an invariant of the run. *)
THEOREM LedgerHolds == Spec => []Inv
<1>1. Init => Inv
  <2> SUFFICES ASSUME Init PROVE TypeOK /\ Ledger
    BY DEF Inv
  <2>0. malformed \in BOOLEAN
    BY Zenon DEF Init
  <2>1. TypeOK
    BY <2>0, SizesAssumption DEF Init, TypeOK, PCs
  <2>2. Ledger
    BY SizesAssumption DEF Init, Ledger, Balanced, InChunk
  <2> QED
    BY <2>1, <2>2
<1> QED
  BY <1>1, InvInductive, PTL DEF Spec

(* Every reachable state of the run is well typed: no counter ever leaves    *)
(* the naturals, the selection never exceeds the cap.                        *)
THEOREM RunTyped == Spec => []TypeOK
<1>1. Inv => TypeOK
  BY DEF Inv
<1> QED
  BY <1>1, LedgerHolds, PTL

(* deleted + failed + remaining = eligible on every return, for every batch  *)
(* size and every number of rows.                                            *)
THEOREM Partitions == Spec => []ResultPartitions
<1>1. Inv => ResultPartitions
  BY DEF Inv, TypeOK, Ledger, ResultPartitions
<1> QED
  BY <1>1, LedgerHolds, PTL

(* On every return, what Exchange deleted is on record or reported,          *)
(* unless an answer to a fetch was malformed.                                *)
THEOREM TellsAll == Spec => []ResultTellsAll
<1>1. Inv => ResultTellsAll
  BY DEF Inv, TypeOK, Ledger, ResultTellsAll
<1> QED
  BY <1>1, LedgerHolds, PTL

(* On every return, the audit chain has a skip record for every failed row.  *)
THEOREM SkipsAudited == Spec => []SkipsAreAudited
<1>1. Inv => SkipsAreAudited
  BY DEF Inv, TypeOK, Ledger, SkipsAreAudited
<1> QED
  BY <1>1, LedgerHolds, PTL

=============================================================================
