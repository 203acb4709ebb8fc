------------------------------ MODULE AuditLog ------------------------------
(***************************************************************************)
(* The audit chain (audit.py) and the script that verifies it              *)
(* (scripts/verify_audit_chain.py).  A record advances the head in memory, *)
(* appends its line and rewrites chain.state, one after the other under    *)
(* one lock; any of the three may be the last thing the process does.      *)
(*                                                                         *)
(* A digest stands for everything hashed so far: it is the sequence of the *)
(* records it covers, so two digests agree only if the records do.         *)
(***************************************************************************)
EXTENDS Naturals, Sequences, SequencesExt

CONSTANTS MaxRecords,   \* bound: tool calls recorded
          MaxCrashes,   \* bound: restarts
          MaxFailures   \* bound: failed or torn writes

ASSUME AuditAssumption == {MaxRecords, MaxCrashes, MaxFailures} \subseteq Nat

Genesis == << >>

(* A line that is not JSON, before and after something ended it.           *)
Torn == [seq |-> 0, rec |-> 0, prev |-> Genesis, h |-> Genesis]
Glued == [Torn EXCEPT !.rec = 1]
Unreadable(l) == l.seq = 0

VARIABLES
    head,    \* _prev, _seq
    pending, \* the record in the critical section: its step, its line
    lines,   \* the audit-*.jsonl files, in order
    state,   \* chain.state: there, readable, prev, seq
    ahist    \* history: records made, crashes, failures, mid (a crash inside
             \* the section), erased lines, and whether a lost line was
             \* followed by a record of the same run

auditVars == <<head, pending, lines, state, ahist>>

Free == [at |-> "idle", line |-> Torn]

AuditInit ==
    /\ head = [prev |-> Genesis, seq |-> 0]
    /\ pending = Free
    /\ lines = << >>
    /\ state = [there |-> FALSE, ok |-> FALSE, prev |-> Genesis, seq |-> 0]
    /\ ahist = [made |-> 0, crashes |-> 0, failures |-> 0, mid |-> FALSE,
                erased |-> FALSE, lost |-> FALSE, after |-> FALSE]

-----------------------------------------------------------------------------
(* record(): sequence number, digest, head.                                *)
Record ==
    /\ pending.at = "idle" /\ ahist.made < MaxRecords
    /\ LET r == ahist.made + 1
           h == Append(head.prev, r)
       IN /\ pending' = [at |-> "append",
                         line |-> [seq |-> head.seq + 1, rec |-> r, prev |-> head.prev, h |-> h]]
          /\ head' = [prev |-> h, seq |-> head.seq + 1]
    /\ ahist' = [ahist EXCEPT !.made = @ + 1]
    /\ UNCHANGED <<lines, state>>

(* A line without its newline swallows the next one, newline and all.      *)
WithLine(l) == IF lines = << >> \/ Last(lines) # Torn THEN Append(lines, l)
               ELSE IF l = Torn THEN lines
               ELSE Append(Front(lines), Glued)

AppendLine ==
    /\ pending.at = "append"
    /\ lines' = WithLine(pending.line)
    /\ pending' = [pending EXCEPT !.at = "save"]
    /\ ahist' = [ahist EXCEPT !.after = @ \/ ahist.lost]
    /\ UNCHANGED <<head, state>>

SaveStateUnsynced ==
    /\ pending.at = "save"
    /\ state' = [there |-> TRUE, ok |-> TRUE, prev |-> pending.line.prev, seq |-> head.seq]
    /\ pending' = Free
    /\ UNCHANGED <<head, lines, ahist>>

SaveState ==
    /\ pending.at = "save"
    /\ state' = [there |-> TRUE, ok |-> TRUE, prev |-> head.prev, seq |-> head.seq]
    /\ pending' = Free
    /\ UNCHANGED <<head, lines, ahist>>

(* The disk refuses: record() swallows the error, and what was written -   *)
(* nothing, or part of a line - stays.                                     *)
AppendFails(torn) ==
    /\ pending.at = "append" /\ ahist.failures < MaxFailures
    /\ lines' = IF torn THEN WithLine(Torn) ELSE lines
    /\ pending' = Free
    /\ ahist' = [ahist EXCEPT !.failures = @ + 1, !.lost = TRUE]
    /\ UNCHANGED <<head, state>>

SaveFails ==
    /\ pending.at = "save" /\ ahist.failures < MaxFailures
    /\ state' = [state EXCEPT !.there = TRUE, !.ok = FALSE]
    /\ pending' = Free
    /\ ahist' = [ahist EXCEPT !.failures = @ + 1]
    /\ UNCHANGED <<head, lines>>

(* The process stops and starts: the head is what chain.state says, or     *)
(* GENESIS where it says nothing readable.                                 *)
Restart ==
    /\ ahist.crashes < MaxCrashes
    /\ head' = IF state.ok THEN [prev |-> state.prev, seq |-> state.seq]
               ELSE [prev |-> Genesis, seq |-> 0]
    /\ pending' = Free
    /\ ahist' = [ahist EXCEPT !.crashes = @ + 1, !.lost = FALSE,
                              !.mid = @ \/ pending.at # "idle"]
    /\ UNCHANGED <<lines, state>>

(* Someone takes a line out of a file.                                     *)
Erase(i) ==
    /\ pending.at = "idle" /\ ~ahist.erased
    /\ lines' = RemoveAt(lines, i)
    /\ ahist' = [ahist EXCEPT !.erased = TRUE]
    /\ UNCHANGED <<head, pending, state>>

AuditNext ==
    \/ Record \/ AppendLine \/ SaveState \/ SaveFails \/ Restart
    \/ \E torn \in BOOLEAN : AppendFails(torn)
    \/ \E i \in DOMAIN lines : Erase(i)

AuditSpec == AuditInit /\ [][AuditNext]_auditVars

-----------------------------------------------------------------------------
(* verify(): the running prev is the recorded hash of the last readable    *)
(* line; a record of sequence number 1 starts a chain of its own.          *)
Readable == {i \in DOMAIN lines : ~Unreadable(lines[i])}
Before(i) == {j \in Readable : j < i}

Anchor(i) == IF lines[i].seq = 1 \/ Before(i) = {} THEN Genesis ELSE lines[Max(Before(i))].h

LineBreaks ==
    \E i \in DOMAIN lines : \/ Unreadable(lines[i])
                            \/ lines[i].h # Append(Anchor(i), lines[i].rec)
                            \/ lines[i].prev # Anchor(i)

HeadBreaks ==
    /\ state.there /\ Readable # {}
    /\ \/ ~state.ok
       \/ state.prev # lines[Max(Readable)].h
       \/ state.seq # lines[Max(Readable)].seq

Breaks == LineBreaks \/ HeadBreaks

-----------------------------------------------------------------------------
Nums == 0..MaxRecords
ChainLine == [seq : Nums, rec : Nums, prev : Seq(Nums), h : Seq(Nums)]

AuditTypeOK ==
    /\ head \in [prev : Seq(Nums), seq : Nums]
    /\ pending \in [at : {"idle", "append", "save"}, line : ChainLine]
    /\ lines \in Seq(ChainLine) /\ Len(lines) <= MaxRecords
    /\ state \in [there : BOOLEAN, ok : BOOLEAN, prev : Seq(Nums), seq : Nums]
    /\ ahist \in [made : Nums, crashes : 0..MaxCrashes, failures : 0..MaxFailures,
                  mid : BOOLEAN, erased : BOOLEAN, lost : BOOLEAN, after : BOOLEAN]

(* Between records, with no write refused and no crash inside one, the     *)
(* script reports a break exactly when a line was taken out: restarts do   *)
(* not break the chain and no erasure passes, that of the last line        *)
(* included - as long as one line is left for it to look at.               *)
(* A line lost to a failed write shows as soon as the same process has     *)
(* recorded something after it.                                            *)
VerifyIsExact ==
    pending.at = "idle" =>
        /\ ahist.failures = 0 /\ ~ahist.mid /\ lines # << >> => (Breaks <=> ahist.erased)
        /\ ahist.after /\ ~ahist.erased => Breaks
=============================================================================
