------------------------------ MODULE Custody ------------------------------
(***************************************************************************)
(* What the archive promises, without its machinery: custody of a message  *)
(* is handed over, never dropped.  The archive may take a copy of some     *)
(* version, may throw the copy away while it has not itself removed the    *)
(* original, and may remove the original only while it holds a copy.       *)
(* After that the copy is the only one and is never given up or replaced.  *)
(* (The three rails and the state column of ewsmcp/archive.)               *)
(***************************************************************************)
EXTENDS Naturals

CONSTANTS Msgs, MaxVersion

VARIABLES inbox,   \* version of each item in the mailbox, 0 when it is gone
          kept,    \* version the archive holds a copy of, 0 when it holds none
          purged   \* version the archive removed from the mailbox, 0 if it did not

vars == <<inbox, kept, purged>>

Versions == 1 .. MaxVersion

Init ==
  /\ inbox = [m \in Msgs |-> 1]
  /\ kept = [m \in Msgs |-> 0]
  /\ purged = [m \in Msgs |-> 0]

\* The mailbox's owner edits or removes an item.
Owner(m) ==
  /\ inbox[m] # 0
  /\ \E v \in {0} \cup {k \in Versions : k > inbox[m]} :
        inbox' = [inbox EXCEPT ![m] = v]
  /\ UNCHANGED <<kept, purged>>

Keep(m) ==
  /\ kept[m] = 0
  /\ \E v \in Versions : kept' = [kept EXCEPT ![m] = v]
  /\ UNCHANGED <<inbox, purged>>

Forget(m) ==
  /\ kept[m] # 0 /\ purged[m] = 0
  /\ kept' = [kept EXCEPT ![m] = 0]
  /\ UNCHANGED <<inbox, purged>>

Purge(m) ==
  /\ kept[m] # 0 /\ inbox[m] # 0
  /\ inbox' = [inbox EXCEPT ![m] = 0]
  /\ purged' = [purged EXCEPT ![m] = inbox[m]]
  /\ UNCHANGED kept

Next == \E m \in Msgs : Owner(m) \/ Keep(m) \/ Forget(m) \/ Purge(m)

Spec == Init /\ [][Next]_vars
=============================================================================
