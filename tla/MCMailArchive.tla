--------------------------- MODULE MCMailArchive ---------------------------
(* Instances of MailArchive for TLC.  The first message changes content and  *)
(* attachment when it is edited; the second shares the first one's           *)
(* attachment and its edits (a read flag) leave the MIME alone.              *)
EXTENDS MailArchive

CONSTANTS m1, m2, e1, e2, e3, b1, b2

MCMimeOf == [m \in Msgs |-> [v \in Versions |->
              IF m = m1 THEN (IF v = 1 THEN e1 ELSE e2) ELSE e3]]
MCBlobsOf == [m \in Msgs |-> [v \in Versions |->
              IF m = m1 /\ v # 1 THEN {b2} ELSE {b1}]]
\* Two deliveries of one mail without attachments: one file on disk.
MCSameMime == [m \in Msgs |-> [v \in Versions |-> e1]]
MCNoBlobs == [m \in Msgs |-> [v \in Versions |-> {}]]
\* The edit made the message too large to archive.
MCGrown == {<<m1, 2>>}
=============================================================================
