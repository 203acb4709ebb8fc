-------------------------------- MODULE Reads --------------------------------
(***************************************************************************)
(* One read of one message, through the two processes that can answer it:  *)
(* the thin MCP (mcp/dispatch.py, mcp/local.py), which reads Postgres and  *)
(* forwards to the daemon what the mirror cannot answer, and ewsd          *)
(* (tools/base.py, mail_read.py, archive.py), which tries the mirror or    *)
(* the archive first and Exchange last.  Postgres, ewsd and Exchange come  *)
(* and go between any two steps, and the message is synced, captured,      *)
(* removed from Exchange or deleted by its owner meanwhile.                *)
(*                                                                         *)
(* The caller passes an alias.  IdAliaser.resolve fails open: without      *)
(* Postgres the alias itself goes on as if it were the id.                 *)
(***************************************************************************)
EXTENDS Naturals

CONSTANTS MaxOutages,  \* bound: Postgres, ewsd or Exchange going down
          MaxMoves     \* bound: steps of the message's own life

ASSUME ReadsAssumption == {MaxOutages, MaxMoves} \subseteq Nat

Listings == {"list_folders", "get_mailbox_overview", "list_tasks"}
Cached == Listings \union {"get_message"}     \* mirror first, then ewsd
Store == {"get_thread", "search_messages", "waiting_on"}  \* the mirror or nothing
Local == Cached \union Store                  \* LOCAL_TOOLS
OfMessage == {"get_message", "get_thread", "get_attachment", "get_raw_message"}
Tools == Local \union OfMessage
NeedsEws == Tools \ {"get_raw_message", "waiting_on"}     \* requires_ews

Rows == {"none", "live", "captured", "deletable", "deleted"}
OnDisk == {"captured", "deletable", "deleted"}
Codes == {"cache", "archive", "live",        \* the source of a good answer
          "not_found", "backend_unavailable", "daemon_unavailable",
          "upstream_unavailable", "upstream_error"}
Steps == {"idle", "resolve", "mirror", "thread", "probe", "forward", "gate",
          "ewsd_resolve", "ewsd_mirror", "ewsd_files", "exchange", "done"}
Convs == {"null", "a", "b"}                  \* conversation_id

VARIABLES
    read,    \* the request: tool, fresh, step, whether its id is resolved,
             \* the conversation it reads, mirror_error, the answer's code
    up,      \* which of db, ewsd, exchange answer; warm, the manager's state
    copy,    \* the message: its row and conversation, its server copy; inv,
             \* its rows in ews.attachments; disk, its archived files; lane,
             \* whether the sync lane the tool reads has a watermark
    spent,   \* outages and moves so far
    hist     \* history of this read: what was ever down, ever missing

readsVars == <<read, up, copy, spent, hist>>

NoRead == [tool |-> "get_message", fresh |-> FALSE, at |-> "idle",
           known |-> FALSE, seed |-> "null", dbError |-> FALSE, code |-> "not_found"]

Blank == [dbDown |-> FALSE, dbUp |-> FALSE, ewsdDown |-> FALSE, noRow |-> FALSE,
          gone |-> FALSE, unserved |-> FALSE, bare |-> FALSE, lost |-> FALSE,
          untied |-> FALSE, reset |-> FALSE, pulled |-> FALSE]

ReadsInit ==
    /\ read = NoRead
    /\ up = [db |-> TRUE, ewsd |-> TRUE, exchange |-> TRUE, warm |-> FALSE]
    /\ \E row \in {"none", "live"}, conv \in {"null", "a"} :
          /\ row = "none" => conv = "null"
          /\ copy = [row |-> row, conv |-> conv, server |-> TRUE, inv |-> "none",
                     disk |-> FALSE, lane |-> FALSE]
    /\ spent = [outages |-> 0, moves |-> 0]
    /\ hist = Blank

FromFiles == {"get_attachment", "get_raw_message"}
Untied(c, deeds) == (c.row # "none" /\ c.conv = "null") \/ "retied" \in deeds

InFlight == read.at \notin {"idle", "done"}

-----------------------------------------------------------------------------
(* What a read by tool t has lived through, as far as t can be affected:   *)
(* kept by every step until it answers.  deeds are what a step did that no *)
(* later state shows.                                                      *)
Witness(h, t, u, c, deeds) ==
    [dbDown   |-> h.dbDown \/ ~u.db,
     dbUp     |-> h.dbUp \/ u.db,
     ewsdDown |-> h.ewsdDown \/ ~u.ewsd,
     noRow    |-> h.noRow \/ c.row = "none",
     gone     |-> h.gone \/ (~c.server /\ c.row \notin OnDisk),
     unserved |-> h.unserved \/ ~c.server,
     untied   |-> h.untied \/ (t = "get_thread" /\ Untied(c, deeds)),
     bare     |-> h.bare \/ (t = "get_attachment" /\ c.row \in OnDisk /\ c.inv # "stored"),
     lost     |-> h.lost \/ (t \in FromFiles /\ c.row \in OnDisk /\ ~c.disk),
     reset    |-> h.reset \/ (t \in FromFiles /\ "reset" \in deeds),
     pulled   |-> h.pulled \/ "pulled" \in deeds]

See(deeds) == hist' = IF InFlight THEN Witness(hist, read.tool, up', copy', deeds) ELSE hist

Flip(k) ==
    /\ up[k] => spent.outages < MaxOutages
    /\ up' = [up EXCEPT ![k] = ~@, !.warm = @ /\ (k = "ewsd" => ~up.ewsd)]
    /\ spent' = IF up[k] THEN [spent EXCEPT !.outages = @ + 1] ELSE spent
    /\ copy' = [copy EXCEPT !.inv = IF k = "ewsd" /\ @ = "pending" THEN "none" ELSE @]
    /\ See({})
    /\ UNCHANGED read

(* The manager's warm-up ends; a state of "degraded" lets calls through.   *)
Warm ==
    /\ ~up.warm /\ up.ewsd /\ up.exchange
    /\ up' = [up EXCEPT !.warm = TRUE]
    /\ UNCHANGED <<read, copy, spent, hist>>

(* The message's own life, as MailArchive has it.  The grace period is at  *)
(* least a day and a read lasts at most the client's 90 seconds: a copy    *)
(* does not become deletable while a read is in flight.                    *)
Live(c, deeds) ==
    /\ spent.moves < MaxMoves
    /\ copy' = c
    /\ spent' = [spent EXCEPT !.moves = @ + 1]
    /\ UNCHANGED <<read, up>>
    /\ See(deeds)

LaneSynced ==
    /\ ~copy.lane /\ up.db
    /\ copy' = [copy EXCEPT !.lane = TRUE]
    /\ UNCHANGED <<read, up, spent>>
    /\ See({})

(* The upsert writes conversation_id as Exchange has it, NULL included,    *)
(* and writes it again on every update.                                    *)
Sync == copy.row = "none" /\ copy.server /\ up.db
        /\ \E v \in {"null", "a"} :
              /\ InFlight /\ read.tool # "get_thread" => v = "null"
              /\ Live([copy EXCEPT !.row = "live", !.conv = v], {})
Resync == copy.row # "none" /\ copy.server /\ up.db
          /\ \E v \in Convs \ {copy.conv} : Live([copy EXCEPT !.conv = v], {"retied"})

(* _capture_one: the files are there, and mark_captured is a transaction   *)
(* of its own.  replace_attachments follows; a crash of ewsd, or Postgres  *)
(* failing it and the undo, leaves the captured row without an inventory.  *)
Capture == copy.row = "live" /\ up.db
           /\ Live([copy EXCEPT !.row = "captured", !.inv = "pending", !.disk = TRUE], {})
Inventory ==
    /\ copy.inv = "pending"
    /\ copy' = [copy EXCEPT !.inv = IF up.db /\ copy.row # "none" THEN "stored" ELSE "none"]
    /\ UNCHANGED <<read, up, spent>>
    /\ See({})

(* reset_to_live, the undo of a failed capture or the verifier's verdict;  *)
(* and the deleter's demotion of a row whose files it did not find.        *)
Reset == copy.row = "captured" /\ up.db
         /\ Live([copy EXCEPT !.row = "live", !.inv = "none"], {"reset"})
Demote == copy.row = "deletable" /\ copy.server /\ up.db
          /\ Live([copy EXCEPT !.row = "captured"], {})

(* The files decay, or the collector removes what no row refers to.        *)
FilesGo == copy.disk /\ Live([copy EXCEPT !.disk = FALSE], {})

GraceEnds == copy.row = "captured" /\ copy.inv # "pending" /\ ~InFlight
             /\ Live([copy EXCEPT !.row = "deletable"], {})
Archive == copy.row = "deletable" /\ copy.server
           /\ Live([copy EXCEPT !.row = IF up.db THEN "deleted" ELSE @,
                                !.server = FALSE], {})
OwnerDeletes == copy.server /\ Live([copy EXCEPT !.server = FALSE], {"pulled"})
SyncDelete ==
    /\ ~copy.server /\ copy.row \in {"live", "captured", "deletable"} /\ up.db
    /\ Live(IF copy.row = "live"
            THEN [copy EXCEPT !.row = "none", !.conv = "null", !.inv = "none"]
            ELSE [copy EXCEPT !.row = "deleted"], {})

-----------------------------------------------------------------------------
Step(r) ==
    /\ read' = r
    /\ UNCHANGED <<up, copy, spent, hist>>

To(at) == Step([read EXCEPT !.at = at])
Answer(code) == Step([read EXCEPT !.at = "done", !.code = code])

(* The caller has its answer, and may ask again.                           *)
Deliver ==
    /\ read.at = "done"
    /\ read' = NoRead /\ hist' = Blank
    /\ UNCHANGED <<up, copy, spent>>

(* A tool that is not about the message is asked before the message is     *)
(* there, one that is before the lanes are synced, and all but get_thread  *)
(* of a message without a conversation: none of them could tell.           *)
Ask(t, fresh) ==
    /\ read.at = "idle"
    /\ fresh => t \in Cached
    /\ t # "get_thread" => copy.conv = "null"
    /\ IF t \in OfMessage THEN ~copy.lane ELSE spent.moves = 0 /\ copy.row = "none"
    /\ read' = [NoRead EXCEPT !.tool = t, !.fresh = fresh,
                              !.at = IF t \in Local THEN "resolve" ELSE "forward"]
    /\ hist' = Witness(Blank, t, up, copy, {})
    /\ UNCHANGED <<up, copy, spent>>

(* resolve_ids in the MCP, for the tools it answers itself.  known: the id *)
(* Postgres and Exchange know; a tool that takes none has nothing to lose. *)
Resolve ==
    /\ read.at = "resolve"
    /\ Step([read EXCEPT !.known = up.db \/ read.tool \notin OfMessage,
                         !.at = IF read.fresh THEN "forward" ELSE "mirror"])

RowHit == up.db /\ read.known /\ copy.row # "none"
ListingHit == up.db /\ copy.lane
Hit == IF read.tool \in OfMessage THEN RowHit ELSE ListingHit

TryMirrorNotDeleted ==
    /\ read.at = "mirror" /\ read.tool \in Cached
    /\ IF Hit /\ copy.row # "deleted" THEN Answer("cache") ELSE To("probe")

(* local._try around the cache reads: a dead Postgres looks like a miss,   *)
(* and every miss is followed by the probe of _mirror_alive.               *)
TryMirror ==
    /\ read.at = "mirror" /\ read.tool \in Cached
    /\ IF Hit THEN Answer("cache") ELSE To("probe")

ProbeSkipped ==
    /\ read.at = "probe"
    /\ Step([read EXCEPT !.at = "forward"])

Probe ==
    /\ read.at = "probe"
    /\ Step([read EXCEPT !.dbError = ~up.db, !.at = "forward"])

StoreOnly(t) ==
    /\ read.at = "mirror" /\ read.tool = t
    /\ Answer(IF ~up.db THEN "backend_unavailable"
              ELSE IF Hit THEN "cache" ELSE "upstream_unavailable")

SearchMessages == StoreOnly("search_messages")
WaitingOn == StoreOnly("waiting_on")

(* _thread_from_cache reads the row, and later the rows of the             *)
(* conversation it named: a row without one is a miss, and so is one that  *)
(* has left its conversation since.  The thread is this message alone.     *)
GetThread ==
    /\ read.at = "mirror" /\ read.tool = "get_thread"
    /\ IF ~up.db THEN Answer("backend_unavailable")
       ELSE IF RowHit /\ copy.conv # "null"
       THEN Step([read EXCEPT !.at = "thread", !.seed = copy.conv])
       ELSE Answer("not_found")

ThreadRows ==
    /\ read.at = "thread"
    /\ Answer(IF ~up.db THEN "backend_unavailable"
              ELSE IF copy.row # "none" /\ copy.conv = read.seed
              THEN "cache" ELSE "not_found")

Unreachable == IF read.dbError THEN "backend_unavailable" ELSE "daemon_unavailable"

Forward ==
    /\ read.at = "forward"
    /\ IF up.ewsd THEN To("gate") ELSE Answer(Unreachable)

(* ewsd stops while it has the call: httpx raises in the MCP.              *)
CallLost ==
    /\ read.at \in {"gate", "ewsd_resolve", "ewsd_mirror", "ewsd_files", "exchange"}
    /\ ~up.ewsd
    /\ Answer(Unreachable)

ColdGate ==
    /\ read.at = "gate" /\ up.ewsd
    /\ IF read.tool \in NeedsEws /\ ~up.warm
       THEN Answer("upstream_unavailable") ELSE To("ewsd_resolve")

EwsdResolve ==
    /\ read.at = "ewsd_resolve" /\ up.ewsd
    /\ Step([read EXCEPT !.known = @ \/ up.db,
                         !.at = IF read.fresh THEN "exchange" ELSE "ewsd_mirror"])

(* ewsd's own handlers look at the mirror again; its errors are misses.    *)
MirrorThenLive(t) ==
    /\ read.at = "ewsd_mirror" /\ read.tool = t /\ up.ewsd
    /\ IF Hit THEN Answer("cache") ELSE To("exchange")

GetMessage == MirrorThenLive("get_message")
ListFolders == MirrorThenLive("list_folders")
MailboxOverview == MirrorThenLive("get_mailbox_overview")
ListTasks == MirrorThenLive("list_tasks")

GetAttachmentDeletedOnly ==
    /\ read.at = "ewsd_mirror" /\ read.tool = "get_attachment" /\ up.ewsd
    /\ IF ~up.db THEN Answer("upstream_error")
       ELSE IF Hit /\ copy.row = "deleted" THEN To("ewsd_files")
       ELSE To("exchange")

(* attachment_from_archive, for an attachment the message has: anything    *)
(* but a live row is answered from the inventory and the disk, or not at   *)
(* all.  Its store errors are nobody's: map_exception calls them           *)
(* upstream's.                                                             *)
GetAttachment ==
    /\ read.at = "ewsd_mirror" /\ read.tool = "get_attachment" /\ up.ewsd
    /\ IF ~up.db THEN Answer("upstream_error")
       ELSE IF Hit /\ copy.row \in OnDisk THEN To("ewsd_files")
       ELSE To("exchange")

AttachmentFromArchive ==
    /\ read.at = "ewsd_files" /\ read.tool = "get_attachment" /\ up.ewsd
    /\ Answer(IF ~up.db THEN "upstream_error"
              ELSE IF copy.inv = "stored" /\ copy.disk THEN "archive" ELSE "not_found")

(* _get_raw_message: without a row there is nothing to say; with mime_path *)
(* it is a file, or missing; otherwise Exchange, behind the cold gate once *)
(* more.                                                                   *)
GetRawMessage ==
    /\ read.at = "ewsd_mirror" /\ read.tool = "get_raw_message" /\ up.ewsd
    /\ IF ~up.db THEN Answer("upstream_error")
       ELSE IF ~Hit THEN Answer("not_found")
       ELSE IF copy.row \in OnDisk THEN To("ewsd_files")
       ELSE IF ~up.warm THEN Answer("upstream_unavailable")
       ELSE To("exchange")

RawFromArchive ==
    /\ read.at = "ewsd_files" /\ read.tool = "get_raw_message" /\ up.ewsd
    /\ Answer(IF copy.disk THEN "archive" ELSE "not_found")

(* gateway.call: an id Exchange does not know is not_found.                *)
Exchange ==
    /\ read.at = "exchange" /\ up.ewsd
    /\ Answer(IF ~up.exchange THEN "upstream_unavailable"
              ELSE IF read.tool \in OfMessage /\ ~(read.known /\ copy.server)
              THEN "not_found" ELSE "live")

Serve == Resolve \/ TryMirror \/ Probe \/ SearchMessages \/ WaitingOn
         \/ GetThread \/ ThreadRows
         \/ Forward \/ CallLost \/ ColdGate \/ EwsdResolve
         \/ GetMessage \/ ListFolders \/ MailboxOverview \/ ListTasks
         \/ GetAttachment \/ AttachmentFromArchive
         \/ GetRawMessage \/ RawFromArchive \/ Exchange

(* Around a read the message moves only as far as its tool can tell.       *)
Of(tools) == InFlight => read.tool \in tools

World ==
    \/ \E k \in {"db", "ewsd", "exchange"} : Flip(k)
    \/ Warm
    \/ Of(Tools \ OfMessage) /\ LaneSynced
    \/ Of(OfMessage) /\ (Sync \/ Capture \/ GraceEnds \/ Archive \/ OwnerDeletes \/ SyncDelete)
    \/ Of({"get_thread"}) /\ Resync
    \/ Of(FromFiles) /\ (Inventory \/ Reset \/ Demote \/ FilesGo)

(* What happens after the answer happens before the next question.         *)
ReadsNext ==
    \/ read.at # "done" /\ World
    \/ Deliver
    \/ \E t \in Tools, fresh \in BOOLEAN : Ask(t, fresh)
    \/ Serve

ReadsSpec == ReadsInit /\ [][ReadsNext]_readsVars

-----------------------------------------------------------------------------
ReadsTypeOK ==
    /\ read \in [tool : Tools, fresh : BOOLEAN, at : Steps, known : BOOLEAN,
                 seed : Convs, dbError : BOOLEAN, code : Codes]
    /\ up \in [db : BOOLEAN, ewsd : BOOLEAN, exchange : BOOLEAN, warm : BOOLEAN]
    /\ copy \in [row : Rows, conv : Convs, server : BOOLEAN,
                 inv : {"none", "pending", "stored"}, disk : BOOLEAN, lane : BOOLEAN]
    /\ spent \in [outages : 0..MaxOutages, moves : 0..MaxMoves]
    /\ hist \in [dbDown : BOOLEAN, dbUp : BOOLEAN, ewsdDown : BOOLEAN,
                 noRow : BOOLEAN, gone : BOOLEAN, unserved : BOOLEAN, bare : BOOLEAN,
                 lost : BOOLEAN, untied : BOOLEAN, reset : BOOLEAN, pulled : BOOLEAN]

Answered(codes) == read.at = "done" /\ read.code \in codes

(* What it takes for a tool to miss the message, at some moment of a read. *)
(* get_thread: no row, or a row whose conversation was NULL or rewritten.  *)
(* get_message: nowhere at all; or off the server, when that is where the  *)
(* caller or an unsynced mirror sent it.  get_attachment: the same, or a   *)
(* copy in the archive that had no inventory (capture.py:156-168), had     *)
(* lost its files, or was being reset to live while it was read.           *)
(* get_raw_message: no row, or the last two.                               *)
MayMiss ==
    \/ read.tool = "get_thread" /\ (hist.noRow \/ hist.untied)
    \/ read.tool # "get_thread" /\ hist.gone
    \/ read.tool = "get_message" /\ hist.unserved /\ (read.fresh \/ hist.noRow)
    \/ /\ read.tool = "get_attachment"
       /\ (hist.unserved /\ hist.noRow) \/ hist.bare \/ hist.lost \/ hist.reset
    \/ read.tool = "get_raw_message" /\ (hist.noRow \/ hist.lost \/ hist.reset)

(* A read that says not_found while Postgres answered throughout has a     *)
(* reason in its own time: capture, deletion after the grace period and    *)
(* sync may all happen between its lookups (mail_read.py:309,              *)
(* cache_reads.py:497-515), and none of them hides a message that is on    *)
(* the server, or complete in the archive, all along.  Only an owner who   *)
(* deletes the message in the middle of a read can make get_attachment     *)
(* miss a copy captured after it looked.                                   *)
NoFalseMiss == Answered({"not_found"}) /\ ~hist.dbDown /\ ~hist.pulled => MayMiss

(* daemon_unavailable, backend_unavailable and not_found name what was     *)
(* down.  A dead Postgres is never reported as a missing thread, both down *)
(* is never a bare daemon error (mcp/local.py:60-64), and neither is       *)
(* blamed while it answered.  (upstream_error is what ewsd's archive reads *)
(* call a dead Postgres: nothing is said of it.)                           *)
BlameIsRight ==
    /\ Answered({"daemon_unavailable"}) =>
          hist.ewsdDown /\ (read.tool \in Cached /\ ~read.fresh => hist.dbUp)
    /\ Answered({"backend_unavailable"}) =>
          hist.dbDown /\ (read.tool \notin Store => hist.ewsdDown)
    /\ Answered({"not_found"}) => hist.dbUp \/ read.tool \notin Store

(* With Postgres up and the row there throughout, the MCP answers          *)
(* get_message from the mirror, and get_thread too when the row names one  *)
(* conversation throughout: ewsd and Exchange may both be down             *)
(* (mcp/local.py:149-166, cache_reads.py:128-133).                         *)
MirrorServesAlone ==
    read.at = "done" /\ ~hist.dbDown /\ ~hist.noRow =>
        /\ read.tool = "get_message" /\ ~read.fresh => read.code = "cache"
        /\ read.tool = "get_thread" /\ ~hist.untied => read.code = "cache"
=============================================================================
