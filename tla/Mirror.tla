------------------------------- MODULE Mirror -------------------------------
(***************************************************************************)
(* The Postgres mirror of the mailbox: the sync engine that fills it       *)
(* (cache/sync.py), the message tools that patch it after their own EWS    *)
(* call (tools/writes.py) and the body repair script.  All of them write   *)
(* ews.messages without a lock between them; only the sync engine is       *)
(* sequential with itself.  (The embed lane over the bodies is Embed.)     *)
(*                                                                         *)
(* Exchange numbers its changes (head).  A sync token is such a number:    *)
(* SyncFolderItems(token) reports every item of the folder that changed    *)
(* after it, page by page, each page from the mailbox as it is then; the   *)
(* sync state of a page remembers what the pages before it reported.  An   *)
(* item that came and went unreported is no change: its deletion is not    *)
(* reported either.                                                        *)
(*                                                                         *)
(* A row's text, categories-and-flag and read flag are versions.  Rows     *)
(* the archive holds are the business of MailArchive; here all rows are    *)
(* `live'.                                                                 *)
(***************************************************************************)
EXTENDS Naturals, FiniteSets

CONSTANTS Items,      \* EWS item ids; an id never moves (EWS gives a new one)
          Folders,    \* mail folder ids
          Home,       \* the folder an id belongs to
          Inbox,      \* a folder that is never removed
          Old,        \* the items already in the mailbox
          FlushEvery, \* FLUSH_EVERY: changes buffered between two flushes
          MaxChanges, \* bound: changes Exchange makes
          MaxFaults   \* bound: crashes, failed passes and lost write-throughs

ASSUME MirrorAssumption ==
    /\ Home \in [Items -> Folders]
    /\ Inbox \in Folders
    /\ Old \subseteq Items
    /\ FlushEvery \in Nat \ {0}
    /\ MaxChanges \in Nat \ {0}
    /\ MaxFaults \in Nat

NoToken == 0   \* the key is not there; a pass without a token reads all

VARIABLES
    srv,      \* Exchange: the items
    hier,     \* Exchange: the folders there are
    head,     \* Exchange: number of the last change
    row,      \* ews.messages
    folders,  \* ews.folders
    tok,      \* ews.sync_state, keys item:<folder>
    flagged,  \* ews.sync_state, key flags_backfill is there
    eng,      \* the sync engine, in memory
    wt,       \* a mirror write of a tool or of the repair script, in flight
    faults,   \* faults so far
    orphans,  \* history: vanished folders whose clean-up was cut short
    late      \* history: <<id, field>> last written with an outdated value,
              \* and as "ghost" the rows a pass wrote and did not vouch for

exchange == <<srv, hier, head>>
store == <<row, folders, tok, flagged>>
history == <<orphans, late>>
vars == <<srv, hier, head, row, folders, tok, flagged, eng, wt, faults,
          orphans, late>>

-----------------------------------------------------------------------------
(* Types and initial states. *)

Version == 0..(MaxChanges + 1)      \* 0: an empty body, no categories

Snapshot == [meta : Version, read : 0..1]

Item == [st : {"new", "there", "gone"}, body : Version, meta : Version,
         read : 0..1, born : Version, mod : Version, rmod : Version]

Row == [there : BOOLEAN, body : Version, meta : Version, read : 0..1]

NoRow == [there |-> FALSE, body |-> 0, meta |-> 0, read |-> 0]

Partial(D, R) == UNION {[S -> R] : S \in SUBSET D}

Engine == [pc : {"off", "idle", "clean", "flag", "item", "walk", "ups",
                 "dels", "flags", "token"},
           known : SUBSET Folders,         \* self._folders
           gone : SUBSET Folders,          \* vanished, not yet cleaned
           todo : SUBSET Folders,          \* folders left in this cycle
           cur : Folders,                  \* the folder being synced
           told : Partial(Items, Version), \* the pages' sync state: an
                                           \* item's number when reported
           pos : Version,                  \* item_sync_state
           n : 0..FlushEvery,              \* pending
           ups : Partial(Items, Snapshot), \* upserts
           dels : SUBSET Items,            \* deletes
           rf : Partial(Items, 0..1),      \* read_flags
           fin : BOOLEAN]                  \* the generator is exhausted

Write == [op : {"read", "meta", "tomb", "body"}, id : Items,
          val : Version]

TypeOK ==
    /\ srv \in [Items -> Item]
    /\ hier \in SUBSET Folders
    /\ head \in Version
    /\ row \in [Items -> Row]
    /\ folders \in SUBSET Folders
    /\ tok \in [Folders -> Version]
    /\ flagged \in BOOLEAN
    /\ eng \in Engine
    /\ wt \in SUBSET Write /\ Cardinality(wt) <= 1
    /\ faults \in 0..MaxFaults
    /\ orphans \in SUBSET Folders
    /\ late \in SUBSET (Items \X {"body", "meta", "read", "ghost"})

Off == [pc |-> "off", known |-> {}, gone |-> {}, todo |-> {}, cur |-> Inbox,
        told |-> [i \in {} |-> 0], pos |-> 0, n |-> 0,
        ups |-> [i \in {} |-> [meta |-> 0, read |-> 0]], dels |-> {},
        rf |-> [i \in {} |-> 0], fin |-> FALSE]

(* A mailbox with mail in it, and either a fresh database or one a version *)
(* without flag_status left behind: rows and tokens, but no flags.         *)
Init ==
    /\ srv = [i \in Items |->
               IF i \in Old
               THEN [st |-> "there", body |-> 1, meta |-> 1, read |-> 0,
                     born |-> 1, mod |-> 1, rmod |-> 0]
               ELSE [st |-> "new", body |-> 0, meta |-> 0, read |-> 0,
                     born |-> 0, mod |-> 0, rmod |-> 0]]
    /\ hier = Folders
    /\ head = 1
    /\ \/ /\ row = [i \in Items |-> NoRow]
          /\ folders = {}
          /\ tok = [f \in Folders |-> NoToken]
       \/ /\ row = [i \in Items |->
                     IF srv[i].st = "there"
                     THEN [NoRow EXCEPT !.there = TRUE, !.body = 1]
                     ELSE NoRow]
          /\ folders = Folders
          /\ tok = [f \in Folders |-> 1]
    /\ flagged = FALSE
    /\ eng = Off
    /\ wt = {}
    /\ faults = 0
    /\ orphans = {}
    /\ late = {}

-----------------------------------------------------------------------------
(* Exchange, and the people who use it. *)

Num(i) == IF srv[i].mod > srv[i].rmod THEN srv[i].mod ELSE srv[i].rmod

There(i) == srv[i].st = "there"

MayChange == head < MaxChanges

(* Item i becomes s by the next change, leaving the folders alone. *)
Changed(i, s) ==
    /\ MayChange
    /\ head' = head + 1
    /\ srv' = [srv EXCEPT ![i] = s]
    /\ hier' = hier

Arrive(i) ==
    /\ srv[i].st = "new" /\ Home[i] \in hier
    /\ Changed(i, [st |-> "there", body |-> 1, meta |-> 0, read |-> 0,
                   born |-> head + 1, mod |-> head + 1, rmod |-> 0])
    /\ UNCHANGED <<store, eng, wt, faults, history>>

(* The owner edits, tags, reads or deletes it elsewhere. *)
Edit(i) ==
    /\ There(i)
    /\ \/ Changed(i, [srv[i] EXCEPT !.body = @ + 1, !.mod = head + 1])
       \/ Changed(i, [srv[i] EXCEPT !.meta = @ + 1, !.mod = head + 1])
       \/ Changed(i, [srv[i] EXCEPT !.read = 1 - @, !.rmod = head + 1])
       \/ Changed(i, [srv[i] EXCEPT !.st = "gone", !.mod = head + 1])
    /\ UNCHANGED <<store, eng, wt, faults, history>>

(* The folder goes, and its items with it. *)
RemoveFolder(f) ==
    /\ f \in hier \ {Inbox}
    /\ MayChange
    /\ head' = head + 1
    /\ hier' = hier \ {f}
    /\ srv' = [i \in Items |->
                IF Home[i] = f /\ There(i)
                THEN [srv[i] EXCEPT !.st = "gone", !.mod = head + 1]
                ELSE srv[i]]
    /\ UNCHANGED <<store, eng, wt, faults, history>>

-----------------------------------------------------------------------------
(* The sync engine. *)

Start ==
    /\ eng.pc = "off"
    /\ eng' = [eng EXCEPT !.pc = "idle"]
    /\ UNCHANGED <<exchange, store, wt, faults, history>>

(* The hierarchy is done: _backfill_flags unless it has run, then the items. *)
(* With folders still to clean the engine is not there yet.                  *)
Onward(e) ==
    IF e.gone # {} THEN [e EXCEPT !.pc = "clean"]
    ELSE IF flagged THEN [e EXCEPT !.pc = "item", !.todo = e.known]
    ELSE [e EXCEPT !.pc = "flag"]

(* Mutant: the folders known before are read after they were replaced. *)
WalkHierarchyLateRead ==
    /\ eng.pc = "idle"
    /\ folders' = hier
    /\ eng' = Onward([eng EXCEPT !.known = hier, !.gone = folders' \ hier])
    /\ UNCHANGED <<exchange, row, tok, flagged, wt, faults, history>>

(* _sync_hierarchy up to replace_folders.  Non-mail folders are left out of *)
(* the model, so every folder found is synced.                              *)
WalkHierarchy ==
    /\ eng.pc = "idle"
    /\ folders' = hier
    /\ eng' = Onward([eng EXCEPT !.known = hier, !.gone = folders \ hier])
    /\ UNCHANGED <<exchange, row, tok, flagged, wt, faults, history>>

(* Not due yet, or the walk found nothing: the folder set stays. *)
SkipHierarchy ==
    /\ eng.pc = "idle"
    /\ eng.known # {}
    /\ eng' = Onward(eng)
    /\ UNCHANGED <<exchange, store, wt, faults, history>>

Cleaned(f) == \A i \in Items : Home[i] = f => ~row[i].there

(* delete_live_messages_in_folder ... *)
DropRows(f) ==
    /\ eng.pc = "clean"
    /\ f \in eng.gone /\ ~Cleaned(f)
    /\ row' = [i \in Items |-> IF Home[i] = f THEN NoRow ELSE row[i]]
    /\ UNCHANGED <<exchange, folders, tok, flagged, eng, wt, faults, history>>

(* ... and, in a transaction of its own, drop_sync_state. *)
DropToken(f) ==
    /\ eng.pc = "clean"
    /\ f \in eng.gone /\ Cleaned(f)
    /\ tok' = [tok EXCEPT ![f] = NoToken]
    /\ eng' = Onward([eng EXCEPT !.gone = @ \ {f}])
    /\ UNCHANGED <<exchange, row, folders, flagged, wt, faults, history>>

(* _backfill_flags: once ever, for the rows that are there.  An id GetItem *)
(* fails for (missed) keeps what it had, and the pass is not repeated.     *)
BackfillFlags(missed) ==
    /\ eng.pc = "flag"
    /\ missed \subseteq {i \in Items : row[i].there /\ There(i)}
    /\ eng' = [eng EXCEPT !.pc = "item", !.todo = eng.known]
    /\ flagged' = TRUE
    /\ row' = [i \in Items |->
                IF row[i].there /\ There(i) /\ i \notin missed
                THEN [row[i] EXCEPT !.meta = srv[i].meta]
                ELSE row[i]]
    /\ late' = late \cup (missed \X {"meta"})
    /\ UNCHANGED <<exchange, folders, tok, wt, faults, orphans>>

(* _sync_one_folder reads its token. *)
OpenFolder(f) ==
    /\ eng.pc = "item"
    /\ eng.todo # {} /\ f = CHOOSE g \in eng.todo : TRUE   \* in dict order
    /\ eng' = [eng EXCEPT !.pc = "walk", !.cur = f]
    /\ UNCHANGED <<exchange, store, wt, faults, history>>

(* The changes of folder f to a client that knows item i as of known[i]. *)
Unseen(f, known) == {i \in Items : /\ Home[i] = f
                                   /\ srv[i].st # "new"
                                   /\ Num(i) > known[i]
                                   /\ There(i) \/ srv[i].born <= known[i]}

Known == [i \in Items |-> IF i \in DOMAIN eng.told THEN eng.told[i] ELSE tok[eng.cur]]

Put(fn, i, v) == [j \in DOMAIN fn \cup {i} |-> IF j = i THEN v ELSE fn[j]]

(* Mutant: the buffer is flushed one change late. *)
NextChangeFlushLate(i) ==
    /\ eng.pc = "walk"
    /\ eng.cur \in hier
    /\ i \in Unseen(eng.cur, Known)
    /\ LET e == [eng EXCEPT !.told = Put(@, i, Num(i)), !.n = @ + 1,
                            !.pc = IF eng.n + 1 > FlushEvery THEN "ups" ELSE @]
       IN eng' = IF There(i)
                 THEN [e EXCEPT !.ups = Put(@, i, [meta |-> srv[i].meta,
                                                   read |-> srv[i].read])]
                 ELSE [e EXCEPT !.dels = @ \cup {i}]
    /\ UNCHANGED <<exchange, store, wt, faults, history>>

(* The generator yields the next change: create or update as an item, a   *)
(* delete as an id, and a change of nothing but the read flag as that.    *)
NextChange(i) ==
    /\ eng.pc = "walk"
    /\ eng.cur \in hier
    /\ i \in Unseen(eng.cur, Known)
    /\ LET e == [eng EXCEPT !.told = Put(@, i, Num(i)), !.n = @ + 1,
                            !.pc = IF eng.n + 1 >= FlushEvery THEN "ups" ELSE @]
       IN eng' =
            IF ~There(i) THEN [e EXCEPT !.dels = @ \cup {i}]
            ELSE IF srv[i].mod > Known[i]
            THEN [e EXCEPT !.ups = Put(@, i, [meta |-> srv[i].meta,
                                              read |-> srv[i].read])]
            ELSE [e EXCEPT !.rf = Put(@, i, srv[i].read)]
    /\ UNCHANGED <<exchange, store, wt, faults, history>>

(* SyncFolderItems reports the last item in range; its state now stands   *)
(* for the mailbox as it is.                                              *)
Exhausted ==
    /\ eng.pc = "walk"
    /\ eng.cur \in hier
    /\ Unseen(eng.cur, Known) = {}
    /\ eng' = [eng EXCEPT !.pc = "ups", !.fin = TRUE, !.pos = head]
    /\ UNCHANGED <<exchange, store, wt, faults, history>>

(* flush: hydrate_bodies, then one upsert of the batch.  ok are the ids   *)
(* GetItem answers; the others are written with the empty body the sync   *)
(* delta gave them, over whatever body they had.                          *)
FlushUpserts(ok) ==
    /\ eng.pc = "ups"
    /\ \A i \in ok : There(i)
    /\ LET up(i) == [row[i] EXCEPT !.there = TRUE,
                                   !.body = IF i \in ok THEN srv[i].body ELSE 0,
                                   !.meta = eng.ups[i].meta,
                                   !.read = eng.ups[i].read]
       IN row' = [i \in Items |->
                   IF i \in DOMAIN eng.ups THEN up(i) ELSE row[i]]
    /\ late' = {w \in late : w[1] \notin DOMAIN eng.ups}
    /\ eng' = [eng EXCEPT !.pc = "dels"]
    /\ UNCHANGED <<exchange, folders, tok, flagged, wt, faults, orphans>>

(* apply_server_deletes on live rows: gone, chunks and all. *)
Tombstone(ids) == [i \in Items |-> IF i \in ids THEN NoRow ELSE row[i]]

FlushDeletes ==
    /\ eng.pc = "dels"
    /\ row' = Tombstone(eng.dels)
    /\ eng' = [eng EXCEPT !.pc = "flags", !.dels = {}]
    /\ UNCHANGED <<exchange, folders, tok, flagged, wt, faults, history>>

(* Mutant: the read flags are cleared without being written. *)
FlushReadFlagsDropped ==
    /\ eng.pc = "flags"
    /\ eng' = [eng EXCEPT !.pc = IF eng.fin THEN "token" ELSE "walk",
                          !.n = 0, !.ups = Off.ups, !.rf = Off.rf]
    /\ UNCHANGED <<exchange, store, wt, faults, history>>

(* set_read_flag for each, after the upserts: a read flag that came before *)
(* an update of the same item in this batch is written over it.            *)
FlushReadFlags ==
    /\ eng.pc = "flags"
    /\ row' = [i \in Items |->
                IF i \in DOMAIN eng.rf /\ row[i].there
                THEN [row[i] EXCEPT !.read = eng.rf[i]] ELSE row[i]]
    /\ late' = {w \in late : w[2] # "read" \/ w[1] \notin DOMAIN eng.rf} \cup
               {<<i, "read">> : i \in {j \in DOMAIN eng.rf \cap DOMAIN eng.ups :
                                        eng.rf[j] # srv[j].read}}
    /\ eng' = [eng EXCEPT !.pc = IF eng.fin THEN "token" ELSE "walk",
                          !.n = 0, !.ups = Off.ups, !.rf = Off.rf]
    /\ UNCHANGED <<exchange, folders, tok, flagged, wt, faults, orphans>>

(* Mutant: the folder stays on the list until a pass over it succeeds. *)
FolderRetried(e) == [e EXCEPT !.pc = "item", !.told = Off.told, !.pos = 0, !.n = 0,
                              !.ups = Off.ups, !.dels = {}, !.rf = Off.rf, !.fin = FALSE]

FolderDone(e) ==
    [e EXCEPT !.pc = IF e.todo = {e.cur} THEN "idle" ELSE "item",
              !.todo = e.todo \ {e.cur}, !.told = Off.told, !.pos = 0, !.n = 0,
              !.ups = Off.ups, !.dels = {}, !.rf = Off.rf, !.fin = FALSE]

(* Mutant: the token saved is the server's newest, not the delta's. *)
SaveNewestToken ==
    /\ eng.pc = "token"
    /\ tok' = [tok EXCEPT ![eng.cur] = head]
    /\ eng' = FolderDone(eng)
    /\ UNCHANGED <<exchange, row, folders, flagged, wt, faults, history>>

(* set_sync_state, once, when every row of the delta is written. *)
SaveToken ==
    /\ eng.pc = "token"
    /\ tok' = [tok EXCEPT ![eng.cur] = eng.pos]
    /\ eng' = FolderDone(eng)
    /\ UNCHANGED <<exchange, row, folders, flagged, wt, faults, history>>

(* sync_items raises for a folder that is no longer there. *)
FolderGone ==
    /\ eng.pc = "walk"
    /\ eng.cur \notin hier
    /\ eng' = FolderDone(eng)
    /\ UNCHANGED <<exchange, store, wt, faults, history>>

InFolder == {"walk", "ups", "dels", "flags", "token"}

(* The rows whose items the token of the folder in hand knows nothing of. *)
Unvouched ==
    IF eng.pc \notin InFolder THEN {}
    ELSE {<<i, "ghost">> : i \in {j \in Items : /\ Home[j] = eng.cur /\ row[j].there
                                                /\ srv[j].born > tok[eng.cur]}}

(* An EWS or database error in a folder's pass costs that pass only; what *)
(* it has written stays.                                                  *)
FolderFails ==
    /\ faults < MaxFaults
    /\ eng.pc \in InFolder
    /\ eng' = FolderDone(eng)
    /\ late' = late \cup Unvouched
    /\ faults' = faults + 1
    /\ UNCHANGED <<exchange, store, wt, orphans>>

(* An error in the clean-up ends the cycle; ews.folders has already       *)
(* forgotten the folders that were left to clean.                         *)
CleanUpFails ==
    /\ faults < MaxFaults
    /\ eng.pc = "clean"
    /\ orphans' = orphans \cup eng.gone
    /\ eng' = [eng EXCEPT !.pc = "idle", !.gone = {}]
    /\ faults' = faults + 1
    /\ UNCHANGED <<exchange, store, wt, late>>

(* The process dies: the database stays. *)
Crash ==
    /\ faults < MaxFaults
    /\ eng.pc # "off"
    /\ orphans' = orphans \cup eng.gone
    /\ eng' = Off
    /\ wt' = {}
    /\ late' = late \cup Unvouched
    /\ faults' = faults + 1
    /\ UNCHANGED <<exchange, store>>

-----------------------------------------------------------------------------
(* The message tools: one EWS call, then the write-through. *)

Tool(op, i, v) ==
    /\ wt = {}
    /\ wt' = {[op |-> op, id |-> i, val |-> v]}
    /\ UNCHANGED <<store, eng, faults, history>>

SetRead(i, v) ==
    /\ There(i)
    /\ Changed(i, [srv[i] EXCEPT !.read = v,
                                 !.rmod = IF v = srv[i].read THEN @ ELSE head + 1])
    /\ Tool("read", i, v)

(* update_messages notes the new categories or flag before item.save():   *)
(* they are written through whether the save succeeds or raises.          *)
SetMeta(i) ==
    /\ There(i)
    /\ MayChange
    /\ \/ Changed(i, [srv[i] EXCEPT !.meta = @ + 1, !.mod = head + 1])
       \/ faults < MaxFaults /\ UNCHANGED exchange
    /\ Tool("meta", i, srv[i].meta + 1)

DeleteMessage(i) ==
    /\ There(i)
    /\ Changed(i, [srv[i] EXCEPT !.st = "gone", !.mod = head + 1])
    /\ Tool("tomb", i, 0)

(* The item comes back under a new id in the other folder. *)
MoveMessage(i, j) ==
    /\ There(i) /\ srv[j].st = "new"
    /\ Home[j] # Home[i] /\ Home[j] \in hier
    /\ MayChange
    /\ head' = head + 1
    /\ hier' = hier
    /\ srv' = [srv EXCEPT ![i] = [@ EXCEPT !.st = "gone", !.mod = head + 1],
                          ![j] = [srv[i] EXCEPT !.born = head + 1, !.mod = head + 1,
                                                !.rmod = 0]]
    /\ Tool("tomb", i, 0)

(* scripts/backfill_bodies.py: GetItem for a row with something missing,  *)
(* or for every row (--all).                                              *)
RepairBody(i) ==
    /\ row[i].there
    /\ There(i)
    /\ Tool("body", i, srv[i].body)
    /\ UNCHANGED exchange

Written(r, w) ==
    CASE w.op = "read" -> [r EXCEPT !.read = w.val]
      [] w.op = "meta" -> [r EXCEPT !.meta = w.val]
      [] w.op = "body" -> [r EXCEPT !.body = w.val]
      [] w.op = "tomb" -> NoRow

Field(op) == IF op = "tomb" THEN {} ELSE {op}

WriteThrough(w) ==
    /\ w \in wt
    /\ LET r == row[w.id]
           f == {w.id} \X Field(w.op)
       IN IF r.there
          THEN /\ row' = [row EXCEPT ![w.id] = Written(@, w)]
               /\ late' = IF \A p \in f : srv[p[1]][p[2]] = w.val
                          THEN late \ f ELSE late \cup f
          ELSE UNCHANGED <<row, late>>
    /\ wt' = {}
    /\ UNCHANGED <<exchange, folders, tok, flagged, eng, faults, orphans>>

(* Logged and swallowed: "sync will repair". *)
WriteThroughFails ==
    /\ wt # {}
    /\ faults < MaxFaults
    /\ wt' = {}
    /\ faults' = faults + 1
    /\ UNCHANGED <<exchange, store, eng, history>>

-----------------------------------------------------------------------------
EngineStep ==
    \/ Start \/ SkipHierarchy \/ WalkHierarchy \/ Exhausted \/ FlushDeletes
    \/ FlushReadFlags \/ SaveToken \/ FolderGone
    \/ \E f \in Folders : DropRows(f) \/ DropToken(f) \/ OpenFolder(f)
    \/ \E i \in Items : NextChange(i)
    \/ \E missed \in SUBSET Items : BackfillFlags(missed)
    \/ \E ok \in SUBSET DOMAIN eng.ups : FlushUpserts(ok)

Next ==
    \/ EngineStep \/ FolderFails \/ CleanUpFails \/ Crash
    \/ (\E w \in wt : WriteThrough(w)) \/ WriteThroughFails
    \/ \E f \in Folders : RemoveFolder(f)
    \/ \E i \in Items :
         \/ Arrive(i) \/ Edit(i) \/ SetMeta(i) \/ DeleteMessage(i)
         \/ RepairBody(i)
         \/ \E v \in 0..1 : SetRead(i, v)
         \/ \E j \in Items : MoveMessage(i, j)

Spec == Init /\ [][Next]_vars

(* The engine's loop runs as long as the process does, and its hierarchy  *)
(* lane comes round every EWS_CACHE_HIERARCHY_SECONDS.                    *)
FairSpec == Spec /\ WF_vars(EngineStep) /\ SF_vars(WalkHierarchy)

-----------------------------------------------------------------------------
(* Properties. *)

(* A saved token stands for rows that are written: below it the mirror has *)
(* exactly the items Exchange has, whatever tool deleted or moved one while *)
(* a page holding it was buffered, and whatever pass failed half-way        *)
(* (_sync_one_folder saves the token once, after the last flush).  Only a   *)
(* row written by a pass that then failed may outlive its item: deleted     *)
(* before the next pass, it is gone from a delta that never listed it.      *)
TokenBehindRows ==
    \A i \in Items :
      srv[i].st # "new" /\ Num(i) <= tok[Home[i]]
      => /\ There(i) => row[i].there
         /\ row[i].there => There(i) \/ <<i, "ghost">> \in late

(* Below the token a row also says what Exchange says, but for a value the *)
(* code wrote over a newer one (a write-through that landed late or whose   *)
(* save had failed, a read flag flushed after the update that followed it,  *)
(* a flag the one-time backfill missed) and a body GetItem did not return.  *)
ContentBehindToken ==
    \A i \in Items :
      /\ There(i) /\ row[i].there /\ flagged
      /\ Num(i) <= tok[Home[i]]
      => /\ row[i].meta = srv[i].meta \/ <<i, "meta">> \in late
         /\ row[i].read = srv[i].read \/ <<i, "read">> \in late
         /\ row[i].body \in {0, srv[i].body} \/ <<i, "body">> \in late

(* Rows outlive their folder only when the clean-up after replace_folders  *)
(* was cut short: ews.folders is the only record that the folder was known. *)
OrphansOnlyByFault ==
    \A i \in Items :
      row[i].there => Home[i] \in folders \cup eng.gone \cup orphans

(* Exchange changes finitely often here; the mirror then settles on its    *)
(* folders and on the last change of each, whatever failed on the way.      *)
CaughtUp ==
    /\ folders = hier
    /\ \A f \in hier : Unseen(f, [i \in Items |-> tok[f]]) = {}

MirrorCatchesUp == <>[]CaughtUp

=============================================================================
