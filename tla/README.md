# exchange-mcp: a TLA+ verification project

exchange-mcp puts an Exchange mailbox behind MCP and REST tools. The daemon
`ewsd` holds the credentials, mirrors the mailbox in Postgres (`ews.*`),
archives old mail to disk and may then remove it from Exchange, and gates every
tool call; `ewsmcp` is a thin client of it, and the bridge serves the mirror to
other programs. This directory models what the daemon, the MCP front-end and the
bridge do to the state they keep, checks it with TLC and proves the main results
with TLAPS.

Paths below are relative to `src/ewsmcp/` unless they start with `src/`.

## 1. Inventory

| Component | State | Operations | Interacts with |
|---|---|---|---|
| Archive pipeline: `archive/{runner,capture,verify,delete,gc}.py` | archive columns of `ews.messages`, `ews.attachments`, `ews.archive_runs`, `_too_large_ids` | one pass of lanes capture, verify, embed, gc, delete under a lock; a background cycle and `archive_run` | store, file store, Exchange, audit |
| File store: `archive/files.py` | `mime/`, `blobs/` by SHA-256 under `DATA_DIR` | verified write, size check, sweep | pipeline |
| Archive policy: `archive/policy.py` | none | cutoffs, grace period, backup hold | pipeline |
| Mirror store: `cache/store.py` | all tables of `ews.*` | upserts, state changes with SQL guards, queries | everything |
| Sync engine: `cache/sync.py` | sync tokens per folder and for the hierarchy | hierarchy pass, mail folders, slow lane, body hydration | Exchange, store |
| Tool dispatch: `tools/base.py`, `confirm.py` | circuit counters, send times, spent tokens | the gate chain around every handler | every tool |
| Write tools: `tools/{writes,write_specs,tasks,calendar_people}.py` | idempotency receipts | drafts, sends, moves, deletes, events; each patches the mirror | Exchange, store, aliaser |
| Audit: `audit.py`, `src/scripts/verify_audit_chain.py` | hash chain head, `chain.state`, daily files | append, verify | dispatch, deleter |
| Alias ids: `ids.py` | `ews.aliases` | mint, resolve, rebind after a move | every tool |
| Upload and download links: `uploads.py`, `downloads.py` | link tables, files | mint, redeem, sweep | HTTP, write tools |
| Connection manager: `gateway/{client,connection}.py` | connecting, warm or failed; attempt count | warm-up, heartbeat, reset, `on_warm` | starts sync and archive |
| Bridge: `bridge/*.py` | `seq`, `first_seen` of arrivals | arrival sweep, cursor pages | mirror |
| Embedding and search: `archive/embed.py`, `semantic.py` | chunks | embed lane, rank fusion | mirror |
| Read path: `mcp/*.py`, `tools/{mail_read,cache_reads,archive}.py` | none of its own | mirror first, then ewsd, then archive or Exchange | store, ewsd, Exchange |
| Body cleaning, DTOs, servers, configuration | none | text processing, wiring | |

What is hard here, and hard to test:

- **Irreversible steps across three stores.** A hard delete in Exchange, a row
  in Postgres and files on disk change one after the other; any call may raise,
  and the process may die between any two. Sync, write tools, the owner in
  Outlook and the disk act in between.
- **Checks that are stale when used.** The deleter's selection, disk check and
  fetch precede the delete; the confirm gate's preview precedes the send.
- **Boundaries.** Whole seconds against fractions, windows at their limit, an
  oldest-first queue with a LIMIT.
- **Unlocked writers of one row.** The sync engine buffers a page, a tool writes
  its own change through, a script repairs a body and the embed lane stores
  chunks cut from a body it read earlier; nothing orders them.
- **Parts that fail one by one.** Postgres, ewsd, Exchange and the embedding
  service come and go separately, in the middle of a read or of a pass.
- **Something must eventually happen.** A removal must end up on record, a
  capture must be decided, the mirror, the connection, the embedding backlog and
  the bridge's consumer must catch up.

`PROJECT.json` lists each hazard at its line with the properties aimed at it.

What makes each component correct:

- archive pipeline: mail removed by the deleter is in the archive, in the version
  removed; only verified mail past its grace period is removed; audit records are
  true; a tombstone is final;
- deleter accounting: the result partitions the eligible rows and hides nothing;
- dispatch: what leaves the mailbox was confirmed as it leaves; tokens are spent
  once; the hourly cap holds;
- archive policy: no setting and no clock lets a message go within a day of its
  verification, or past a backup hold;
- sync engine: a saved token is never ahead of the rows, and the mirror converges
  to the mailbox after any failed pass;
- read path: a miss is a real one, an error names the part that is down, and the
  mirror answers alone when it can;
- audit: the verifier reports a break exactly when a line was taken out;
- aliases: an alias denotes one item for ever, across moves;
- links: a link is honoured at most once, and lives until then;
- connection manager: it ends warm on a session that works, and no caller is
  handed folders of an earlier one;
- embedding: chunks are those of the body, and the backlog drains;
- bridge: a reader that follows its cursor misses nothing, and a mail keeps its
  identity.

## 2. Modules

| Module | What it is | Code |
|---|---|---|
| `MailArchive` | the pipeline, its rows, files and mailbox | `archive/*.py`, archive part of `cache/store.py` |
| `Custody` | what the pipeline promises, abstractly | |
| `MCMailArchive` | instances for TLC: which files each version of a message stores | |
| `MailArchiveProofs` | inductive invariant, theorems, refinement | |
| `DeleterRun` | counters and early stops of one `Deleter.run` | `archive/delete.py` |
| `DeleterRunProofs` | its ledger invariant and theorems | |
| `ConfirmGate` | dispatcher, confirm tokens, `send_draft`, idempotency, rate cap, circuit | `tools/base.py`, `confirm.py`, `tools/writes.py` |
| `ConfirmGateProofs` | its inductive invariant and theorems | |
| `MCConfirmGate` | symmetry for TLC | |
| `Mirror` | the sync engine, the message tools and the body repair over `ews.messages` | `cache/sync.py`, `tools/writes.py`, `src/scripts/backfill_bodies.py` |
| `MCMirror` | two folders, an item id in each or, for a run by hand, both in the inbox | |
| `MirrorProofs` | its inductive invariant and theorems | |
| `Reads` | one read through the MCP and ewsd | `mcp/*.py`, `tools/{mail_read,cache_reads,archive,tasks}.py` |
| `Connection` | account, folder cache, warm-up, heartbeat, reset ladder | `gateway/*.py`, `server.py` |
| `Links` | capability links and the routes that redeem them | `uploads.py`, `downloads.py`, `http.py` |
| `AuditLog` | the hash chain and its verifier | `audit.py`, `src/scripts/verify_audit_chain.py` |
| `Embed` | the embed lane over bodies and chunks | `archive/embed.py`, `semantic.py`, `embeddings.py` |
| `Aliaser` | alias transactions | `ids.py` |
| `Tasks` | the slow lane and `update_task` | `cache/sync.py`, `tools/tasks.py` |
| `Rails` | cutoffs, grace, backup hold against a clock | `archive/policy.py` |
| `Bridge` | the arrival ledger, polls and their consumer | `bridge/*.py` |
| `Platform` | the nine modules above side by side, from `Reads` on | |
| `MCPlatform` | its instances for TLC | |
| `AccessProofs` | invariants and theorems of `Reads`, `Connection` and `Links` | |
| `StoreProofs` | those of `Rails`, `Aliaser`, `Embed`, `AuditLog` and `Tasks` | |
| `BridgeProofs` | those of `Bridge` | |
| `PlatformProofs` | `Platform` implements each of its parts | |

### MailArchive

The pass is one sequential process (`ArchiveRunner._lock`) with a program
counter `pc`; `c_*`, `v_*`, `g_*` and `d_*` are the points of the capture,
verify, gc and delete lanes at which another task can run. `batch`, `cur`,
`byId`, `seen`, `good`, `done`, `stale` and `keep` are the pass's locals. The
row variables are columns of `ews.messages`, `attachments` is the inventory in
`ews.attachments`, and `file` is the state of each content-addressed file: good,
rotten (right size, wrong bytes) or absent (or short). A changekey is a version
number, 0 for NULL or for an item that is gone. Store methods that the lanes
share (`mark_captured`, `mark_verified`, `reset_to_live`, `demote_to_captured`,
`mark_deleted`, `apply_server_deletes`, `upsert_messages`) are operators with
the WHERE clause of their SQL as a condition on the row.

Failure paths are actions of their own: a store that raises in the middle of a
capture and the undo that fails too, a verify or delete that cannot fetch, a
delete whose answer is lost, a requeue or persist that fails, an abort of the
pass, a crash at any point. `DiskDecay` loses or corrupts a file, `UserEdit`,
`UserDelete` and `FolderVanishes` are the owner, `SyncUpsert`, `SyncDelete` and
`SyncDropsFolder` the sync engine as archived rows feel it, `WriteThrough` a
delete tool. `DeleteCheck` demotes what fails the disk check or makes it raise, an
intact copy included. The history variables `purged`, `late` and `raced` exist for the
properties only.

The verifier's queue has its order: `older` relates each archived row to those captured
before it, and `captured_rows` is a page of the oldest. The order is kept only where it
can matter, when the page may be smaller than the set of messages (`OnePage`). A row
that is demoted keeps its place, one that is reset loses it.

Abstractions: other selections are in any order; attachment bytes are those of the fetched version,
although exchangelib loads some of them lazily; the store compares sizes, not
hashes, when it looks at an existing file, and so does the model; which rows
qualify for capture is a choice; the grace period is an event; a dry, blocked or
held deletion is a skipped lane; a delete that a worker thread finishes after the
task was cancelled is a delete before the crash; calls of `AuditLog.record` count
as records, because it swallows its failures, so `DeletePersist` records any
subset of what it marked.

### DeleterRun

Rows are counted rather than named, so that every size of selection and chunk is
covered. Every await may raise. `malformed` remembers that Exchange answered a
fetch with the wrong number of items, which `zip(strict=True)` turns into an
exception after some items of the chunk were deleted; `ResultTellsAll` and
`NeverSilentlyDropped` leave those runs aside.

### ConfirmGate

`dispatch()` runs on one event loop, so what lies between two awaits is one
step: up to the preview (`Begin`), the fetch (`PreviewFetch`), the gate with the
rate guard and the handler's prelude (`GateStep`, or `BeginAct` for tools whose
token binds their arguments), the call on the EWS pool (`WorkDone`, `WorkLost`,
`UpstreamFails`, `Refused`), and the receipt (`Record`). `Replay` is the call
that skips the gate. Time advances in ticks, `Ticks` of them per second, so that
comparisons in whole seconds and in fractions differ. A token is the record of
what its HMAC binds; `secret` is the boot it was minted in, or 0 for all boots
when `SEND_CONFIRM_SECRET` is set. `Contents` are what `content_hash` tells
apart: attachments are not hashed, so they are outside it. A request names its
draft by alias or by raw id (`form`), because the gate and the idempotency
lookup see the caller's form and the handler the resolved one.

Kill-switch, tier, recipient guard and cold gate depend on settings or on the
connection alone and refuse without changing this state; they are taken to pass.
Confirmed tools of other classes (`cancel_event`, `delete_messages`, invitations)
differ by not passing the rate guard. The audit record at the end of every
dispatch belongs to the audit chain.

### Mirror

Exchange numbers its changes (`head`); an item carries the number of its birth,
its last change and its last read-flag change, and a sync token is such a number.
`SyncFolderItems` reports what changed after the token, each page from the mailbox
as it is then, and says nothing of an item that came and went since. Between two
pages of a pass the sync state is one per item (`told`: the number each item was last
reported at), since a change may fall behind what was already reported and must still
be reported; when Exchange has nothing more, `pos` is the number all of it stands
for, and the token to save. `eng` is the engine: its program counter, the folder set
it knows, the folders that vanished, and the buffers of one folder's pass (`ups`,
`dels`, `rf`). One flush is three
steps (`FlushUpserts` with the hydration of the bodies, `FlushDeletes`,
`FlushReadFlags`), because each is a transaction of its own; `SaveToken` follows
the last. `FolderFails`, `CleanUpFails` and `Crash` cut a pass at each step.
`SetRead`, `SetMeta`, `DeleteMessage` and `MoveMessage` are the tools' EWS calls;
`WriteThrough` is the patch of the mirror that follows, in any later state.
`RepairBody` is the script. The clean-up of a vanished folder is two steps, its rows
(`DropRows`) and its token (`DropToken`). Rows in the archive are left to `MailArchive`. `late`
and `orphans` are history: what the code is known to write over a newer value.

### Reads

One request of one tool, with its step (`read.at`): the MCP resolves the alias,
tries the mirror and probes it when it failed, forwards to ewsd, whose cold gate,
resolution, mirror or archive lookup and call to Exchange follow. Each of
Postgres, ewsd and Exchange may go or come back between two steps, and so may the
message be synced, captured, verified, removed by the deleter or deleted by its
owner. A tool that looks twice has two steps: `get_thread` reads the row and later the
rows of the conversation it named (NULL, or rewritten by an upsert, `Resync`), and the
two archive tools read the row and later the inventory and the file. A capture is two
transactions (`Capture`, `Inventory`); the second may never come, a `Reset` undoes both,
and the disk may lose the files. `hist` remembers what was down, missing or incomplete
at any moment of this read.

A read starts from any state the message can be in, and what happens after an answer
is reordered before the next question. Moves of the message that the tool in flight
cannot tell from standing still are left out while it is in flight (`Of`), and a
question that depends on the message alone is asked apart from one that depends on
the lanes, and of a message in a conversation only `get_thread` is asked (`Ask`); all
of these only cut down interleavings of independent steps. A listing is
one table; a search runs over one folder; rows are taken to be well formed (a shape that
makes the formatter raise is a miss in the code); the circuit breaker and requests for
attachments the message does not have are left out.

### Connection

Sessions are numbered. An outage may leave the cached one wedged. `Manager` is the
single task of the connection manager, which alternates between the warm-up loop,
`on_warm` and the heartbeat; every third failure resets. Pool threads (`caller`)
take the account, look into the folder cache, walk the folders and store the walk, whole
or as far as it got; `straddled` marks one that a reset overtook. A reset is three steps:
`Drop` takes the account away under its lock, `ClearProtocol` forgets exchangelib's
protocol, `ClearFolders` empties the folder cache, and callers move in between. `proto`
is that protocol: an account built before it is forgotten inherits a wedged one.

### Links

A link is its file: absent, blank (truncated and not written), fresh or used.
Upload redemption writes the body and then the record; `PutFails` stops the first
write, `Put(t, FALSE)` is a client that hung up. Either redemption may have its rewrite
of the record fail, tear or be cut off by the death of ewsd (`RewriteFails`), and so may
each mint. `mint` opens a file in one step and writes it in another; after each mint of a
download a sweep thread lists the directory when it gets to run, reads each file in one
step and unlinks it in another, beside later mints and other sweeps. A link counts as
handed out from the write of its record on, before the sweep of its own request has ended.

### AuditLog

`record` advances the head, appends the line and rewrites `chain.state`, under a
lock, in three steps; a crash may fall between any two and each write may fail or
tear. A digest is the sequence of records it covers. `Erase` takes a line out.
`Breaks` is the verifying script, by the index of a line: `Readable` are the lines
that parse, `Anchor` the hash a line has to follow.

### Embed

The pass pages through the backlog, plans chunks from the bodies it read, sends
requests of whole messages and stores them one message after another. Plan and
request are sets of a message and the body it was read with, taken in the order of
the messages (`First`). Bodies are
version numbers, 0 for a message without text. The start may be the database as
migration 004 leaves it, with a message whose stamp is cleared and whose chunks are
there. The service may be down, or refuse
one message for good.

### Aliaser

Two connections run `alias_for`, `rebind` and `resolve` statement by statement under
READ COMMITTED, with the waits of row locks and of the unique index. An item has
one id before its move and another after.

### Tasks

The slow lane: the calendar window, replaced whole, and the task folder, by token;
`update_task` with a save that may fail half-way. It refutes the write-through
that `tools/tasks.py` announces (section 4).

### Rails

One message, a clock in half days, every combination of settings (negative ones
included), any `before` the caller passes and a backup marker that comes when it
comes. `exit` records the deletion.

### Bridge

Each poll is a transaction: BEGIN fixes `now()`, then the advisory lock, the sweep,
the page and COMMIT. The consumer is the one the contract describes: it walks old
mail bounded by `until`, keeps the cursor of the first short page, then reads
everything; it may abandon a poll, which goes on without it. The database may be
rebuilt under a new generation. An upsert rewrites `date_ts` (which may be NULL) and the
conversation id; a row that is dropped may come back under the same id, as a new arrival
(`MailGoes`, `MailArrives`). `handed` holds what the consumer was given of the rows that
are there, with the `date_ts` it was computed from.

### Platform

The nine modules share no variable, so a property of one depends on its own steps
alone. `focus`, chosen at the start, says which part moves; the others stand
still. The state space is then the sum of the parts' and not their product, and
nothing is lost: every behaviour of one part is a behaviour of `Platform`. Where
parts do meet in the code, the meeting point is inside one of them: sync and
archive events are actions of `Reads`, body updates of `Embed`, arrivals of
`Bridge`.

## 3. Runs

| Run | Instance | States | What it shows |
|---|---|---|---|
| `archive_safety` | one message, two versions, two fragile files | 124 thousand | `TypeOK`, `CopyIsOfPurgedVersion`, `InventoryNotStale`, `TombstoneIsFinal`, and `CustodyKept`: the pipeline implements `Custody` |
| `archive_two` | two messages sharing a blob, chunks of one | 2.8 million | `NoLoss`, `AuditIsTrue`, `PurgeOnlyVerified` across chunks, sweep and sync |
| `archive_liveness` | two deliveries of one mail without attachments, the edited version of one too large to archive, a verifier that takes one row | 373 thousand | `PurgeIsRecorded`, `CaptureIsDecided` |
| `archive_inventory` | violation | | a verified row without its inventory |
| `deleter_run` | up to five rows, chunks of two | 1.9 thousand | `ResultPartitions`, `ResultTellsAll`, `SkipsAreAudited` |
| `deleter_dropped` | violation | | deleted items that no record or result names |
| `gate` | two dispatches, one draft, one argument-bound call, one key | 2.3 million | `SentIsConfirmed`, `ReuseOnlyAtExpiry`, `RateHolds` |
| `gate_single_use` | violation | | a spent token accepted again before it expires |
| `gate_replay` | violation | | a retry by alias sent to the gate although its receipt is stored |
| `mirror` | two items, two folders, three changes, one fault | 1.3 million | `TokenBehindRows`, `ContentBehindToken`, `OrphansOnlyByFault`, `MirrorCatchesUp` |
| `platform` | the nine parts, one at a time | 824 thousand | `NoFalseMiss`, `BlameIsRight`, `MirrorServesAlone` (Reads); `FoldersOfThisSession`, `ConnectionRecovers` (Connection); `SpentOnceAndStored`, `LinkLives` (Links); `VerifyIsExact` (AuditLog); `ChunksCurrent`, `EmbeddingRecovers` (Embed); `AliasMeansItem` (Aliaser); `RailsHold` (Rails); `NothingBehindCursor`, `UntilIsPrefix`, `IdentityStable`, `BridgeRecovers` (Bridge) |
| `task_write_through` | violation | | `update_task` leaves the mirrored task as it was |

The bounds. Two versions are enough for every mismatch between what was
captured, what was verified and what is deleted; a third only repeats the second.
Two messages are enough for sharing of a blob, for a chunk that succeeds beside
one that fails, and for a sweep that runs for one message over the files of the
other. A page of one row and two messages is the smallest queue in which an undecidable row
starves a later one; `CaptureIsDecided` excepts that case and no smaller one, and
without the exception TLC refutes it. Five rows in chunks of two give full chunks, a short last chunk and a stop
at each position. In the gate, two dispatches interleave at every await; four
instants of half a second with a time-to-live that ends in the second of minting
put a token before, in and after its last second, and the same four put a send
inside, at the end of and past the window; one restart keeps the secret. The
clock is bounded, and a capped clock with an open circuit can do nothing more, so
`gate` does not check deadlock; neither does `deleter_run`, whose run ends.

In `mirror`, three changes over two items give an edit that overtakes a buffered
page, a delete after an upsert that a failed pass left behind and a move between
the folders; a flush after every second change gives a flush in the middle of a
delta and one at its end; one fault falls at every step. With an item in each folder
no page holds two items, so the same run was also made with both items in the inbox
(`Home <- MCOneFolder`, 1.2 million states) and with both in the other folder (1.1
million): all five properties hold there too. The mailbox starts with
one item, and the database empty or left by a version without flags. In
`platform`, each part has two of whatever contends (callers, links of each kind,
connections, pollers, mails) and two of whatever fails, except one abort of an
alias transaction and one mishap of the embed lane, which already fall at every
step. Three moves take a mirrored message through capture and its reset, or
through capture, grace and demotion; five sessions are two resets and what callers build in the middle
of them; two mishaps tear the records of two links, or cut off a link's mint and another's
redemption; the mail that is there first has a send time or none and may gain or lose it, and two changes of
the store revive, amend or re-date it between two polls. Three messages in requests of two give a full and a short request. The bridge's
invariants were also checked alone with three events (1.9 million states), and with dates
for both mails (327 thousand): they hold there too. Horizons
and counters run out in `platform`, so it does not check deadlock; nor does
`task_write_through`. `mirror` does.

Fairness (`FairSpec` of `MailArchive`). `SyncEngine._loop` and
`ArchiveRunner._loop` catch every exception and go on for ever, hence weak
fairness of `SyncDelete` and of the steps of a pass, and strong fairness of the
start of a full pass, which other kinds of run on request may precede. Failures
are assumed to cease: from some point on no pass is cut short. Without that an
outage that returns in each pass defeats every promise. `FairSpec` asks nothing of
the owner, of failures or of the disk.

`FairSpec` of `Mirror`: weak fairness of the engine's steps, whose loop catches
everything and goes on, and strong fairness of `WalkHierarchy`, since the
hierarchy falls due again and again while item passes go on in between. Faults and
changes are bounded, so they cease. `ConnFairness`: the manager's loops run for
ever on the event loop, and Exchange comes back. `EmbedFairness`: the runner begins
a pass every cycle, and the service returns. `BridgeFairness`: the consumer polls as
long as it runs and is answered in the end, Postgres grants the lock to everyone
who waits, and a transaction that has swept ends; strong fairness of a sweep,
because others may hold the lock in between.

## 4. What the violations say

Each is written up in `PROJECT.json` with the line it contradicts.

1. `archive_inventory`: `mark_captured` and `replace_attachments` are two
   transactions. A crash between them, or an outage that also fails the undo,
   leaves a captured row without inventory; the verifier only checks what the
   inventory lists and promotes it. The attachments survive inside the `.eml`
   only.
2. `deleter_dropped`: `_requeue` writes the database between the hard delete and
   the persist step, outside any `try`. When it raises, the items this chunk
   deleted are neither marked, audited nor reported.
3. `gate_single_use`: the registry of spent tokens is pruned in fractions of a
   second, expiry is compared in whole ones: for the fraction in between, the
   last second of its life, a spent token verifies and is no longer on record.
4. `gate_replay`: `_send_confirm_needed` compares the receipt's raw id with the
   caller's alias.
5. `task_write_through`: `update_task` reads the mirrored row through a method the
   store does not have and swallows the error, so it never writes it.

Things met on the way that the properties state as exceptions, or that no document
contradicts:

- archive: a captured row whose folder is removed stays `captured` for ever, and 25 of them
  hold the verifier's page, oldest first, against every later capture (`Stuck`);
- mirror: `_update_messages` writes categories and flags through even when the save
  raised; a late write-through, or a read flag buffered before an update of the same
  item, is written over a newer value (`late`); a body that could not be hydrated is
  stored empty over the one that was there; the one-time flag backfill misses for
  ever the ids GetItem failed for; a row written by a pass that then failed outlives
  an item deleted before the next pass (`ghost`; tasks alike); a crash between
  `replace_folders` and the clean-up strands the rows of the vanished folders;
- embedding: `upsert_messages` never clears `embedded_at`, and a body that changes
  between planning and storing is stamped with chunks of the old one; `ChunksCurrent`
  excepts exactly these (`stale`); a
  message the service refuses fails its whole request in every pass;
- bridge: `first_seen` is the start of a transaction that may have waited for the
  lock, so it can run against `seq`; `UntilIsPrefix` and `NothingBehindCursor` except exactly
  the runs in which that happened (`overtaken`); a mail that is dropped and comes back under
  its id has a new chat, arrival and, without a date, send time; a mail whose `date_ts` is
  rewritten changes its `sent_at`;
- audit: a failed or torn write is later reported as a break; erasing every line
  leaves exit code 0; an unreadable `chain.state` restarts the chain at GENESIS,
  which the verifier accepts;
- links: a client that hangs up in an upload redeems what had arrived; a download
  link is spent before the stream, although the note in `tools/archive.py` says
  "first successful GET"; a sweep thread can take a link that is being minted; records are
  rewritten in place, so a failed or cut-off rewrite leaves a blank record and a link that
  was never honoured and answers 404 (`torn`);
- connection: a folder walk that outlives a reset fills the new session's cache; between
  the first and the last step of a reset a new session is handed the old folders;
  `on_warm` is never retried;
- aliases: without Postgres `resolve` fails open, so a read may end as `not_found`;
- reads: `get_thread` answers `not_found` for a mirrored row without `conversation_id`, or
  one that left its conversation between the two lookups, although its docstring
  (`tools/cache_reads.py:372`) speaks of a seed that is not mirrored; `get_attachment`
  answers `not_found` for a captured row whose inventory is not stored yet, or never will
  be, although the mail is on the server; an archived message asked for with `get_message` while Postgres is down is
  `not_found`; Postgres errors in `get_attachment` and `get_raw_message` feed the
  circuit breaker of Exchange.

## 5. Proofs

All theorems hold for every value of the constants that satisfies the named
assumptions: `ConstantsAssumption` (sizes are positive, each version of each
message has a file and a set of blobs), `SizesAssumption` (a positive chunk
size), `GateAssumption` (positive cap, threshold and ticks; drafts and argument
sets differ), `RailsAssumption` (settings are integers, limits natural numbers),
`ConnectionAssumption` (a positive reset interval), `LinksAssumption` (upload and
download tokens differ), `MirrorAssumption` (a positive flush size, every item in a
folder, the inbox one of them), `BridgeAssumption` (a positive page size, finitely
many mails, for each a set of numbers as its possible dates), `EmbedAssumption` (positive page, batch and attempts), `TasksAssumption`
(a task has at least one version); `ReadsAssumption`, `AliasAssumption` and
`AuditAssumption` only say that the bounds on faults are numbers. The bounds that cap
counters for TLC are constants like the others, so no theorem depends on their size.

**MailArchiveProofs.** The properties are not inductive: that a sweep keeps a
copy depends on when it read the references, that a delete is safe on what the
disk check saw two steps earlier. `Inv` is `TypeOK` with

- `RowsOK`: an archived row names the files of the version it was captured at,
  and has no inventory or that version's;
- `GoneOK`: what is gone from the mailbox is on its way to a tombstone (already
  one, noticed, in the hands of the pass, or vanished with its folder);
- `PurgedOK`: what the deleter removed has a copy, of that version unless edited
  in the window, with its files good unless lost after the check;
- `AuditOK`: an audited item was removed and its row is a tombstone;
- `CaptureOK`, `VerifyOK`, `GcOK`, `DeleteOK`: what each lane has established at
  each of its program points and may rely on at the next.

`RowMoves`, `ItemMoves` and `FileMoves` say once how any step may move a row, an
item or a file; the lemma for each part of `Inv` then rests on them and on the few
actions that can disturb it, instead of on a case per action. From `Inv` follow
`TypeCorrect`, `MailIsNotLost`, `CopyMatches`, `InventoryMatches`, `AuditTrue`,
and the action properties `PurgesAreVerified` and `TombstonesAreFinal`.
`ImplementsCustody` shows each step to be a step or a stutter of `Custody`, with
`exch` for `inbox` and `captured_changekey` for `kept`.

**DeleterRunProofs.** `Ledger` relates the counters at each program point: what
is deleted, failed, unrecorded and recorded adds up to the rows gone through. It
gives `RunTyped`, `Partitions`, `TellsAll` and `SkipsAudited` for every batch size.

**ConfirmGateProofs.** `Inv` adds to `TypeOK` and the three properties

- `CallsOK`: a call at the gate holds the draft's content, or an edit was noted,
  or the draft went away; a call at work was `Confirmed`, or is a replay whose
  receipt expired on the way, and then its draft has gone, so it cannot send;
- `ReceiptsOK`: a stored receipt is of a draft that has gone;
- `RateOK`: the deque is the tail of all passes, and what was dropped from it is
  out of the window (`Account`, about sequences only);
- `UsedOK`: a used token is on record, or was pruned after its expiry, or was
  forgotten with or without its secret.

The lemmas `ExecuteEffect` and `GateEffect` say what the rate guard and the gate
do; `FinishStep` and `ToWorkStep` turn them into steps. `SecondEnds` is the
arithmetic of whole seconds. Results: `NothingUnconfirmed`, `ReuseOnlyAtSeams`,
`CapHolds`, `GateTyped`.

**MirrorProofs.** A saved token says that every change up to it is in the rows. In
the middle of a pass that is neither true of the token to come nor visible in the
rows, so `MirrorInv` states it of `As(i)`, what is known of item i: the number the
pass was told, or else the token of its folder.

- `SrvOK`, `WriteOK`: numbers on Exchange are of changes made; a tombstone in flight
  is of an item that is gone;
- `EngOK`: at each program point, which buffers may be full, and that everything in
  them was reported since the folder's token;
- `Complete`: once Exchange has nothing more, `told` covers every change up to `pos`;
- `Presence`, `Meta`, `Body`, `Read` (for each item): what is known of it is in its
  row, in the buffer that will be written before the token, or noted as `late`;
- `FoldersStayGone`: a folder that went does not come back, so dropping its rows and then
  its token leaves nothing to be reported in between;
- `Vouched`: no row comes from nowhere. It is there for the items that came and went
  between two passes, of which Exchange never reports anything.

There is a lemma per action. `ExchangeKeeps` and `ToolWrites` cover the changes made
on Exchange by the owner and by the tools, `EngineFields` the steps that move the
engine alone; `SaveTokenKeeps` is where `Complete` turns into the token. Results:
`MirrorTyped`, `TokenNeverAheadOfRows`, `TokenNeverAheadOfContent`,
`NoOrphanWithoutFault`. The proof attempt found the model wrong where the pass kept
one position for the whole folder: a change that overtook a reported page was lost in
the model and is not by the server. `told` replaced it, and the run with
both items in one folder reaches the case.

**BridgeProofs.** `BridgeInv` rests on the advisory lock: at most one transaction has
swept, and what it has drawn and not committed (`Follows`) comes after every
committed number and after the cursor, with a time no earlier unless it was
`overtaken`. A row goes only when no transaction has written its arrival, which is the
lock it waits for, so what was handed out stays what the ledger says. `LedgerOK` keeps numbers distinct and below the sequence, `ConsOK` the
cursor within the ledger of its generation, `HandedOK` what was handed out equal to
what the ledger says. `TxMovesKeeps` covers every step of a transaction that commits
nothing. Results: `BridgeTyped`, `CursorLeavesNothingBehind`, `UntilCutsAPrefix`,
`MailKeepsItsIdentity`.

**AccessProofs.**

- *Reads.* A read answers from what it learned several steps ago, so `ReadInv`
  carries what each step implies about the past of the read: `KnownOK` (past the
  mirror a message had no row or Postgres was down), `LookupOK` (between its two lookups a
  message keeps its conversation, or its place in the archive, unless the history says
  otherwise), `RouteOK` (which tools get
  where), `ServerOK` (at the call to Exchange the copy is on the server unless it was
  captured, pulled or gone) and `LivedOK` (history knows at least the present). Steps
  of the surroundings only add to the history (`MeanwhileKeeps`). Results:
  `NoReadFalselyMisses`, `ReadErrorsNameTheFault`, `MirrorAnswersAlone`.
- *Connection.* A folder cache is of the current session because a thread that no
  reset has overtaken works with the current session (`CallersOK`); the first step of a
  reset marks all others, and the last one empties what they and the callers in between
  left. `FiredOnce` makes the types inductive: the loop is at the callback only if
  it has not fired. Results: `FoldersMatchSession`, `ConnTyped`.
- *Links.* `RecordsOK` says what a link's file tells of its past (blank is being minted,
  or torn), `MintingOK` that a link being minted is nobody's yet and that at most one is,
  `DoomedOK` that what any of the sweeps is about to unlink no one can miss, `StoredOK`
  that a used upload link left its body behind. Sweeps, mints and rewrites are two steps
  each, which is why the last three are needed. Results: `HonouredOnce`, `LinksLive`,
  `LinksTyped`.

**StoreProofs.**

- *Rails.* `ExitOK` keeps, from the deletion on, what the deletion had to find; with
  the types of clock and settings it is inductive. `GraceIsADay` and
  `CaptureComesFirst` are the arithmetic of `policy.py`. Results: `RailsAreKept`, for
  every setting, hold and horizon, and `RailsTyped`.
- *Aliaser.* `OneHolder` and `OneRebind` are what the row lock of the counter and the
  one move of an item give; `WorkerOK` says what a connection may rely on between two
  of its statements; `RowsOK` and `HandedOut` say that a row is of the item its alias
  was handed out for, and is current, loose or being rebound. `AliasTypeOK` contains
  the uniqueness of aliases and ids, which the table's constraints demand and the
  statements must respect. Results: `AliasKeepsItsItem`, `AliasesTyped`.
- *Embed.* `PlannedIsKnown`: a planned body that is no longer the row's is noted as
  overtaken; with `OneBody` and `GoneIsEmpty` the chunks of a message are those of its
  body, or none under a cleared stamp. Results: `ChunksAreCurrent`, `EmbedTyped`.
- *AuditLog.* `LinesAreLinks` and `AuditBounds` tie the lines, the head and the record
  in hand together; `LostIsAhead` says that after a lost line no line leads to the
  head, so the next record shows as a break (`LostShows`) and nothing later covers it
  up; `CleanRun` says what the files are when no write failed: the lines of the
  records 1 to n (`ChainAt`, `Upto`), all or all but one. Digests are compared as
  sequences, so no induction over the chain is needed. Results: `VerifierIsExact`,
  `AuditTyped`.
- *Tasks.* `TasksTyped`: rows and token only hold versions Exchange has had.

**PlatformProofs.** Every step of `Platform` is a step of one part and leaves the
others alone (`StepOfAPart`), hence `PlatformRunsItsParts`: each part sees a behaviour
of its own specification, and the theorems above hold of the platform.
`PlatformTyped` puts the types together.

TLC finds no state of `mirror`, with the items apart or together, and of `platform` outside the inductive
invariants of their parts.

Every safety invariant, every action property and the refinement that a passing run
checks is now a theorem. Only model-checked: the six liveness properties
(`PurgeIsRecorded`, `CaptureIsDecided`, `MirrorCatchesUp`, `ConnectionRecovers`,
`EmbeddingRecovers`, `BridgeRecovers`), since fairness and ENABLED are out of the
prover's reach. No module here needs induction over data or a RECURSIVE operator.

## 6. Not modelled, and the plan

- Text processing (`bodyclean.py`, `boilerplate.py`, `attachment_text.py`, DTOs):
  character by character, without state but the boilerplate table and the budget of
  its detector.
- Ranking: full-text and hybrid search and rank fusion are queries whose result is an
  order of relevance.
- Write tools that are one call to Exchange and change nothing here: the other draft
  tools, events, out-of-office, people and free/busy (`tools/calendar_people.py`).
- Servers, configuration, migrations and the connection pool: wiring and I/O.
- Gates that depend on settings alone (kill-switch, tier, recipient policy).
- `alias_many` as one transaction over several items.

The plan, in this order:

1. What the liveness arguments rest on, as far as it is safety: that at every program
   point of a pass, of the engine and of a poll the next step is possible, and which
   step brings the goal nearer.
2. `alias_many` as one transaction over several items, and the deadlock of two of them.
