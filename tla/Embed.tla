------------------------------- MODULE Embed -------------------------------
(***************************************************************************)
(* The embedding backlog: the pass of archive/embed.py over the messages   *)
(* without embedded_at, the planning and batching of semantic.py, the      *)
(* retries of embeddings.py, and the writers of ews.messages it runs       *)
(* beside: the sync engine, scripts/backfill_bodies.py and row deletion.   *)
(*                                                                         *)
(* Messages are numbered newest first.  A body is a version number, 0 an   *)
(* empty one; chunks are the version they were cut from, 0 none at all.    *)
(* Every non-empty body is one chunk.                                      *)
(***************************************************************************)
EXTENDS Naturals, FiniteSets, FiniteSetsExt

CONSTANTS Messages,     \* how many messages
          Page, Batch,  \* rows per pass, chunks per request
          MaxAttempts,  \* max_attempts of one request
          MaxBody,      \* bound: versions of a body
          MaxEmbedMishaps   \* bound: outages of the embedder, and crashes

ASSUME EmbedAssumption ==
    /\ {Messages, Page, Batch, MaxAttempts, MaxBody} \subseteq Nat \ {0}
    /\ MaxEmbedMishaps \in Nat

Msgs == 1..Messages

VARIABLES
    row,      \* ews.messages: there, body, stamped (embedded_at), chunks
    version,  \* the newest body version in use, for the writers below
    api,      \* the embedder: up, and the messages it refuses for good
    pass,     \* the pass: at, budget left, rows planned and rows in the request
              \* (both in the order of their numbers), attempts
    ehist     \* history: stale (chunks a writer overtook), mishaps

embedVars == <<row, version, api, pass, ehist>>

NoRow == [there |-> FALSE, body |-> 0, stamped |-> FALSE, chunks |-> 0]
NoPass == [at |-> "idle", left |-> 0, plan |-> {}, request |-> {}, tries |-> 0]

(* A migration may have taken the stamp of the oldest and left its chunks  *)
(* (004_phase3.sql, for short replies).                                    *)
EmbedInit ==
    /\ \E old \in {0, 1} :
         row = [m \in Msgs |->
           IF m = 1 THEN NoRow
           ELSE [NoRow EXCEPT !.there = TRUE, !.body = 1,
                              !.chunks = IF m = Messages THEN old ELSE 0]]
    /\ version = 1
    /\ api \in [up : {TRUE}, refuses : {{}, {Messages}}]
    /\ pass = NoPass
    /\ ehist = [stale |-> {}, mishaps |-> 0]

-----------------------------------------------------------------------------
(* The pass.  unembedded_messages, newest first, up to the budget.         *)
Backlog == {m \in Msgs : row[m].there /\ ~row[m].stamped}

ReadRows(left) ==
    LET n == Min({left, Page, Cardinality(Backlog)})
        rows == {m \in Backlog : Cardinality({x \in Backlog : x < m}) < n}
    IN IF n = 0 THEN NoPass
       ELSE [NoPass EXCEPT !.at = "plan", !.left = left - n,
                           !.plan = {[msg |-> m, body |-> row[m].body] : m \in rows}]

BeginPass ==
    /\ pass.at = "idle" /\ Backlog # {}
    /\ pass' = ReadRows(Page)
    /\ UNCHANGED <<row, version, api, ehist>>

Planned == {p.msg : p \in pass.plan \union pass.request}
First(S) == {p \in S : \A q \in S : p.msg <= q.msg}

(* replace_chunks: chunks and stamp in one transaction; an update of a row *)
(* that is gone touches nothing.                                           *)
Stored(p) ==
    /\ row' = [row EXCEPT ![p.msg] =
          IF @.there THEN [@ EXCEPT !.stamped = TRUE, !.chunks = p.body] ELSE @]
    /\ ehist' = IF row[p.msg].body = p.body
                THEN [ehist EXCEPT !.stale = @ \ {p.msg}] ELSE ehist

(* index_messages: a message without text is done at once, another joins   *)
(* the request; a full request, or the last, goes out.                     *)
PlanEmpty ==
    /\ pass.at = "plan"
    /\ \E p \in First(pass.plan) :
          /\ p.body = 0
          /\ Stored(p)
          /\ pass' = [pass EXCEPT !.plan = @ \ {p}]
    /\ UNCHANGED <<version, api>>

PlanText ==
    /\ pass.at = "plan"
    /\ \E p \in First(pass.plan) :
          /\ p.body # 0
          /\ pass' = IF Cardinality(pass.request) = Batch
                     THEN [pass EXCEPT !.at = "embed", !.tries = 0]
                     ELSE [pass EXCEPT !.request = @ \union {p}, !.plan = @ \ {p}]
    /\ UNCHANGED <<row, version, api, ehist>>

PlanDone ==
    /\ pass.at = "plan" /\ pass.plan = {}
    /\ pass' = IF pass.request # {} THEN [pass EXCEPT !.at = "embed", !.tries = 0]
               ELSE IF pass.left > 0 THEN ReadRows(pass.left) ELSE NoPass
    /\ UNCHANGED <<row, version, api, ehist>>

(* _embed_batch: a refusal fails the request at once, an outage after      *)
(* MaxAttempts; either ends the pass, and the request with it.             *)
Refused == \E p \in pass.request : p.msg \in api.refuses

EmbedOk ==
    /\ pass.at = "embed" /\ api.up /\ ~Refused
    /\ pass' = [pass EXCEPT !.at = "store"]
    /\ UNCHANGED <<row, version, api, ehist>>

EmbedFailsForGood ==
    /\ pass.at = "embed" /\ (Refused \/ ~api.up)
    /\ pass' = IF (api.up /\ Refused) \/ pass.tries + 1 = MaxAttempts
               THEN [pass EXCEPT !.at = "broken"]
               ELSE [pass EXCEPT !.tries = @ + 1]
    /\ UNCHANGED <<row, version, api, ehist>>

EmbedFails ==
    /\ pass.at = "embed" /\ (Refused \/ ~api.up)
    /\ pass' = IF (api.up /\ Refused) \/ pass.tries + 1 = MaxAttempts THEN NoPass
               ELSE [pass EXCEPT !.tries = @ + 1]
    /\ UNCHANGED <<row, version, api, ehist>>

(* _flush: one replace_chunks after another; the foreign key refuses the   *)
(* chunks of a row that has gone meanwhile, and that too ends the pass.    *)
StoreChunks ==
    /\ pass.at = "store"
    /\ \E p \in First(pass.request) :
         IF row[p.msg].there
         THEN /\ Stored(p)
              /\ pass' = [pass EXCEPT !.request = @ \ {p},
                                      !.at = IF pass.request = {p} THEN "plan" ELSE "store"]
         ELSE /\ pass' = NoPass
              /\ UNCHANGED <<row, ehist>>
    /\ UNCHANGED <<version, api>>

PassStep == BeginPass \/ PlanEmpty \/ PlanText \/ PlanDone \/ EmbedOk \/ EmbedFails
            \/ StoreChunks

-----------------------------------------------------------------------------
(* Its surroundings.  A crash ends the pass; the embedder comes and goes.  *)
EmbedCrash ==
    /\ pass.at # "idle" /\ ehist.mishaps < MaxEmbedMishaps
    /\ pass' = NoPass
    /\ ehist' = [ehist EXCEPT !.mishaps = @ + 1]
    /\ UNCHANGED <<row, version, api>>

ApiDown ==
    /\ api.up /\ ehist.mishaps < MaxEmbedMishaps
    /\ api' = [api EXCEPT !.up = FALSE]
    /\ ehist' = [ehist EXCEPT !.mishaps = @ + 1]
    /\ UNCHANGED <<row, version, pass>>

ApiUp ==
    /\ ~api.up
    /\ api' = [api EXCEPT !.up = TRUE]
    /\ UNCHANGED <<row, version, pass, ehist>>

Bodies == 0..MaxBody

(* upsert_messages writes the body and leaves embedded_at and the chunks   *)
(* as they are.                                                            *)
Upsert(m) ==
    /\ version < MaxBody
    /\ version' = version + 1
    /\ row' = [row EXCEPT ![m] = [@ EXCEPT !.there = TRUE, !.body = version + 1]]
    /\ ehist' = IF row[m].stamped \/ row[m].chunks # 0 \/ m \in Planned
                THEN [ehist EXCEPT !.stale = @ \union {m}] ELSE ehist
    /\ UNCHANGED <<api, pass>>

UpdateBodyOnly(m, b) ==
    /\ row[m].there /\ (b = 0 \/ (b = version + 1 /\ version < MaxBody)) /\ b # row[m].body
    /\ version' = IF b = 0 THEN version ELSE b
    /\ row' = [row EXCEPT ![m].body = b]
    /\ ehist' = [ehist EXCEPT !.stale =
                   IF m \in Planned THEN @ \union {m} ELSE @ \ {m}]
    /\ UNCHANGED <<api, pass>>

(* update_bodies, from the backfill script: a body that differs, or turns  *)
(* out empty, goes with its chunks and its stamp.                          *)
UpdateBody(m, b) ==
    /\ row[m].there /\ (b = 0 \/ (b = version + 1 /\ version < MaxBody)) /\ b # row[m].body
    /\ version' = IF b = 0 THEN version ELSE b
    /\ row' = [row EXCEPT ![m] = [@ EXCEPT !.body = b, !.stamped = FALSE, !.chunks = 0]]
    /\ ehist' = [ehist EXCEPT !.stale =
                   IF m \in Planned THEN @ \union {m} ELSE @ \ {m}]
    /\ UNCHANGED <<api, pass>>

(* apply_server_deletes and tombstone_messages remove live rows; the       *)
(* chunks follow by the foreign key.                                       *)
DeleteRow(m) ==
    /\ row[m].there
    /\ row' = [row EXCEPT ![m] = NoRow]
    /\ ehist' = [ehist EXCEPT !.stale = IF m \in Planned THEN @ ELSE @ \ {m}]
    /\ UNCHANGED <<version, api, pass>>

EmbedNext ==
    \/ PassStep \/ EmbedCrash \/ ApiDown \/ ApiUp
    \/ \E m \in Msgs : Upsert(m) \/ DeleteRow(m) \/ \E b \in Bodies : UpdateBody(m, b)

EmbedSpec == EmbedInit /\ [][EmbedNext]_embedVars

-----------------------------------------------------------------------------
EmbedRow == [there : BOOLEAN, body : Bodies, stamped : BOOLEAN, chunks : Bodies]
Entry == [msg : Msgs, body : Bodies]

EmbedTypeOK ==
    /\ row \in [Msgs -> EmbedRow] /\ version \in Bodies
    /\ api \in [up : BOOLEAN, refuses : SUBSET Msgs]
    /\ pass \in [at : {"idle", "plan", "embed", "store"}, left : 0..Page - 1,
                 plan : SUBSET Entry, request : SUBSET Entry, tries : 0..MaxAttempts - 1]
    /\ Cardinality(pass.request) <= Batch
    /\ ehist \in [stale : SUBSET Msgs, mishaps : 0..MaxEmbedMishaps]

(* What semantic search finds for a message was cut from the body it has,  *)
(* and a message whose chunks are missing is still in the backlog: no      *)
(* crash, refused request or half-stored batch leaves a message with other *)
(* chunks than its own (store.py:728, semantic.py:83) - unless its body    *)
(* changed between planning and storing, or the sync engine rewrote it     *)
(* over existing chunks.                                                   *)
ChunksCurrent ==
    \A m \in Msgs : m \notin ehist.stale =>
      \/ row[m].chunks = row[m].body
      \/ row[m].chunks = 0 /\ ~row[m].stamped

(* With no message the embedder refuses for good, every message is         *)
(* embedded in the end: an outage or a crash loses a pass, never a message.*)
BacklogDrains ==
    api.refuses = {} => <>[](\A m \in Msgs : row[m].there => row[m].stamped)
=============================================================================
