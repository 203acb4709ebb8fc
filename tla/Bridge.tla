------------------------------- MODULE Bridge -------------------------------
(***************************************************************************)
(* The mail bridge: ews.bridge_arrival, the order in which the store       *)
(* learned of its mail (bridge/arrival.py), and the /messages and /chats   *)
(* routes over it (bridge/app.py, bridge/mapping.py).                      *)
(*                                                                         *)
(* Every poll of /messages is one Postgres transaction of a worker: BEGIN  *)
(* (which fixes now()), the advisory lock, the sweep, the page, COMMIT.    *)
(* nextval is not transactional: numbers of a rolled-back sweep are gone.  *)
(*                                                                         *)
(* The consumer is the one the contract describes: it walks old mail in    *)
(* pages bounded by `until' without posting it, keeps the cursor of the    *)
(* first short page, and from there on reads everything.                   *)
(***************************************************************************)
EXTENDS Naturals, FiniteSets, FiniteSetsExt

CONSTANTS Mails,      \* EWS ids
          Pollers,    \* uvicorn workers
          Dates,      \* per mail, what its row's date_ts may be; 0, NULL
          Present,    \* the mail in the store when migration 005 runs
          Edge,       \* `until': where the consumer's window begins
          Limit,      \* rows on a page
          MaxTime,    \* bound: the clock
          MaxKey,     \* bound: amendments, as changekeys
          MaxGen,     \* bound: rebuilds of the store
          MaxEvents   \* bound: changes of the store, failed transactions and
                      \* abandoned polls

ASSUME BridgeAssumption ==
    /\ IsFiniteSet(Mails)
    /\ Dates \in [Mails -> SUBSET Nat]
    /\ Present \subseteq Mails
    /\ {Limit, MaxTime, MaxKey, MaxGen} \subseteq Nat \ {0}
    /\ {Edge, MaxEvents} \subseteq Nat

VARIABLES
    mail,      \* ews.messages
    ledger,    \* ews.bridge_arrival; seq 0, no row
    nextseq,   \* ews.bridge_arrival_seq
    gen,       \* ews.bridge_meta.generation
    clock,
    happened,  \* such events so far
    tx,        \* each worker's transaction
    cons,      \* the consumer: its cursor and its poll in flight
    got,       \* history: sequence numbers posted by the consumer
    handed,    \* history: <<mail, chat, date_ts, sent_at>> the consumer was
               \* given of the rows that are there
    overtaken  \* history: a sweep wrote after one that began later

bridgeVars == <<mail, ledger, nextseq, gen, clock, happened, tx, cons, got,
          handed, overtaken>>

-----------------------------------------------------------------------------
Seqs == Nat                    \* bigint
Times == 0..MaxTime
Chats == {"none", "conversation", "own"}

Arrival == [seq : Seqs, key : 0..MaxKey, seen : Times, first : Times, chat : Chats]
Cursor == [gen : 0..MaxGen, seq : Seqs]     \* gen 0: no cursor

NoArrival == [seq |-> 0, key |-> 0, seen |-> 0, first |-> 0, chat |-> "none"]
NoCursor == [gen |-> 0, seq |-> 0]
Row == [there : BOOLEAN, key : 0..MaxKey, conv : BOOLEAN, date : Nat]
NoMail == [there |-> FALSE, key |-> 0, conv |-> FALSE, date |-> 0]
NoTx == [pc |-> "idle", start |-> 0, since |-> NoCursor, bounded |-> FALSE,
         mine |-> FALSE, new |-> [m \in Mails |-> NoArrival]]
Fresh == [phase |-> "boot", cur |-> NoCursor]

Tx == [pc : {"idle", "begun", "swept"}, start : Times, since : Cursor,
       bounded : BOOLEAN, mine : BOOLEAN,
       new : [Mails -> Arrival]]            \* written, not committed

BridgeTypeOK ==
    /\ mail \in [Mails -> Row]
    /\ ledger \in [Mails -> Arrival]
    /\ nextseq \in Seqs
    /\ gen \in 1..MaxGen
    /\ clock \in Times
    /\ happened \in 0..MaxEvents
    /\ tx \in [Pollers -> Tx]
    /\ cons \in [phase : {"boot", "live"}, cur : Cursor]
    /\ got \subseteq Seqs
    /\ handed \subseteq (Mails \X Chats \X Nat \X Nat)
    /\ overtaken \in BOOLEAN

(* Mutant: the conversation id, which may be NULL. *)
chat_uncoalesced(m) == IF mail[m].conv THEN "conversation" ELSE "null"

(* coalesce(conversation_id, ews_id). *)
chat_native_id(m) == IF mail[m].conv THEN "conversation" ELSE "own"

(* Migration 005: the mail of the store that is there gets its arrival from *)
(* its send date, clamped to now, and its number from the same order.       *)
BridgeInit ==
    /\ clock = 1
    /\ happened = 0
    /\ \E d \in [Present -> UNION {Dates[m] : m \in Present}] :
         /\ \A m \in Present : d[m] \in Dates[m]
         /\ mail = [m \in Mails |->
                     IF m \in Present
                     THEN [there |-> TRUE, key |-> 1, conv |-> FALSE, date |-> d[m]]
                     ELSE NoMail]
    /\ LET at(m) == IF mail[m].date = 0 THEN clock ELSE Min({mail[m].date, clock})
       IN \E rank \in [Present -> 1..Cardinality(Present)] :
            /\ \A m, k \in Present : m # k => rank[m] # rank[k]
            /\ \A m, k \in Present : at(m) < at(k) => rank[m] < rank[k]
            /\ ledger = [m \in Mails |->
                          IF m \in Present
                          THEN [seq |-> rank[m], key |-> 1, seen |-> at(m),
                                first |-> at(m), chat |-> chat_native_id(m)]
                          ELSE NoArrival]
    /\ nextseq = Cardinality(Present) + 1
    /\ gen = 1
    /\ tx = [w \in Pollers |-> NoTx]
    /\ cons = Fresh
    /\ got = {}
    /\ handed = {}
    /\ overtaken = FALSE

-----------------------------------------------------------------------------
(* The store underneath: the sync engine in another process. *)

Event == happened < MaxEvents /\ happened' = happened + 1

(* An id that has gone may come back: the row is new, and so will be its   *)
(* arrival.                                                                *)
MailArrives(m) ==
    /\ Event
    /\ ~mail[m].there
    /\ \E c \in BOOLEAN, d \in Dates[m] :
         mail' = [mail EXCEPT ![m] = [there |-> TRUE, key |-> 1, conv |-> c, date |-> d]]
    /\ UNCHANGED <<ledger, nextseq, gen, clock, tx, cons, got, handed,
                   overtaken>>

(* upsert_messages over a row, with a new changekey: every column is       *)
(* written, the conversation id and date_ts too.                           *)
Amend(m) ==
    /\ Event
    /\ mail[m].there /\ mail[m].key < MaxKey
    /\ \E c \in BOOLEAN, d \in Dates[m] :
         mail' = [mail EXCEPT ![m] = [there |-> TRUE, key |-> mail[m].key + 1, conv |-> c,
                                      date |-> d]]
    /\ UNCHANGED <<ledger, nextseq, gen, clock, tx, cons, got, handed,
                   overtaken>>

(* The row goes and its arrival with it.  It waits for a transaction that  *)
(* has written that arrival.                                               *)
MailGoes(m) ==
    /\ Event
    /\ mail[m].there
    /\ \A w \in Pollers : tx[w].new[m] = NoArrival
    /\ mail' = [mail EXCEPT ![m] = NoMail]
    /\ ledger' = [ledger EXCEPT ![m] = NoArrival]
    /\ handed' = {h \in handed : h[1] # m}
    /\ UNCHANGED <<nextseq, gen, clock, tx, cons, got, overtaken>>

(* The database is lost and built again, empty, with another generation; *)
(* the sync engine will find the mail anew.                              *)
Rebuild ==
    /\ Event
    /\ gen < MaxGen
    /\ gen' = gen + 1
    /\ mail' = [m \in Mails |-> NoMail]
    /\ ledger' = [m \in Mails |-> NoArrival]
    /\ nextseq' = 1
    /\ tx' = [w \in Pollers |-> NoTx]
    /\ got' = {} /\ handed' = {}
    /\ UNCHANGED <<clock, cons, overtaken>>

ClockTicks ==
    /\ clock < MaxTime
    /\ clock' = clock + 1
    /\ UNCHANGED <<mail, ledger, nextseq, gen, happened, tx, cons, got, handed,
                   overtaken>>

-----------------------------------------------------------------------------
(* /bridge/v1/messages *)

Waiting == \E w \in Pollers : tx[w].mine

(* A poll of the consumer, or of somebody else (mine = FALSE). *)
Begin(w, mine) ==
    /\ tx[w].pc = "idle"
    /\ ~(mine /\ Waiting)
    /\ tx' = [tx EXCEPT ![w] =
               [NoTx EXCEPT !.pc = "begun", !.start = clock, !.mine = mine,
                            !.since = IF mine THEN cons.cur ELSE NoCursor,
                            !.bounded = mine /\ cons.phase = "boot"]]
    /\ UNCHANGED <<mail, ledger, nextseq, gen, clock, happened, cons, got, handed,
                   overtaken>>

(* Mutant: only mail that has no number yet. *)
UnsweptNew == {m \in Mails : mail[m].there /\ ledger[m].seq = 0}

Unswept == {m \in Mails : mail[m].there /\ ledger[m].key # mail[m].key}

(* Mutant: an amendment keeps its arrival time. *)
SweptKeepingSeen(m, n, now) ==
    IF ledger[m].seq = 0
    THEN [seq |-> n, key |-> mail[m].key, seen |-> now, first |-> now,
          chat |-> chat_native_id(m)]
    ELSE [ledger[m] EXCEPT !.seq = n, !.key = mail[m].key]

(* Mutant: an amendment moves everything. *)
SweptAnew(m, n, now) ==
    [seq |-> n, key |-> mail[m].key, seen |-> now, first |-> now,
     chat |-> chat_native_id(m)]

(* INSERT ... ON CONFLICT DO UPDATE: an amendment gets a new number and a  *)
(* new arrival time, and keeps its chat and the time it was first met.     *)
Swept(m, n, now) ==
    IF ledger[m].seq = 0
    THEN [seq |-> n, key |-> mail[m].key, seen |-> now, first |-> now,
          chat |-> chat_native_id(m)]
    ELSE [ledger[m] EXCEPT !.seq = n, !.key = mail[m].key, !.seen = now]

(* INSERT ... SELECT.  The batch is numbered in whatever order the planner *)
(* evaluates nextval.                                                      *)
InsertArrivals(w) ==
    /\ \E rank \in [Unswept -> 0..(Cardinality(Unswept) - 1)] :
         /\ \A m, k \in Unswept : m # k => rank[m] # rank[k]
         /\ tx' = [tx EXCEPT ![w].pc = "swept",
                             ![w].new = [m \in Mails |->
                               IF m \in Unswept
                               THEN Swept(m, nextseq + rank[m], tx[w].start)
                               ELSE NoArrival]]
    /\ nextseq' = nextseq + Cardinality(Unswept)
    /\ overtaken' = (overtaken \/ (/\ Unswept # {}
                                   /\ \E m \in Mails : ledger[m].seen > tx[w].start))
    /\ UNCHANGED <<mail, ledger, gen, clock, happened, cons, got, handed>>

(* Mutant: no advisory lock. *)
sweep_unlocked(w) == tx[w].pc = "begun" /\ InsertArrivals(w)

(* The advisory lock is held to the end of the transaction, so a sweep     *)
(* waits until no other transaction has swept and not ended.               *)
sweep(w) ==
    /\ tx[w].pc = "begun"
    /\ \A v \in Pollers : tx[v].pc # "swept"
    /\ InsertArrivals(w)

(* The ledger as the transaction sees it. *)
View(w) == [m \in Mails |-> IF tx[w].new[m].seq # 0 THEN tx[w].new[m]
                            ELSE ledger[m]]

page(L, after, bounded) ==
    LET S == {m \in Mails : L[m].seq > after /\ (bounded => L[m].seen <= Edge)}
    IN {m \in S : Cardinality({k \in S : L[k].seq < L[m].seq}) < Limit}

(* The last row of the page, or the cursor that was given. *)
NextSeq(L, rows, after) ==
    IF rows = {} THEN after ELSE Max({L[m].seq : m \in rows})

(* sent_at: the send date the row has now, else when it was first met. *)
SentAt(L, m) == IF mail[m].date # 0 THEN mail[m].date ELSE L[m].first

(* The page is read, the transaction commits, and only then is the answer  *)
(* sent.                                                                   *)
Respond(w) ==
    /\ tx[w].pc = "swept"
    /\ tx[w].since.gen \in {0, gen}
    /\ ledger' = View(w)
    /\ tx' = [tx EXCEPT ![w] = NoTx]
    /\ LET L == View(w)
           rows == page(L, tx[w].since.seq, tx[w].bounded)
           cur == [gen |-> gen, seq |-> NextSeq(L, rows, tx[w].since.seq)]
       IN IF tx[w].mine
          THEN /\ cons' = [cur |-> cur,
                           phase |-> IF tx[w].bounded /\ Cardinality(rows) = Limit
                                     THEN "boot" ELSE "live"]
               /\ got' = IF tx[w].bounded THEN got
                         ELSE got \cup {L[m].seq : m \in rows}
               /\ handed' = handed \cup
                  {<<m, L[m].chat, mail[m].date, SentAt(L, m)>> : m \in rows}
          ELSE UNCHANGED <<cons, got, handed>>
    /\ UNCHANGED <<mail, nextseq, gen, clock, happened, overtaken>>

(* _parse_cursor: a cursor of another generation is a 400, which rolls the *)
(* sweep back; the consumer starts again.                                  *)
Refuse(w) ==
    /\ tx[w].pc = "swept"
    /\ tx[w].since.gen \notin {0, gen}
    /\ tx' = [tx EXCEPT ![w] = NoTx]
    /\ cons' = IF tx[w].mine THEN Fresh ELSE cons
    /\ UNCHANGED <<mail, ledger, nextseq, gen, clock, happened, got, handed, overtaken>>

(* The transaction ends in an error: everything but nextval is undone. *)
Fail(w) ==
    /\ Event
    /\ tx[w].pc # "idle"
    /\ tx' = [tx EXCEPT ![w] = NoTx]
    /\ UNCHANGED <<mail, ledger, nextseq, gen, clock, cons, got, handed, overtaken>>

(* The consumer gives up on its poll, which goes on without it. *)
Abandon(w) ==
    /\ Event
    /\ tx[w].mine
    /\ tx' = [tx EXCEPT ![w].mine = FALSE]
    /\ UNCHANGED <<mail, ledger, nextseq, gen, clock, cons, got, handed, overtaken>>

(* /bridge/v1/chats: every conversation, by its pinned id. *)
chats ==
    {<<m, IF ledger[m].seq = 0 THEN chat_native_id(m) ELSE ledger[m].chat>> :
       m \in {k \in Mails : mail[k].there}}

-----------------------------------------------------------------------------
WorkerStep(w) == Begin(w, TRUE) \/ sweep(w) \/ Respond(w) \/ Refuse(w)

BridgeNext ==
    \/ ClockTicks \/ Rebuild
    \/ \E m \in Mails : MailArrives(m) \/ Amend(m) \/ MailGoes(m)
    \/ \E w \in Pollers : WorkerStep(w) \/ Begin(w, FALSE) \/ Fail(w) \/ Abandon(w)

BridgeSpec == BridgeInit /\ [][BridgeNext]_bridgeVars

-----------------------------------------------------------------------------
(* No mail of the consumer's window is left behind its cursor unposted,    *)
(* whichever transactions overlapped, failed or were retried; except that  *)
(* a sweep which began earlier and got the lock later writes an arrival    *)
(* time out of step with its numbers, and a bounded walk may step over     *)
(* what lies between (arrival.py: "they must always move together").       *)
NothingBehindCursor ==
    cons.cur.gen = gen /\ ~overtaken =>
      \A m \in Mails : ledger[m].seen > Edge /\ ledger[m].seq <= cons.cur.seq
                       => ledger[m].seq \in got

(* Without an overtaken sweep, arrival times follow the sequence: a page   *)
(* bounded by `until' is a prefix of the stream.                           *)
UntilIsPrefix ==
    ~overtaken =>
      \A m, k \in Mails : 0 < ledger[m].seq /\ ledger[m].seq < ledger[k].seq
                          => ledger[m].seen <= ledger[k].seen

(* As long as its row stays in the store, a mail is handed to the consumer *)
(* under one chat, however often it is amended and whatever conversation   *)
(* id it gains or loses; its sent_at changes only with its date_ts, and    *)
(* never drifts while it has none; and /chats names the chat it was handed *)
(* out under - the consumer skips what it does not name.                   *)
IdentityStable ==
    /\ \A a, b \in handed : a[1] = b[1] => a[2] = b[2] /\ (a[3] = b[3] => a[4] = b[4])
    /\ \A h \in handed : <<h[1], h[2]>> \in chats

(* Once mail stops changing the consumer's cursor reaches the end of the   *)
(* stream, with every amendment in it, whatever was lost or rebuilt.       *)
ConsumerCatchesUp ==
    <>[](\A m \in Mails : mail[m].there =>
           /\ ledger[m].key = mail[m].key
           /\ cons.cur.gen = gen /\ ledger[m].seq <= cons.cur.seq)
=============================================================================
