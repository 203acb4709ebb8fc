------------------------------- MODULE Links -------------------------------
(***************************************************************************)
(* The capability links: uploads.py, downloads.py and the two routes of    *)
(* http.py that redeem them.  A link is one JSON file named by its token,  *)
(* rewritten in place; "blank" is such a file between truncation and       *)
(* write, which every reader takes for corrupt.                            *)
(*                                                                         *)
(* mint, both redeem functions and uploads.sweep run on the event loop     *)
(* without an await, one after the other; every get_raw_message then has   *)
(* downloads.sweep on a worker thread of its own (tools/archive.py:257),   *)
(* beside all of them.  All upload links here are for one file name.       *)
(***************************************************************************)
EXTENDS Naturals, FiniteSets

CONSTANTS Ups, Downs,   \* tokens of upload and of download links
          MaxMishaps    \* bound: crashes, failed writes, hang-ups, vanished
                        \* files

ASSUME LinksAssumption == Ups \cap Downs = {} /\ MaxMishaps \in Nat

VARIABLES
    rec,       \* the link file: "none", "blank", "fresh", "used"
    past,      \* links past their expires_at
    minting,   \* the download link mint() has opened and not written
    stored,    \* the uploaded file: whose body, and whether all of it
    sweeper,   \* per minted download, its sweep thread: not begun, files to
               \* look at, the one to unlink
    linkhist   \* history

linkVars == <<rec, past, minting, stored, sweeper, linkhist>>

Tokens == Ups \union Downs
Records == {"none", "blank", "fresh", "used"}
Nothing == [by |-> {}, whole |-> FALSE]
Resting == [due |-> FALSE, todo |-> {}, doomed |-> {}]

(* given: handed to a caller; ok: redemptions answered; cut: uploads whose *)
(* client hung up; over: uploads whose file another link replaced; torn:   *)
(* links whose record a mishap left unread or unreadable, or that a sweep  *)
(* looked at while they were being minted.                                 *)
LinksInit ==
    /\ rec = [t \in Tokens |-> "none"]
    /\ past = {}
    /\ minting = {}
    /\ stored = Nothing
    /\ sweeper = [d \in Downs |-> Resting]
    /\ linkhist = [given |-> {}, ok |-> [t \in Tokens |-> 0], cut |-> {},
                   over |-> {}, torn |-> {}, mishaps |-> 0]

Mishap(h) == [h EXCEPT !.mishaps = @ + 1]
MayFail == linkhist.mishaps < MaxMishaps

-----------------------------------------------------------------------------
(* What sweep removes: used, expired and unreadable records.               *)
DoomedAny(t) == rec[t] # "none"
Doomed(t) == rec[t] \in {"used", "blank"} \/ (rec[t] = "fresh" /\ t \in past)

(* A new token: the loop is free, and no link ever had it.                 *)
Unminted(t) == minting = {} /\ rec[t] = "none" /\ t \notin linkhist.given \union linkhist.torn

(* create_upload_link: mint, then sweep every upload link.                 *)
MintUpload(t) ==
    /\ Unminted(t)
    /\ rec' = [u \in Tokens |-> IF u = t THEN "fresh"
                                ELSE IF u \in Ups /\ Doomed(u) THEN "none" ELSE rec[u]]
    /\ linkhist' = [linkhist EXCEPT !.given = @ \union {t}]
    /\ UNCHANGED <<past, minting, stored, sweeper>>

(* The write fails: the caller gets the error, the file stays behind.      *)
MintUploadFails(t) ==
    /\ Unminted(t) /\ MayFail
    /\ rec' = [rec EXCEPT ![t] = "blank"]
    /\ linkhist' = [Mishap(linkhist) EXCEPT !.torn = @ \union {t}]
    /\ UNCHANGED <<past, minting, stored, sweeper>>

(* get_raw_message: mint opens (and truncates) the file and writes it; the *)
(* sweep follows on its own thread, whenever that gets to run.  The link   *)
(* counts as handed out from the write on, before the sweep has ended.     *)
MintOpen(t) ==
    /\ Unminted(t)
    /\ rec' = [rec EXCEPT ![t] = "blank"]
    /\ minting' = {t}
    /\ UNCHANGED <<past, stored, sweeper, linkhist>>

MintWrite(t) ==
    /\ t \in minting
    /\ rec' = [rec EXCEPT ![t] = IF @ = "none" THEN "none" ELSE "fresh"]
    /\ minting' = {}
    /\ linkhist' = [linkhist EXCEPT !.given = @ \union {t}]
    /\ sweeper' = [sweeper EXCEPT ![t].due = TRUE]
    /\ UNCHANGED <<past, stored>>

MintFails(t) ==
    /\ t \in minting /\ MayFail
    /\ minting' = {}
    /\ linkhist' = [Mishap(linkhist) EXCEPT !.torn = @ \union {t}]
    /\ UNCHANGED <<rec, past, stored, sweeper>>

(* The sweep of s lists the directory, a blank file of a later mint        *)
(* included; reads one file after the other; and unlinks in a second step. *)
SweepList(s) ==
    /\ sweeper[s].due
    /\ sweeper' = [sweeper EXCEPT ![s] = [due |-> FALSE, doomed |-> {},
                                          todo |-> {d \in Downs : rec[d] # "none"}]]
    /\ UNCHANGED <<rec, past, minting, stored, linkhist>>

SweepRead(s, t) ==
    /\ t \in sweeper[s].todo /\ sweeper[s].doomed = {}
    /\ sweeper' = [sweeper EXCEPT ![s].todo = @ \ {t},
                                  ![s].doomed = IF Doomed(t) THEN {t} ELSE {}]
    /\ linkhist' = IF t \in minting /\ Doomed(t)
                   THEN [linkhist EXCEPT !.torn = @ \union {t}] ELSE linkhist
    /\ UNCHANGED <<rec, past, minting, stored>>

SweepUnlink(s, t) ==
    /\ t \in sweeper[s].doomed
    /\ rec' = [rec EXCEPT ![t] = "none"]
    /\ sweeper' = [sweeper EXCEPT ![s].doomed = {}]
    /\ UNCHANGED <<past, minting, stored, linkhist>>

SweepStep(s) == SweepList(s) \/ \E t \in Downs : SweepRead(s, t) \/ SweepUnlink(s, t)

(* ewsd dies: no thread survives, a record being minted stays blank.       *)
Die ==
    /\ MayFail
    /\ minting' = {}
    /\ sweeper' = [d \in Downs |-> Resting]
    /\ linkhist' = [Mishap(linkhist) EXCEPT !.torn = @ \union minting]
    /\ UNCHANGED <<rec, past, stored>>

Expire(t) ==
    /\ t \in linkhist.given \ past
    /\ past' = past \union {t}
    /\ UNCHANGED <<rec, minting, stored, sweeper, linkhist>>

-----------------------------------------------------------------------------
Redeemable(t) == minting = {} /\ rec[t] = "fresh" /\ t \notin past

(* redeem's rewrite of the record goes wrong: the open fails and leaves it *)
(* (r "fresh"), the write fails after the truncation ("blank"), or ewsd    *)
(* dies before, during or after the rewrite, its answer lost ("used").     *)
(* A sweep that reads the record in the middle of a rewrite takes it for   *)
(* corrupt and removes it, as it would when used: no step of its own.      *)
RewriteFails(t, r, dies, h) ==
    /\ MayFail /\ r \in {"fresh", "blank"} \union (IF dies THEN {"used"} ELSE {})
    /\ rec' = [rec EXCEPT ![t] = r]
    /\ linkhist' = [Mishap(h) EXCEPT !.torn = @ \union (IF r = "fresh" THEN {} ELSE {t})]
    /\ sweeper' = IF dies THEN [d \in Downs |-> Resting] ELSE sweeper
    /\ UNCHANGED <<past, minting>>

(* PUT /upload/<token>: the receive loop ends with the body, or with the   *)
(* client's disconnect - and then redeems what has arrived.                *)
Put(t, whole) ==
    /\ Redeemable(t) /\ (~whole => MayFail)
    /\ stored' = [by |-> {t}, whole |-> whole]
    /\ rec' = [rec EXCEPT ![t] = "used"]
    /\ linkhist' = [(IF whole THEN linkhist ELSE Mishap(linkhist)) EXCEPT
          !.ok[t] = @ + 1,
          !.over = @ \union (stored.by \ {t}),
          !.cut = @ \union (IF whole THEN {} ELSE {t})]
    /\ UNCHANGED <<past, minting, sweeper>>

PutFailsBurnt(t) ==
    /\ Redeemable(t) /\ MayFail
    /\ stored' = [by |-> {t}, whole |-> FALSE]
    /\ rec' = [rec EXCEPT ![t] = "used"]
    /\ linkhist' = [Mishap(linkhist) EXCEPT !.over = @ \union (stored.by \ {t})]
    /\ UNCHANGED <<past, minting, sweeper>>

(* The write fails half-way: the error leaves the link as it was.          *)
PutFails(t) ==
    /\ Redeemable(t) /\ MayFail
    /\ stored' = [by |-> {t}, whole |-> FALSE]
    /\ linkhist' = [Mishap(linkhist) EXCEPT !.over = @ \union (stored.by \ {t})]
    /\ UNCHANGED <<rec, past, minting, sweeper>>

(* The body is stored, the record's rewrite goes wrong.                    *)
PutTorn(t, r, dies) ==
    /\ Redeemable(t)
    /\ stored' = [by |-> {t}, whole |-> TRUE]
    /\ RewriteFails(t, r, dies, [linkhist EXCEPT !.over = @ \union (stored.by \ {t})])

(* GET /download/<token>: the link is used up before the file is opened;   *)
(* the client may still hang up, or the file be gone by then.              *)
Get(t, whole) ==
    /\ Redeemable(t) /\ (~whole => MayFail)
    /\ rec' = [rec EXCEPT ![t] = "used"]
    /\ linkhist' = [(IF whole THEN linkhist ELSE Mishap(linkhist)) EXCEPT !.ok[t] = @ + 1]
    /\ UNCHANGED <<past, minting, stored, sweeper>>

GetTorn(t, r, dies) ==
    /\ Redeemable(t)
    /\ RewriteFails(t, r, dies, linkhist)
    /\ UNCHANGED stored

(* Either route on an expired link: the record is removed, the answer 404. *)
RedeemExpired(t) ==
    /\ minting = {} /\ rec[t] = "fresh" /\ t \in past
    /\ rec' = [rec EXCEPT ![t] = "none"]
    /\ UNCHANGED <<past, minting, stored, sweeper, linkhist>>

Ages(t) == Expire(t) \/ RedeemExpired(t)

UploadsNext ==
    \E t \in Ups : \/ MintUpload(t) \/ MintUploadFails(t) \/ PutFails(t) \/ Ages(t)
                  \/ \E w \in BOOLEAN : Put(t, w)
                  \/ \E r \in Records, dies \in BOOLEAN : PutTorn(t, r, dies)

DownloadsNext ==
    \/ Die
    \/ \E t \in Downs : \/ MintOpen(t) \/ MintWrite(t) \/ MintFails(t) \/ SweepStep(t)
                       \/ Ages(t)
                       \/ \E w \in BOOLEAN : Get(t, w)
                       \/ \E r \in Records, dies \in BOOLEAN : GetTorn(t, r, dies)

LinksSpec == LinksInit /\ [][UploadsNext \/ DownloadsNext]_linkVars

-----------------------------------------------------------------------------
LinksTypeOK ==
    /\ rec \in [Tokens -> Records]
    /\ past \subseteq linkhist.given
    /\ minting \subseteq Downs /\ Cardinality(minting) <= 1
    /\ stored \in [by : SUBSET Ups, whole : BOOLEAN]
    /\ sweeper \in [Downs -> [due : BOOLEAN, todo : SUBSET Downs, doomed : SUBSET Downs]]
    /\ linkhist.mishaps \in 0..MaxMishaps
    /\ linkhist.given \subseteq Tokens

(* A link is honoured at most once, through crashes and retries too, and   *)
(* an upload link is spent only for its own body, stored whole - unless    *)
(* its client hung up in the middle or another link for the same name      *)
(* came after it (uploads.py:104 "Burn the link only after the write       *)
(* succeeds").                                                             *)
SpentOnceAndStored ==
    /\ \A t \in Tokens : linkhist.ok[t] <= 1
    /\ \A t \in Ups : rec[t] = "used" =>
          \/ stored = [by |-> {t}, whole |-> TRUE]
          \/ t \in linkhist.cut \union linkhist.over

(* A link that was handed out, not redeemed and not expired still works:   *)
(* no sweep of another request takes it, and no redemption that stored or  *)
(* served nothing spends it.  Excepted, as torn: the download whose record *)
(* another request's sweep read while mint was writing it                  *)
(* (downloads.py:173 takes a half-written record for corrupt), and the     *)
(* link whose rewrite by redeem failed or was cut off (downloads.py:151,   *)
(* uploads.py:106 write in place).                                         *)
LinkLives ==
    \A t \in linkhist.given :
        linkhist.ok[t] = 0 /\ t \notin past \union linkhist.torn => rec[t] = "fresh"
=============================================================================
