----------------------------- MODULE Connection -----------------------------
(***************************************************************************)
(* The connection manager (gateway/connection.py), the account and folder  *)
(* cache it keeps alive (gateway/client.py) and what becomes of them when  *)
(* Exchange goes away: the warm-up loop with its reset ladder, the         *)
(* heartbeat that re-arms it, the on-warm callback that starts the sync    *)
(* engine and the archive runner (server.py), and tool calls on the pool.  *)
(*                                                                         *)
(* A session is numbered when _build_account makes it; 0 is none.  An      *)
(* outage may leave the cached session wedged: it fails every request      *)
(* although Exchange answers new ones, until reset() drops it.  reset()    *)
(* is three steps, and only the first of them holds the account's lock.    *)
(***************************************************************************)
EXTENDS Naturals

CONSTANTS Callers,      \* threads of the EWS pool
          ResetEvery,   \* _RESET_EVERY_N_FAILURES
          MaxSession,   \* bound: sessions built
          MaxDrops      \* bound: outages, and sessions made in mid-reset

ASSUME ConnectionAssumption ==
    /\ ResetEvery \in Nat \ {0}
    /\ {MaxSession, MaxDrops} \subseteq Nat

VARIABLES
    ex,        \* Exchange: whether it answers, the outages so far
    account,   \* _account as [session, wedged]
    proto,     \* CachingProtocol's entry: none, good or wedged
    built,     \* sessions built so far
    mgr,       \* the manager: state, attempts modulo ResetEvery, its loop
    started,   \* on_warm: fired, and what it started
    folders,   \* the session whose folders _folder_cache holds (0, empty);
               \* late: stored by a thread that straddled a reset (history)
    caller     \* each pool thread: what it does, with which session

connVars == <<ex, account, proto, built, mgr, started, folders, caller>>

NoAccount == [session |-> 0, wedged |-> FALSE]
NoFolders == [session |-> 0, late |-> FALSE]
Idle == [at |-> "idle", session |-> 0, straddled |-> FALSE]

ConnInit ==
    /\ ex = [up |-> FALSE, outages |-> 0]
    /\ account = NoAccount
    /\ proto = "none"
    /\ built = 0
    /\ mgr = [state |-> "connecting", attempts |-> 0, loop |-> "warmup"]
    /\ started = [fired |-> 0, sync |-> FALSE, archive |-> FALSE]
    /\ folders = NoFolders
    /\ caller = [c \in Callers |-> Idle]

-----------------------------------------------------------------------------
(* Outages: only finitely many, or nothing could be promised.  One may     *)
(* wedge the cached session, and the cached protocol with it.              *)
GoDown ==
    /\ ex.up /\ ex.outages < MaxDrops
    /\ ex' = [up |-> FALSE, outages |-> ex.outages + 1]
    /\ \E w \in BOOLEAN :
          /\ account' = [account EXCEPT !.wedged = @ \/ (w /\ account.session # 0)]
          /\ proto' = IF w /\ proto # "none" THEN "wedged" ELSE proto
    /\ UNCHANGED <<built, mgr, started, folders, caller>>

ComeUp ==
    /\ ~ex.up
    /\ ex' = [ex EXCEPT !.up = TRUE]
    /\ UNCHANGED <<account, proto, built, mgr, started, folders, caller>>

-----------------------------------------------------------------------------
(* The account property: the cached session; or a new one, on the protocol *)
(* CachingProtocol still holds, else on one that Exchange must negotiate;  *)
(* 0, the build raised.                                                    *)
Account == IF account.session # 0 THEN account
           ELSE IF (ex.up \/ proto # "none") /\ built < MaxSession
           THEN [session |-> built + 1, wedged |-> proto = "wedged"]
           ELSE NoAccount

Healthy(a) == a.session # 0 /\ ~a.wedged /\ ex.up

Use(a) ==
    /\ account' = a
    /\ built' = IF a.session > built THEN a.session ELSE built
    /\ proto' = IF a.session > built /\ proto = "none" THEN "good" ELSE proto

Keep == UNCHANGED <<folders, caller>>

(* _mark_failure counts every failed attempt, the heartbeat's too.         *)
Attempt == (mgr.attempts + 1) % ResetEvery

(* One turn of _warmup_loop that connects: mark warm, fire the callback    *)
(* once, hand over to the heartbeat.                                       *)
Connects ==
    /\ mgr.loop = "warmup"
    /\ Healthy(Account) /\ Use(Account)
    /\ mgr' = [mgr EXCEPT !.state = "warm",
                          !.loop = IF started.fired = 0 THEN "on_warm" ELSE "heartbeat"]
    /\ Keep /\ UNCHANGED <<ex, started>>

ConnectFailsNoReset ==
    /\ mgr.loop = "warmup"
    /\ ~Healthy(Account)
    /\ mgr' = [mgr EXCEPT !.attempts = Attempt]
    /\ Use(Account) /\ Keep
    /\ UNCHANGED <<ex, started>>

(* One turn that does not: every ResetEvery-th failure resets the session. *)
ConnectFails ==
    /\ mgr.loop = "warmup"
    /\ ~Healthy(Account)
    /\ mgr' = [mgr EXCEPT !.attempts = Attempt,
                          !.loop = IF Attempt = 0 THEN "reset" ELSE "warmup"]
    /\ Use(Account) /\ Keep
    /\ UNCHANGED <<ex, started>>

(* reset(), on a worker thread.  Under the lock the account goes; threads  *)
(* that hold the old one keep it.                                          *)
Drop ==
    /\ mgr.loop = "reset"
    /\ account' = NoAccount
    /\ caller' = [c \in Callers |->
          IF caller[c].at = "idle" THEN Idle ELSE [caller[c] EXCEPT !.straddled = TRUE]]
    /\ mgr' = [mgr EXCEPT !.loop = "clear_protocol"]
    /\ UNCHANGED <<ex, proto, built, started, folders>>

(* The lock is free again when clear_cache forgets the old protocol.       *)
ClearProtocol ==
    /\ mgr.loop = "clear_protocol"
    /\ proto' = "none"
    /\ mgr' = [mgr EXCEPT !.loop = "clear_folders"]
    /\ Keep /\ UNCHANGED <<ex, account, built, started>>

ClearFoldersNot ==
    /\ mgr.loop = "clear_folders"
    /\ mgr' = [mgr EXCEPT !.loop = "warmup"]
    /\ UNCHANGED <<ex, account, proto, built, started, folders, caller>>

(* And when the folder cache is emptied.                                   *)
ClearFolders ==
    /\ mgr.loop = "clear_folders"
    /\ folders' = NoFolders
    /\ mgr' = [mgr EXCEPT !.loop = "warmup"]
    /\ UNCHANGED <<ex, account, proto, built, started, caller>>

(* on_warm: each start may fail, and is not tried again in this process.   *)
OnWarm ==
    /\ mgr.loop = "on_warm"
    /\ \E s, a \in BOOLEAN :
          started' = [fired |-> started.fired + 1, sync |-> s, archive |-> a]
    /\ mgr' = [mgr EXCEPT !.loop = "heartbeat"]
    /\ Keep /\ UNCHANGED <<ex, account, proto, built>>

Beat ==
    /\ mgr.loop = "heartbeat"
    /\ Healthy(Account) /\ Use(Account)
    /\ mgr' = [mgr EXCEPT !.state = "warm"]
    /\ Keep /\ UNCHANGED <<ex, started>>

BeatMissed ==
    /\ mgr.loop = "heartbeat"
    /\ ~Healthy(Account)
    /\ Use(Account)
    /\ mgr' = [state |-> "degraded", loop |-> "warmup",
               attempts |-> IF account.session = 0 THEN mgr.attempts ELSE Attempt]
    /\ Keep /\ UNCHANGED <<ex, started>>

-----------------------------------------------------------------------------
(* A tool call on the pool that resolves a folder.  gateway.call takes the *)
(* account.  A session made on a protocol that a reset is about to forget  *)
(* is one of the mishaps that MaxDrops bounds.                             *)
InMidReset == account.session = 0 /\ proto # "none"

Call(c) ==
    /\ caller[c].at = "idle" /\ mgr.state # "connecting"
    /\ Account.session # 0 /\ Use(Account)
    /\ InMidReset => ex.outages < MaxDrops
    /\ ex' = [ex EXCEPT !.outages = IF InMidReset THEN @ + 1 ELSE @]
    /\ caller' = [caller EXCEPT ![c] =
          [at |-> "called", session |-> Account.session, straddled |-> FALSE]]
    /\ UNCHANGED <<mgr, started, folders>>

(* _folder_map answers from the cache, or walks the tree of its account.   *)
FolderMap(c) ==
    /\ caller[c].at = "called"
    /\ caller' = [caller EXCEPT ![c].at = IF folders.session = 0 THEN "walk" ELSE "work"]
    /\ UNCHANGED <<ex, account, proto, built, mgr, started, folders>>

(* What the walk collected is stored, whole or up to where it failed.      *)
Walked(c) ==
    /\ caller[c].at = "walk"
    /\ folders' = [session |-> caller[c].session, late |-> caller[c].straddled]
    /\ caller' = [caller EXCEPT ![c].at = "work"]
    /\ UNCHANGED <<ex, account, proto, built, mgr, started>>

(* The walk failed before its first folder and stores nothing, or the call *)
(* ends.                                                                   *)
Return(c) ==
    /\ caller[c].at \in {"walk", "work"}
    /\ caller' = [caller EXCEPT ![c] = Idle]
    /\ UNCHANGED <<ex, account, proto, built, mgr, started, folders>>

(* 300 seconds have passed: the cache is rebuilt by whoever comes next.    *)
FoldersExpire ==
    /\ folders.session # 0
    /\ folders' = NoFolders
    /\ UNCHANGED <<ex, account, proto, built, mgr, started, caller>>

Manager == \/ Connects \/ ConnectFails \/ OnWarm \/ Beat \/ BeatMissed
           \/ Drop \/ ClearProtocol \/ ClearFolders

ConnNext ==
    \/ GoDown \/ ComeUp \/ Manager \/ FoldersExpire
    \/ \E c \in Callers : Call(c) \/ FolderMap(c) \/ Walked(c) \/ Return(c)

ConnSpec == ConnInit /\ [][ConnNext]_connVars

-----------------------------------------------------------------------------
ConnTypeOK ==
    /\ ex \in [up : BOOLEAN, outages : 0..MaxDrops]
    /\ account \in [session : 0..MaxSession, wedged : BOOLEAN]
    /\ proto \in {"none", "good", "wedged"}
    /\ built \in 0..MaxSession
    /\ mgr \in [state : {"connecting", "warm", "degraded"},
                attempts : 0..(ResetEvery - 1),
                loop : {"warmup", "on_warm", "heartbeat", "reset",
                        "clear_protocol", "clear_folders"}]
    /\ started \in [fired : 0..1, sync : BOOLEAN, archive : BOOLEAN]
    /\ folders \in [session : 0..MaxSession, late : BOOLEAN]
    /\ caller \in [Callers -> [at : {"idle", "called", "walk", "work"},
                               session : 0..MaxSession, straddled : BOOLEAN]]

(* Cached folders belong to the session in use.  reset() drops the account *)
(* under its lock (client.py:131) and empties the folder cache later       *)
(* without it (client.py:142): in between, and only then, a new session    *)
(* can be handed folders of the one that was dropped; after it, only when  *)
(* a thread that took its account before the reset stores its walk after   *)
(* it (client.py:191).                                                     *)
FoldersOfThisSession ==
    \/ folders.session \in {0, account.session}
    \/ folders.late
    \/ mgr.loop \in {"clear_protocol", "clear_folders"}

(* Once Exchange stays up the manager ends warm on a session that works,   *)
(* whatever the outages wedged, and stays there.                           *)
WarmAgain == <>[](mgr.state = "warm" /\ Healthy(account))
=============================================================================
