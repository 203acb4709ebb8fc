------------------------------ MODULE Aliaser ------------------------------
(***************************************************************************)
(* The alias layer (ids.py): short handles for Exchange's item ids, minted *)
(* and rebound in Postgres by every process on the database.  Transactions *)
(* run under READ COMMITTED: a statement sees what others have committed,  *)
(* waits for the row another transaction has locked, and a unique index    *)
(* waits for the transaction that may still commit the same key.           *)
(*                                                                         *)
(* An item has one id before it is moved and another after; ids are never  *)
(* reused.  Aliases are of one kind, so one counter row serves them all,   *)
(* and who increments it holds its lock to the end of the transaction.     *)
(***************************************************************************)
EXTENDS Naturals, FiniteSets

CONSTANTS Items,     \* messages
          Workers,   \* connections: threads of ewsd and of the MCPs
          MaxAborts  \* bound: transactions Postgres ends (deadlock, lost link)

ASSUME AliasAssumption == MaxAborts \in Nat

VARIABLES
    aliases,  \* ews.aliases, committed: [alias, id]
    counter,  \* ews.alias_counters, committed
    place,    \* Exchange: the number of moves of each item, its current id
    worker,   \* what each connection is doing
    alhist    \* history: handed out (alias, item), dropped as duplicates,
              \* loose (aliases no rebind could keep up), aborts

aliasVars == <<aliases, counter, place, worker, alhist>>

Ids == Items \X {0, 1}
Current(i) == <<i, place[i]>>
Quiet == [at |-> "idle", id |-> << >>, n |-> 0, dup |-> {}]

AliasInit ==
    /\ aliases = {}
    /\ counter = 0
    /\ place = [i \in Items |-> 0]
    /\ worker = [w \in Workers |-> Quiet]
    /\ alhist = [handed |-> {}, dropped |-> {}, loose |-> {}, aborts |-> 0]

(* resolve: what an alias stands for; {}, a KeyError.                      *)
resolve(a) == {r.id : r \in {s \in aliases : s.alias = a}}

RowsOf(id) == {r \in aliases : r.id = id}
Hand(h, a, id) == [h EXCEPT !.handed = @ \union {<<a, id[1]>>},
                            !.loose = IF id = Current(id[1]) THEN @ ELSE @ \union {a}]

(* _find: the alias that is there, or on to the counter.                   *)
Look(w, id) ==
    \/ \E r \in RowsOf(id) :
          /\ worker' = [worker EXCEPT ![w] = Quiet]
          /\ alhist' = Hand(alhist, r.alias, id)
    \/ /\ RowsOf(id) = {}
       /\ worker' = [worker EXCEPT ![w] = [Quiet EXCEPT !.at = "count", !.id = id]]
       /\ UNCHANGED alhist

-----------------------------------------------------------------------------
(* alias_for, for the item's id or for one read before it was moved.       *)
AliasFor(w, id) ==
    /\ worker[w].at = "idle" /\ id[2] <= place[id[1]]
    /\ Look(w, id)
    /\ UNCHANGED <<aliases, counter, place>>

CounterFree == \A w \in Workers : worker[w].at \notin {"insert", "reread", "commit"}

MintNextRow(w) ==
    /\ worker[w].at = "count" /\ CounterFree
    /\ worker' = [worker EXCEPT ![w].at = "insert", ![w].n = Cardinality(aliases) + 1]
    /\ UNCHANGED <<aliases, counter, place, alhist>>

(* _mint_locked: the counter first, committed only with the rest...        *)
Mint(w) ==
    /\ worker[w].at = "count" /\ CounterFree
    /\ worker' = [worker EXCEPT ![w].at = "insert", ![w].n = counter + 1]
    /\ UNCHANGED <<aliases, counter, place, alhist>>

(* ...then the row, which waits for a rebind deleting the same id, and     *)
(* loses to one that is there.                                             *)
Insert(w) ==
    /\ worker[w].at = "insert"
    /\ \A u \in Workers : \A r \in worker[u].dup : r.id # worker[w].id
    /\ worker' = [worker EXCEPT ![w].at = IF RowsOf(worker[w].id) = {} THEN "commit"
                                          ELSE "reread"]
    /\ UNCHANGED <<aliases, counter, place, alhist>>

Reread(w) ==
    /\ worker[w].at = "reread"
    /\ counter' = worker[w].n
    /\ worker' = [worker EXCEPT ![w] = Quiet]
    /\ \/ \E r \in RowsOf(worker[w].id) : alhist' = Hand(alhist, r.alias, worker[w].id)
       \/ RowsOf(worker[w].id) = {} /\ UNCHANGED alhist       \* the raw id
    /\ UNCHANGED <<aliases, place>>

Commit(w) ==
    /\ worker[w].at = "commit"
    /\ aliases' = aliases \union {[alias |-> worker[w].n, id |-> worker[w].id]}
    /\ counter' = worker[w].n
    /\ worker' = [worker EXCEPT ![w] = Quiet]
    /\ alhist' = Hand(alhist, worker[w].n, worker[w].id)
    /\ UNCHANGED place

-----------------------------------------------------------------------------
(* move_messages: Exchange moves the item, and its alias is to follow.     *)
Move(w, i) ==
    /\ worker[w].at = "idle" /\ place[i] = 0
    /\ place' = [place EXCEPT ![i] = 1]
    /\ worker' = [worker EXCEPT ![w] = [Quiet EXCEPT !.at = "rebind", !.id = <<i, 1>>]]
    /\ UNCHANGED <<aliases, counter, alhist>>

OldId(w) == <<worker[w].id[1], 0>>
Loosen(h, rs) == [h EXCEPT !.loose = @ \union {r.alias : r \in rs}]

(* rebind: SELECT ... FOR UPDATE of the old id's row; without one, None    *)
(* and alias_for of the new id.                                            *)
RebindSelect(w) ==
    /\ worker[w].at = "rebind"
    /\ IF RowsOf(OldId(w)) = {} THEN Look(w, worker[w].id)
       ELSE /\ worker' = [worker EXCEPT ![w].at = "delete"]
            /\ UNCHANGED alhist
    /\ UNCHANGED <<aliases, counter, place>>

(* The duplicate of the new id is deleted...                               *)
RebindDelete(w) ==
    /\ worker[w].at = "delete"
    /\ worker' = [worker EXCEPT ![w].at = "update", ![w].dup = RowsOf(worker[w].id)]
    /\ UNCHANGED <<aliases, counter, place, alhist>>

(* ...and the old row updated, after waiting for whoever is inserting the  *)
(* new id.  If that insert commits the update fails on it, the rebind is   *)
(* rolled back, and the caller is given the other alias.                   *)
RebindUpdate(w) ==
    /\ worker[w].at = "update"
    /\ \A u \in Workers : worker[u].at = "commit" => worker[u].id # worker[w].id
    /\ IF RowsOf(worker[w].id) \ worker[w].dup # {}
       THEN \E r \in RowsOf(worker[w].id) :
              /\ UNCHANGED aliases
              /\ alhist' = Hand(Loosen(alhist, RowsOf(OldId(w))), r.alias, worker[w].id)
       ELSE \E r \in RowsOf(OldId(w)) :
              /\ aliases' = (aliases \ (worker[w].dup \union {r}))
                              \union {[r EXCEPT !.id = worker[w].id]}
              /\ alhist' = [Hand(alhist, r.alias, worker[w].id) EXCEPT
                              !.dropped = @ \union {d.alias : d \in worker[w].dup},
                              !.loose = @ \ {r.alias}]
    /\ worker' = [worker EXCEPT ![w] = Quiet]
    /\ UNCHANGED <<counter, place>>

(* Postgres ends a transaction: alias_for answers the raw id, rebind None, *)
(* and then the new id is looked up like any other.                        *)
Abort(w) ==
    /\ worker[w].at # "idle" /\ alhist.aborts < MaxAborts
    /\ IF worker[w].at \in {"rebind", "delete", "update"}
       THEN /\ worker' = [worker EXCEPT ![w].at = "lost", ![w].dup = {}]
            /\ alhist' = [Loosen(alhist, RowsOf(OldId(w))) EXCEPT !.aborts = @ + 1]
       ELSE /\ worker' = [worker EXCEPT ![w] = Quiet]
            /\ alhist' = [alhist EXCEPT !.aborts = @ + 1]
    /\ UNCHANGED <<aliases, counter, place>>

AfterLoss(w) ==
    /\ worker[w].at = "lost"
    /\ Look(w, worker[w].id)
    /\ UNCHANGED <<aliases, counter, place>>

AliasNext ==
    \E w \in Workers :
        \/ \E id \in Ids : AliasFor(w, id)
        \/ \E i \in Items : Move(w, i)
        \/ Mint(w) \/ Insert(w) \/ Reread(w) \/ Commit(w)
        \/ RebindSelect(w) \/ RebindDelete(w) \/ RebindUpdate(w)
        \/ Abort(w) \/ AfterLoss(w)

AliasSpec == AliasInit /\ [][AliasNext]_aliasVars

-----------------------------------------------------------------------------
AliasRow == [alias : Nat, id : Ids]
Work == [at : {"idle", "count", "insert", "reread", "commit", "rebind", "delete", "update", "lost"},
         id : Ids \union {<< >>}, n : Nat, dup : SUBSET AliasRow]

AliasTypeOK ==
    /\ aliases \in SUBSET AliasRow /\ counter \in Nat
    /\ \A r \in aliases : r.alias \in 1..counter
    /\ \A r, s \in aliases : (r.alias = s.alias \/ r.id = s.id) => r = s
    /\ place \in [Items -> {0, 1}]
    /\ worker \in [Workers -> Work]
    /\ alhist \in [handed : SUBSET (Nat \X Items), dropped : SUBSET Nat, loose : SUBSET Nat,
                   aborts : 0..MaxAborts]

(* resolve() of an alias a caller was given finds the item it was given    *)
(* for - never another one, through lost races, aborted transactions and   *)
(* moves - or, if a rebind dropped it as a duplicate, nothing.  It finds   *)
(* it under its current id once the move's rebind is through, unless that  *)
(* rebind lost, or the alias was minted for an id already left behind      *)
(* (ids.py "Stable across moves").                                         *)
AliasMeansItem ==
    \A h \in alhist.handed :
        LET a == h[1]
            i == h[2]
        IN /\ a \in alhist.dropped \/ resolve(a) # {}
           /\ \A id \in resolve(a) :
                 /\ id[1] = i
                 /\ \/ id = Current(i)
                    \/ a \in alhist.loose
                    \/ \E w \in Workers : worker[w].id = Current(i)
                                          /\ worker[w].at \in {"rebind", "delete", "update"}
=============================================================================
