---------------------------- MODULE BridgeProofs ----------------------------
(***************************************************************************)
(* The bridge's stream: what the advisory lock and the sweep guarantee its *)
(* consumer, for any number of workers, mails, amendments and rebuilds.    *)
(***************************************************************************)
EXTENDS Bridge, FiniteSetTheorems, TLAPS

-----------------------------------------------------------------------------
(* Least and greatest numbers of a set.                                    *)

(* A set of numbers that is not empty has a least one. *)
LEMMA LeastExists ==
    ASSUME NEW T \in SUBSET Nat, T # {}
    PROVE  \E x \in T : \A y \in T : x <= y
  <1>1. PICK x \in T : \A y \in T : ~(<<y, x>> \in OpToRel(<, Nat))
    BY NatLessThanWellFounded, WFMin
  <1>2. ASSUME NEW y \in T PROVE x <= y
    <2>1. <<y, x>> \notin OpToRel(<, Nat)
      BY <1>1
    <2>2. ~(y < x)
      BY <2>1 DEF OpToRel
    <2> QED
      BY <2>2
  <1> QED
    BY <1>2

(* With a bound it also has a greatest one. *)
LEMMA GreatestExists ==
    ASSUME NEW S \in SUBSET Nat, S # {}, NEW n \in Nat, \A s \in S : s <= n
    PROVE  \E x \in S : \A y \in S : x >= y
  <1> DEFINE T == {n - s : s \in S}
  <1>1. T \subseteq Nat
    <2> SUFFICES ASSUME NEW s \in S PROVE n - s \in Nat
      OBVIOUS
    <2>1. s \in Nat /\ s <= n
      OBVIOUS
    <2> QED
      BY <2>1
  <1>2. T # {}
    OBVIOUS
  <1>3. PICK x \in T : \A y \in T : x <= y
    <2> HIDE DEF T
    <2> QED
      BY <1>1, <1>2, LeastExists
  <1>4. PICK s \in S : x = n - s
    OBVIOUS
  <1>5. \A y \in S : s >= y
    BY <1>3, <1>4
  <1> QED
    BY <1>5

(* What Max of such a set is. *)
LEMMA MaxIs ==
    ASSUME NEW S \in SUBSET Nat, S # {}, NEW n \in Nat, \A s \in S : s <= n
    PROVE  Max(S) \in S /\ \A y \in S : Max(S) >= y
  BY GreatestExists DEF Max

(* What Min of two numbers is. *)
LEMMA MinOfTwo ==
    ASSUME NEW a \in Nat, NEW b \in Nat
    PROVE  Min({a, b}) \in {a, b} /\ Min({a, b}) <= a /\ Min({a, b}) <= b
  <1>1. \E x \in {a, b} : \A y \in {a, b} : x <= y
    OBVIOUS
  <1> QED
    BY <1>1 DEF Min

-----------------------------------------------------------------------------
(* The inductive invariant.                                                *)

\* No two mails have one number.
Distinct(L) == \A m, k \in Mails : L[m].seq > 0 /\ L[m].seq = L[k].seq => m = k

\* The ledger: numbers are drawn from the sequence, and only for mail that is there.
LedgerOK ==
    /\ nextseq > 0
    /\ Distinct(ledger)
    /\ \A m \in Mails :
         /\ ledger[m].seq < nextseq
         /\ ledger[m].seq = 0 => ledger[m] = NoArrival
         /\ ledger[m].seq > 0 => mail[m].there
         /\ mail[m].there => mail[m].key > 0

\* The transactions: one has swept, one is the consumer's.
TxOK ==
    /\ \A w \in Pollers : \A m \in Mails :
         \/ tx[w].new[m] = NoArrival
         \/ tx[w].pc = "swept" /\ tx[w].new[m].seq > 0
    /\ \A w \in Pollers : tx[w].mine => tx[w].since = cons.cur
    /\ \A v, w \in Pollers : tx[v].pc = "swept" /\ tx[w].pc = "swept" => v = w
    /\ \A v, w \in Pollers : tx[v].mine /\ tx[w].mine => v = w

\* An uncommitted arrival a of mail m comes after all that is committed and after
\* the cursor, and keeps the identity of the mail.
Follows(a, m) ==
    /\ mail[m].there
    /\ a.seq < nextseq
    /\ \A k \in Mails : ledger[k].seq < a.seq
    /\ ~overtaken => \A k \in Mails : ledger[k].seen <= a.seen
    /\ ledger[m].seq > 0 => a.chat = ledger[m].chat /\ a.first = ledger[m].first
    /\ cons.cur.gen = gen => cons.cur.seq < a.seq

(* What a sweep has drawn and not committed comes after everything else.   *)
SweptOK ==
    \A w \in Pollers : \A m \in Mails : tx[w].new[m].seq > 0 =>
      /\ Follows(tx[w].new[m], m)
      /\ tx[w].new[m].seen = tx[w].start
      /\ \A k \in Mails : tx[w].new[k].seq = tx[w].new[m].seq => k = m

(* The consumer's cursor is of this ledger or an older one, and within it. *)
ConsOK ==
    /\ cons.cur.gen <= gen
    /\ cons.cur.gen = 0 => cons.cur.seq = 0
    /\ cons.cur.gen = gen => cons.cur.seq < nextseq

\* What was handed out is of rows that are there, and is what the ledger says.
HandedOK ==
    \A h \in handed :
        /\ mail[h[1]].there
        /\ ledger[h[1]].seq > 0 /\ ledger[h[1]].chat = h[2]
        /\ h[4] = IF h[3] # 0 THEN h[3] ELSE ledger[h[1]].first

(* What every step of the stream keeps.                                    *)
BridgeInv ==
    /\ BridgeTypeOK /\ LedgerOK /\ TxOK /\ SweptOK /\ ConsOK /\ HandedOK
    /\ NothingBehindCursor /\ UntilIsPrefix

-----------------------------------------------------------------------------
(* A transaction changes hands or ends without a commit: begins, fails, is *)
(* refused or is abandoned.                                                *)

(* The empty transaction, cursor and arrival are typed.                    *)
LEMMA NoTxType == NoTx \in Tx /\ NoCursor \in Cursor /\ NoArrival \in Arrival
  BY BridgeAssumption DEF NoTx, Tx, NoCursor, Cursor, NoArrival, Arrival, Seqs, Times, Chats

(* A transaction that draws nothing and commits nothing, and at most makes *)
(* the consumer start afresh.                                              *)
LEMMA TxMovesKeeps ==
    ASSUME BridgeInv, NEW w \in Pollers, NEW X \in Tx, tx' = [tx EXCEPT ![w] = X],
           UNCHANGED <<mail, ledger, nextseq, gen, clock, got, handed, overtaken>>,
           happened' \in 0..MaxEvents,
           \/ \A m \in Mails : X.new[m] = NoArrival
           \/ X.new = tx[w].new /\ X.start = tx[w].start /\ X.pc = tx[w].pc,
           X.pc = "swept" => tx[w].pc = "swept",
           \/ cons' = cons
           \/ cons' = Fresh /\ tx[w].mine /\ ~X.mine,
           X.mine => X.since = cons.cur /\ (tx[w].mine \/ ~Waiting)
    PROVE  BridgeInv'
  <1>1. /\ tx \in [Pollers -> Tx] /\ cons \in [phase : {"boot", "live"}, cur : Cursor]
        /\ gen \in 1..MaxGen /\ nextseq \in Nat /\ ledger \in [Mails -> Arrival]
    BY DEF BridgeInv, BridgeTypeOK, Seqs
  <1>2. tx' \in [Pollers -> Tx] /\ tx'[w] = X /\ \A v \in Pollers : v # w => tx'[v] = tx[v]
    BY <1>1
  <1>3. \/ cons' = cons
        \/ /\ cons'.cur.gen = 0 /\ cons'.cur.seq = 0 /\ tx[w].mine /\ ~X.mine
           /\ cons' \in [phase : {"boot", "live"}, cur : Cursor]
    BY NoTxType DEF Fresh, NoCursor
  <1>4. BridgeTypeOK'
    BY <1>1, <1>2, <1>3 DEF BridgeInv, BridgeTypeOK
  <1>5. LedgerOK' /\ UntilIsPrefix'
    BY DEF BridgeInv, LedgerOK, UntilIsPrefix, Distinct
  <1>6. TxOK'
    <2>1. \A v \in Pollers : \A m \in Mails :
            \/ tx'[v].new[m] = NoArrival
            \/ tx'[v].pc = "swept" /\ tx'[v].new[m].seq > 0
      BY <1>2 DEF BridgeInv, TxOK
    <2>2. \A v \in Pollers : tx'[v].mine => tx'[v].since = cons'.cur
      BY <1>2, <1>3 DEF BridgeInv, TxOK
    <2>3. \A u, v \in Pollers : tx'[u].pc = "swept" /\ tx'[v].pc = "swept" => u = v
      BY <1>2 DEF BridgeInv, TxOK
    <2>4. \A u, v \in Pollers : tx'[u].mine /\ tx'[v].mine => u = v
      BY <1>2 DEF BridgeInv, TxOK, Waiting
    <2> QED
      BY <2>1, <2>2, <2>3, <2>4 DEF TxOK
  <1>7. SweptOK'
    <2> SUFFICES ASSUME NEW v \in Pollers, NEW m \in Mails, tx'[v].new[m].seq > 0
                 PROVE  /\ Follows(tx[v].new[m], m)' /\ tx'[v].new = tx[v].new
                        /\ tx'[v].start = tx[v].start /\ tx[v].new[m].seq > 0
      BY DEF BridgeInv, SweptOK, Follows
    <2>1. tx'[v].new = tx[v].new /\ tx'[v].start = tx[v].start /\ tx[v].new[m].seq > 0
      BY <1>2 DEF NoArrival
    <2>2. Follows(tx[v].new[m], m)
      BY <2>1 DEF BridgeInv, SweptOK
    <2>3. cons'.cur.gen = gen => cons'.cur.seq < tx[v].new[m].seq
      BY <1>1, <1>3, <2>2 DEF Follows
    <2> QED
      BY <2>1, <2>2, <2>3 DEF Follows
  <1>8. ConsOK'
    BY <1>1, <1>3 DEF BridgeInv, ConsOK
  <1>9. HandedOK'
    BY DEF BridgeInv, HandedOK
  <1>10. NothingBehindCursor'
    BY <1>1, <1>3 DEF BridgeInv, NothingBehindCursor
  <1> QED
    BY <1>4, <1>5, <1>6, <1>7, <1>8, <1>9, <1>10 DEF BridgeInv

(* A poll opens a transaction, from the cursor or from outside.            *)
LEMMA BeginKeeps ==
    ASSUME BridgeInv, NEW w \in Pollers, NEW mine \in BOOLEAN, Begin(w, mine)
    PROVE  BridgeInv'
  <1> DEFINE X == [NoTx EXCEPT !.pc = "begun", !.start = clock, !.mine = mine,
                               !.since = IF mine THEN cons.cur ELSE NoCursor,
                               !.bounded = mine /\ cons.phase = "boot"]
  <1>1. clock \in Times /\ cons.cur \in Cursor /\ happened \in 0..MaxEvents
    BY DEF BridgeInv, BridgeTypeOK
  <1>2. NoTx \in Tx /\ NoCursor \in Cursor
    BY NoTxType
  <1>3. X \in Tx /\ X.pc = "begun" /\ X.mine = mine /\ (mine => X.since = cons.cur)
        /\ X.new = NoTx.new
    BY <1>1, <1>2 DEF Tx
  <1>4. \A m \in Mails : NoTx.new[m] = NoArrival
    BY DEF NoTx
  <1>5. /\ tx' = [tx EXCEPT ![w] = X] /\ ~(mine /\ Waiting)
        /\ UNCHANGED <<mail, ledger, nextseq, gen, clock, happened, cons, got, handed, overtaken>>
    BY DEF Begin
  <1> HIDE DEF X
  <1> QED
    BY <1>1, <1>3, <1>4, <1>5, TxMovesKeeps

(* A transaction ends without a commit.                                    *)
LEMMA EndKeeps ==
    ASSUME BridgeInv, NEW w \in Pollers, Refuse(w) \/ Fail(w)
    PROVE  BridgeInv'
  <1>1. NoTx \in Tx /\ (\A m \in Mails : NoTx.new[m] = NoArrival) /\ ~NoTx.mine
        /\ NoTx.pc = "idle"
    BY NoTxType DEF NoTx
  <1>2. happened' \in 0..MaxEvents
    BY BridgeAssumption DEF Refuse, Fail, Event, BridgeInv, BridgeTypeOK
  <1>3. /\ tx' = [tx EXCEPT ![w] = NoTx]
        /\ UNCHANGED <<mail, ledger, nextseq, gen, clock, got, handed, overtaken>>
        /\ cons' = cons \/ (cons' = Fresh /\ tx[w].mine)
    BY DEF Refuse, Fail
  <1> QED
    BY <1>1, <1>2, <1>3, TxMovesKeeps

(* A client hangs up: its transaction goes on, its answer is lost.         *)
LEMMA AbandonKeeps ==
    ASSUME BridgeInv, NEW w \in Pollers, Abandon(w)
    PROVE  BridgeInv'
  <1> DEFINE X == [tx[w] EXCEPT !.mine = FALSE]
  <1>1. tx \in [Pollers -> Tx]
    BY DEF BridgeInv, BridgeTypeOK
  <1>2. X \in Tx /\ ~X.mine /\ X.new = tx[w].new /\ X.start = tx[w].start /\ X.pc = tx[w].pc
    BY <1>1 DEF Tx
  <1>3. tx' = [tx EXCEPT ![w] = X]
    BY <1>1 DEF Abandon
  <1>4. happened' \in 0..MaxEvents
    BY BridgeAssumption DEF Abandon, Event, BridgeInv, BridgeTypeOK
  <1>5. UNCHANGED <<mail, ledger, nextseq, gen, clock, cons, got, handed, overtaken>>
    BY DEF Abandon
  <1> HIDE DEF X
  <1> QED
    BY <1>2, <1>3, <1>4, <1>5, TxMovesKeeps

-----------------------------------------------------------------------------
(* The store changes underneath.                                           *)

(* Time passes.                                                            *)
LEMMA ClockTicksKeeps ==
    ASSUME BridgeInv, ClockTicks
    PROVE  BridgeInv'
  <1>1. UNCHANGED <<mail, ledger, nextseq, gen, happened, tx, cons, got, handed, overtaken>>
    BY DEF ClockTicks
  <1>2. clock' \in Times
    BY BridgeAssumption DEF ClockTicks, BridgeInv, BridgeTypeOK, Times
  <1>3. BridgeTypeOK'
    BY <1>1, <1>2 DEF BridgeInv, BridgeTypeOK
  <1>4. LedgerOK' /\ TxOK' /\ ConsOK' /\ HandedOK' /\ NothingBehindCursor' /\ UntilIsPrefix'
    BY <1>1 DEF BridgeInv, LedgerOK, Distinct, TxOK, ConsOK, HandedOK,
                NothingBehindCursor, UntilIsPrefix
  <1>5. SweptOK'
    BY <1>1 DEF BridgeInv, SweptOK, Follows
  <1> QED
    BY <1>3, <1>4, <1>5 DEF BridgeInv

(* Mail that comes or is amended stays there and keeps a changekey. *)
LEMMA MailComesKeeps ==
    ASSUME BridgeInv, NEW m \in Mails, MailArrives(m) \/ Amend(m)
    PROVE  BridgeInv'
  <1>1. /\ UNCHANGED <<ledger, nextseq, gen, clock, tx, cons, got, handed, overtaken>>
        /\ Event
    BY DEF MailArrives, Amend
  <1>2. mail \in [Mails -> Row]
    BY DEF BridgeInv, BridgeTypeOK
  <1>3. /\ mail' \in [Mails -> Row]
        /\ \A k \in Mails : k # m => mail'[k] = mail[k]
        /\ mail'[m].there /\ mail'[m].key > 0
    <2>1. CASE MailArrives(m)
      <3>1. PICK c \in BOOLEAN, d \in Dates[m] :
               mail' = [mail EXCEPT ![m] = [there |-> TRUE, key |-> 1, conv |-> c, date |-> d]]
        BY <2>1 DEF MailArrives
      <3>2. [there |-> TRUE, key |-> 1, conv |-> c, date |-> d] \in Row
        BY BridgeAssumption DEF Row
      <3> QED
        BY <1>2, <3>1, <3>2
    <2>2. CASE Amend(m)
      <3>1. PICK c \in BOOLEAN, d \in Dates[m] :
               mail' = [mail EXCEPT ![m] = [there |-> TRUE, key |-> mail[m].key + 1, conv |-> c,
                                            date |-> d]]
        BY <2>2 DEF Amend
      <3>2. mail[m].key + 1 \in 0..MaxKey /\ mail[m].key + 1 > 0
        BY <1>2, <2>2, BridgeAssumption DEF Amend, Row
      <3>3. [there |-> TRUE, key |-> mail[m].key + 1, conv |-> c, date |-> d] \in Row
        BY <3>2, BridgeAssumption DEF Row
      <3> QED
        BY <1>2, <3>1, <3>2, <3>3
    <2> QED
      BY <2>1, <2>2
  <1>4. happened' \in 0..MaxEvents
    BY <1>1, BridgeAssumption DEF Event, BridgeInv, BridgeTypeOK
  <1>5. BridgeTypeOK'
    BY <1>1, <1>3, <1>4 DEF BridgeInv, BridgeTypeOK
  <1>6. LedgerOK'
    BY <1>1, <1>3 DEF BridgeInv, LedgerOK, Distinct
  <1>7. TxOK' /\ ConsOK' /\ NothingBehindCursor' /\ UntilIsPrefix'
    BY <1>1 DEF BridgeInv, TxOK, ConsOK, NothingBehindCursor, UntilIsPrefix
  <1>8. SweptOK'
    BY <1>1, <1>3 DEF BridgeInv, SweptOK, Follows
  <1>9. HandedOK'
    <2>1. \A h \in handed : h[1] \in Mails
      BY DEF BridgeInv, BridgeTypeOK
    <2> QED
      BY <1>1, <1>3, <2>1 DEF BridgeInv, HandedOK
  <1> QED
    BY <1>5, <1>6, <1>7, <1>8, <1>9 DEF BridgeInv

(* A mail is deleted with its arrival.                                     *)
LEMMA MailGoesKeeps ==
    ASSUME BridgeInv, NEW m \in Mails, MailGoes(m)
    PROVE  BridgeInv'
  <1>1. /\ UNCHANGED <<nextseq, gen, clock, tx, cons, got, overtaken>>
        /\ Event
        /\ handed' = {h \in handed : h[1] # m}
        /\ \A w \in Pollers : tx[w].new[m] = NoArrival
    BY DEF MailGoes
  <1>2. /\ mail \in [Mails -> Row]
        /\ ledger \in [Mails -> Arrival] /\ nextseq \in Nat /\ tx \in [Pollers -> Tx]
    BY DEF BridgeInv, BridgeTypeOK, Seqs
  <1>3. /\ mail' \in [Mails -> Row]
        /\ \A k \in Mails : k # m => mail'[k] = mail[k]
        /\ ~mail'[m].there
    BY <1>2, BridgeAssumption DEF MailGoes, NoMail, Row
  <1>4. /\ ledger' \in [Mails -> Arrival]
        /\ \A k \in Mails : k # m => ledger'[k] = ledger[k]
        /\ ledger'[m] = NoArrival
    BY <1>2, NoTxType DEF MailGoes
  <1>5. NoArrival.seq = 0 /\ NoArrival.seen = 0
    BY DEF NoArrival
  <1>6. happened' \in 0..MaxEvents
    BY <1>1, BridgeAssumption DEF Event, BridgeInv, BridgeTypeOK
  <1>7. BridgeTypeOK'
    BY <1>1, <1>3, <1>4, <1>6 DEF BridgeInv, BridgeTypeOK
  <1>8. LedgerOK'
    BY <1>1, <1>2, <1>3, <1>4, <1>5 DEF BridgeInv, LedgerOK, Distinct, Arrival, Seqs
  <1>9. TxOK' /\ ConsOK'
    BY <1>1 DEF BridgeInv, TxOK, ConsOK
  <1>10. SweptOK'
    <2> SUFFICES ASSUME NEW w \in Pollers, NEW k \in Mails, tx[w].new[k].seq > 0
                 PROVE  Follows(tx[w].new[k], k)'
      BY <1>1 DEF BridgeInv, SweptOK
    <2>1. k # m /\ Follows(tx[w].new[k], k)
      BY <1>1, <1>5 DEF BridgeInv, SweptOK
    <2>2. tx[w].new[k].seq \in Nat /\ tx[w].new[k].seen \in Nat
      BY <1>2 DEF Tx, Arrival, Seqs, Times
    <2> QED
      BY <1>1, <1>3, <1>4, <1>5, <2>1, <2>2 DEF Follows
  <1>11. HandedOK'
    <2>1. \A h \in handed : h[1] \in Mails
      BY DEF BridgeInv, BridgeTypeOK
    <2> QED
      BY <1>1, <1>3, <1>4, <2>1 DEF BridgeInv, HandedOK
  <1>12. NothingBehindCursor'
    BY <1>1, <1>4, <1>5, BridgeAssumption DEF BridgeInv, NothingBehindCursor
  <1>13. UntilIsPrefix'
    <2>1. \A k \in Mails : ledger[k].seq \in Nat
      BY <1>2 DEF Arrival, Seqs
    <2> QED
      BY <1>1, <1>4, <1>5, <2>1 DEF BridgeInv, UntilIsPrefix
  <1> QED
    BY <1>7, <1>8, <1>9, <1>10, <1>11, <1>12, <1>13 DEF BridgeInv

(* The ledger is rebuilt under a new generation.                           *)
LEMMA RebuildKeeps ==
    ASSUME BridgeInv, Rebuild
    PROVE  BridgeInv'
  <1>1. /\ gen' = gen + 1 /\ gen < MaxGen /\ nextseq' = 1 /\ Event
        /\ mail' = [m \in Mails |-> NoMail]
        /\ ledger' = [m \in Mails |-> NoArrival]
        /\ tx' = [w \in Pollers |-> NoTx]
        /\ got' = {} /\ handed' = {} /\ UNCHANGED <<clock, cons, overtaken>>
    BY DEF Rebuild
  <1>2. /\ NoArrival.seq = 0 /\ NoArrival.seen = 0
        /\ NoTx.pc = "idle" /\ ~NoTx.mine /\ \A m \in Mails : NoTx.new[m] = NoArrival
    BY DEF NoArrival, NoTx
  <1>3. \A m \in Mails : mail'[m] \in Row
                          /\ ~mail'[m].there
    BY <1>1, BridgeAssumption DEF NoMail, Row
  <1>4. happened' \in 0..MaxEvents /\ gen' \in 1..MaxGen
    BY <1>1, BridgeAssumption DEF Event, BridgeInv, BridgeTypeOK
  <1>5. mail' \in [Mails -> Row]
    BY <1>1, <1>3
  <1>6. BridgeTypeOK'
    BY <1>1, <1>4, <1>5, NoTxType DEF BridgeInv, BridgeTypeOK, Seqs
  <1>7. LedgerOK'
    BY <1>1, <1>2, <1>3 DEF LedgerOK, Distinct
  <1>8. TxOK' /\ HandedOK'
    BY <1>1, <1>2 DEF TxOK, HandedOK
  <1>9. SweptOK'
    BY <1>1, <1>2 DEF SweptOK
  <1>10. ConsOK' /\ ~(cons'.cur.gen = gen')
    BY <1>1 DEF BridgeInv, BridgeTypeOK, ConsOK, Cursor
  <1>11. NothingBehindCursor' /\ UntilIsPrefix'
    BY <1>1, <1>2, <1>10 DEF NothingBehindCursor, UntilIsPrefix
  <1> QED
    BY <1>6, <1>7, <1>8, <1>9, <1>10, <1>11 DEF BridgeInv

-----------------------------------------------------------------------------
(* The sweep.                                                              *)

(* The sweep draws the next numbers under the lock.                        *)
LEMMA SweepKeeps ==
    ASSUME BridgeInv, NEW w \in Pollers, sweep(w)
    PROVE  BridgeInv'
  <1>1. /\ UNCHANGED <<mail, ledger, gen, clock, happened, cons, got, handed>>
        /\ nextseq' = nextseq + Cardinality(Unswept)
        /\ overtaken' = (overtaken \/ (/\ Unswept # {}
                                       /\ \E m \in Mails : ledger[m].seen > tx[w].start))
        /\ tx[w].pc = "begun" /\ \A v \in Pollers : tx[v].pc # "swept"
    BY DEF sweep, InsertArrivals
  <1>2. PICK rank \in [Unswept -> 0..(Cardinality(Unswept) - 1)] :
         /\ \A m, k \in Unswept : m # k => rank[m] # rank[k]
         /\ tx' = [tx EXCEPT ![w].pc = "swept",
                             ![w].new = [m \in Mails |->
                               IF m \in Unswept
                               THEN Swept(m, nextseq + rank[m], tx[w].start)
                               ELSE NoArrival]]
    BY DEF sweep, InsertArrivals
  <1>3. /\ tx \in [Pollers -> Tx] /\ ledger \in [Mails -> Arrival] /\ nextseq \in Nat
        /\ mail \in [Mails -> Row]
        /\ overtaken \in BOOLEAN
    BY DEF BridgeInv, BridgeTypeOK, Seqs
  <1>4. Unswept \subseteq Mails /\ Cardinality(Unswept) \in Nat
    <2>1. Unswept \in SUBSET Mails
      BY DEF Unswept
    <2>2. IsFiniteSet(Unswept)
      BY <2>1, FS_Subset, BridgeAssumption
    <2> QED
      BY <2>1, <2>2, FS_CardinalityType
  <1> DEFINE new == [m \in Mails |-> IF m \in Unswept
                                     THEN Swept(m, nextseq + rank[m], tx[w].start)
                                     ELSE NoArrival]
             X == [tx[w] EXCEPT !.pc = "swept", !.new = new]
  <1>5. ASSUME NEW m \in Unswept
        PROVE  /\ new[m] \in Arrival
               /\ new[m].seq = nextseq + rank[m] /\ new[m].seen = tx[w].start
               /\ ledger[m].seq > 0 => new[m].chat = ledger[m].chat /\ new[m].first = ledger[m].first
               /\ rank[m] \in Nat /\ rank[m] < Cardinality(Unswept)
    <2>1. rank[m] \in Nat /\ rank[m] < Cardinality(Unswept) /\ m \in Mails
      BY <1>4
    <2>2. /\ tx[w].start \in Times /\ nextseq + rank[m] \in Nat /\ mail[m].key \in 0..MaxKey
          /\ ledger[m] \in Arrival
      BY <1>3, <2>1 DEF Tx, Row
    <2>3. new[m] = Swept(m, nextseq + rank[m], tx[w].start)
      BY <2>1
    <2>4. CASE ledger[m].seq = 0
      BY <2>1, <2>2, <2>3, <2>4 DEF Swept, Arrival, Seqs, chat_native_id, Chats
    <2>5. CASE ledger[m].seq # 0
      BY <2>1, <2>2, <2>3, <2>5 DEF Swept, Arrival, Seqs
    <2> QED
      BY <2>1, <2>4, <2>5
  <1>6. new \in [Mails -> Arrival]
    BY <1>5, NoTxType
  <1>7. \A m \in Mails : m \notin Unswept => new[m] = NoArrival /\ new[m].seq = 0
    BY DEF NoArrival
  <1>8. \A m \in Unswept : new[m].seq > 0
    BY <1>3, <1>5 DEF BridgeInv, LedgerOK
  <1> HIDE DEF new
  <1>9. /\ X \in Tx /\ X.new = new /\ X.pc = "swept" /\ X.start = tx[w].start
        /\ X.mine = tx[w].mine /\ X.since = tx[w].since
    BY <1>3, <1>6 DEF Tx
  <1>10. tx' = [tx EXCEPT ![w] = X]
    BY <1>2, <1>3 DEF new
  <1> HIDE DEF X
  <1>11. tx' \in [Pollers -> Tx] /\ tx'[w] = X /\ \A v \in Pollers : v # w => tx'[v] = tx[v]
    BY <1>3, <1>9, <1>10
  <1>12. BridgeTypeOK'
    BY <1>1, <1>3, <1>4, <1>11 DEF BridgeInv, BridgeTypeOK, Seqs
  <1>13. LedgerOK' /\ ConsOK'
    <2>1. nextseq' \in Nat /\ nextseq' >= nextseq
      BY <1>1, <1>3, <1>4
    <2>2. \A m \in Mails : ledger[m].seq < nextseq'
      BY <1>3, <2>1 DEF BridgeInv, LedgerOK, Arrival, Seqs
    <2>3. cons.cur.gen = gen => cons.cur.seq < nextseq'
      BY <1>3, <2>1 DEF BridgeInv, ConsOK, BridgeTypeOK, Cursor, Seqs
    <2> QED
      BY <1>1, <1>3, <2>1, <2>2, <2>3 DEF BridgeInv, LedgerOK, Distinct, ConsOK
  <1>14. TxOK'
    <2>1. \A v \in Pollers : \A m \in Mails :
            \/ tx'[v].new[m] = NoArrival
            \/ tx'[v].pc = "swept" /\ tx'[v].new[m].seq > 0
      BY <1>7, <1>8, <1>9, <1>11 DEF BridgeInv, TxOK
    <2>2. \A v \in Pollers : tx'[v].mine => tx'[v].since = cons'.cur
      BY <1>1, <1>9, <1>11 DEF BridgeInv, TxOK
    <2>3. \A u, v \in Pollers : tx'[u].pc = "swept" /\ tx'[v].pc = "swept" => u = v
      BY <1>1, <1>11
    <2>4. \A u, v \in Pollers : tx'[u].mine /\ tx'[v].mine => u = v
      BY <1>9, <1>11 DEF BridgeInv, TxOK
    <2> QED
      BY <2>1, <2>2, <2>3, <2>4 DEF TxOK
  <1>15. SweptOK'
    <2> SUFFICES ASSUME NEW v \in Pollers, NEW m \in Mails, tx'[v].new[m].seq > 0
                 PROVE  /\ Follows(tx[v].new[m], m)'
                        /\ tx'[v].new[m].seen = tx'[v].start
                        /\ \A k \in Mails : tx'[v].new[k].seq = tx'[v].new[m].seq => k = m
      BY DEF SweptOK
    <2>1. v = w /\ tx'[v] = X /\ m \in Unswept
      BY <1>1, <1>7, <1>9, <1>11 DEF BridgeInv, TxOK, NoArrival
    <2>2. \A k \in Mails : new[k].seq = new[m].seq => k = m
      <3> SUFFICES ASSUME NEW k \in Mails, new[k].seq = new[m].seq PROVE k = m
        OBVIOUS
      <3>1. k \in Unswept
        BY <1>7, <1>8, <2>1
      <3>2. rank[k] = rank[m]
        <4>1. new[k].seq = nextseq + rank[k] /\ new[m].seq = nextseq + rank[m]
          BY <1>5, <2>1, <3>1
        <4>2. rank[k] \in Nat /\ rank[m] \in Nat
          BY <1>5, <2>1, <3>1
        <4>3. nextseq + rank[k] = nextseq + rank[m]
          BY <4>1
        <4>4. nextseq \in Nat
          BY <1>3
        <4> QED
          BY <4>2, <4>3, <4>4
      <3> QED
        BY <1>2, <2>1, <3>1, <3>2
    <2>3. /\ mail[m].there
          /\ new[m].seq < nextseq'
          /\ \A k \in Mails : ledger[k].seq < new[m].seq
          /\ ledger[m].seq > 0 => new[m].chat = ledger[m].chat /\ new[m].first = ledger[m].first
          /\ cons.cur.gen = gen => cons.cur.seq < new[m].seq
      <3>1. mail[m].there
        BY <2>1 DEF Unswept
      <3>2. new[m].seq < nextseq' /\ nextseq <= new[m].seq /\ new[m].seq \in Nat
        BY <1>1, <1>3, <1>4, <1>5, <2>1
      <3>3. \A k \in Mails : ledger[k].seq < new[m].seq
        BY <1>3, <3>2 DEF BridgeInv, LedgerOK, Arrival, Seqs
      <3>4. cons.cur.gen = gen => cons.cur.seq < new[m].seq
        BY <1>3, <3>2 DEF BridgeInv, ConsOK, BridgeTypeOK, Cursor, Seqs
      <3> QED
        BY <1>5, <2>1, <3>1, <3>2, <3>3, <3>4
    <2>4. ~overtaken' => \A k \in Mails : ledger[k].seen <= new[m].seen
      <3>1. tx[w].start \in Nat /\ \A k \in Mails : ledger[k].seen \in Nat
        BY <1>3, BridgeAssumption DEF Arrival, Times, Tx
      <3>2. ~overtaken' => \A k \in Mails : ~(ledger[k].seen > tx[w].start)
        BY <1>1, <2>1
      <3>3. new[m].seen = tx[w].start
        BY <1>5, <2>1
      <3> QED
        BY <3>1, <3>2, <3>3
    <2> QED
      BY <1>1, <1>5, <1>9, <2>1, <2>2, <2>3, <2>4 DEF Follows
  <1>16. HandedOK' /\ NothingBehindCursor' /\ UntilIsPrefix'
    BY <1>1, <1>3 DEF BridgeInv, HandedOK, NothingBehindCursor, UntilIsPrefix
  <1> QED
    BY <1>12, <1>13, <1>14, <1>15, <1>16 DEF BridgeInv

-----------------------------------------------------------------------------
(* The commit and the page.                                                *)

(* Committing a sweep keeps the ledger in order, and a page bounded by     *)
(* `until' a prefix.                                                       *)
LEMMA ViewOK ==
    ASSUME BridgeInv, NEW w \in Pollers
    PROVE  /\ View(w) \in [Mails -> Arrival]
           /\ Distinct(View(w))
           /\ \A m \in Mails : /\ View(w)[m].seq < nextseq
                               /\ View(w)[m].seq = 0 => View(w)[m] = NoArrival
                               /\ View(w)[m].seq > 0 => mail[m].there
                               /\ ledger[m].seq > 0 =>
                                     /\ View(w)[m].seq > 0
                                     /\ View(w)[m].chat = ledger[m].chat
                                     /\ View(w)[m].first = ledger[m].first
           /\ ~overtaken => \A m, k \in Mails :
                 0 < View(w)[m].seq /\ View(w)[m].seq < View(w)[k].seq
                 => View(w)[m].seen <= View(w)[k].seen
  <1>1. /\ tx[w] \in Tx /\ ledger \in [Mails -> Arrival] /\ nextseq \in Nat
    BY DEF BridgeInv, BridgeTypeOK, Seqs
  <1>2. ASSUME NEW m \in Mails
        PROVE  /\ tx[w].new[m] \in Arrival /\ ledger[m] \in Arrival
               /\ tx[w].new[m].seq \in Nat /\ tx[w].new[m].seen \in Nat
               /\ ledger[m].seq \in Nat /\ ledger[m].seen \in Nat
               /\ tx[w].start \in Nat
    BY <1>1, BridgeAssumption DEF Tx, Arrival, Seqs, Times
  <1>3. ASSUME NEW m \in Mails, tx[w].new[m].seq # 0
        PROVE  /\ View(w)[m] = tx[w].new[m] /\ tx[w].new[m].seq > 0
               /\ Follows(tx[w].new[m], m) /\ tx[w].new[m].seen = tx[w].start
               /\ \A k \in Mails : tx[w].new[k].seq = tx[w].new[m].seq => k = m
    BY <1>2, <1>3 DEF View, BridgeInv, SweptOK
  <1>4. ASSUME NEW m \in Mails, tx[w].new[m].seq = 0
        PROVE  View(w)[m] = ledger[m]
    BY <1>4 DEF View
  <1>5. View(w) \in [Mails -> Arrival]
    BY <1>2 DEF View
  <1>6. Distinct(View(w))
    <2> SUFFICES ASSUME NEW m \in Mails, NEW k \in Mails,
                        View(w)[m].seq > 0, View(w)[m].seq = View(w)[k].seq
                 PROVE  m = k
      BY DEF Distinct
    <2>1. CASE tx[w].new[m].seq # 0 /\ tx[w].new[k].seq # 0
      BY <1>3, <2>1
    <2>2. CASE tx[w].new[m].seq # 0 /\ tx[w].new[k].seq = 0
      BY <1>2, <1>3, <1>4, <2>2 DEF Follows
    <2>3. CASE tx[w].new[m].seq = 0 /\ tx[w].new[k].seq # 0
      BY <1>2, <1>3, <1>4, <2>3 DEF Follows
    <2>4. CASE tx[w].new[m].seq = 0 /\ tx[w].new[k].seq = 0
      BY <1>4, <2>4 DEF BridgeInv, LedgerOK, Distinct
    <2> QED
      BY <2>1, <2>2, <2>3, <2>4
  <1>7. ASSUME NEW m \in Mails
        PROVE  /\ View(w)[m].seq < nextseq
               /\ View(w)[m].seq = 0 => View(w)[m] = NoArrival
               /\ View(w)[m].seq > 0 => mail[m].there
               /\ ledger[m].seq > 0 => /\ View(w)[m].seq > 0
                                       /\ View(w)[m].chat = ledger[m].chat
                                       /\ View(w)[m].first = ledger[m].first
    <2>1. CASE tx[w].new[m].seq # 0
      BY <1>3, <2>1 DEF Follows
    <2>2. CASE tx[w].new[m].seq = 0
      BY <1>4, <2>2 DEF BridgeInv, LedgerOK
    <2> QED
      BY <2>1, <2>2
  <1>8. ASSUME ~overtaken, NEW m \in Mails, NEW k \in Mails,
               0 < View(w)[m].seq, View(w)[m].seq < View(w)[k].seq
        PROVE  View(w)[m].seen <= View(w)[k].seen
    <2>1. CASE tx[w].new[m].seq # 0 /\ tx[w].new[k].seq # 0
      BY <1>2, <1>3, <2>1
    <2>2. CASE tx[w].new[m].seq # 0 /\ tx[w].new[k].seq = 0
      <3>1. ledger[k].seq < tx[w].new[m].seq
        BY <1>3, <2>2 DEF Follows
      <3> QED
        BY <1>2, <1>3, <1>4, <1>8, <2>2, <3>1
    <2>3. CASE tx[w].new[m].seq = 0 /\ tx[w].new[k].seq # 0
      BY <1>3, <1>4, <1>8, <2>3 DEF Follows
    <2>4. CASE tx[w].new[m].seq = 0 /\ tx[w].new[k].seq = 0
      BY <1>4, <1>8, <2>4 DEF BridgeInv, UntilIsPrefix
    <2> QED
      BY <2>1, <2>2, <2>3, <2>4
  <1> QED
    BY <1>5, <1>6, <1>7, <1>8

(* A page is closed below its last row, and NextSeq is that row's number. *)
LEMMA PageIsPrefix ==
    ASSUME NEW L \in [Mails -> Arrival], NEW after \in Nat, NEW bounded \in BOOLEAN,
           NEW n \in Nat, \A m \in Mails : L[m].seq <= n
    PROVE  LET rows == page(L, after, bounded)
               end == NextSeq(L, rows, after)
           IN /\ rows \subseteq Mails
              /\ end \in Nat /\ end >= after
              /\ \A m \in rows : L[m].seq > after
              /\ rows = {} => end = after
              /\ rows # {} => \E r \in rows : L[r].seq = end /\ (bounded => L[r].seen <= Edge)
              /\ \A m \in Mails :
                   L[m].seq > after /\ L[m].seq <= end /\ (bounded => L[m].seen <= Edge)
                   => m \in rows
  <1> DEFINE S == {m \in Mails : L[m].seq > after /\ (bounded => L[m].seen <= Edge)}
             Below(m) == {k \in S : L[k].seq < L[m].seq}
             rows == page(L, after, bounded)
             end == NextSeq(L, rows, after)
             seqs == {L[m].seq : m \in rows}
  <1>1. rows = {m \in S : Cardinality(Below(m)) < Limit}
    BY DEF page
  <1>2. \A m \in Mails : L[m].seq \in Nat
    BY DEF Arrival, Seqs
  <1>3. CASE rows = {}
    <2>1. end = after
      BY <1>3 DEF NextSeq
    <2> QED
      BY <1>2, <1>3, <2>1
  <1>4. CASE rows # {}
    <2>1. end = Max(seqs)
      BY <1>4 DEF NextSeq
    <2>2. seqs \in SUBSET Nat /\ seqs # {} /\ \A s \in seqs : s <= n
      BY <1>1, <1>2, <1>4
    <2>3. end \in seqs
      <3> HIDE DEF seqs, end
      <3> QED
        BY <2>1, <2>2, MaxIs
    <2>4. PICK r \in rows : L[r].seq = end
      BY <2>3
    <2>5. r \in S /\ Cardinality(Below(r)) < Limit
      BY <1>1, <2>4
    <2>6. ASSUME NEW m \in Mails, L[m].seq > after, L[m].seq <= end,
                 bounded => L[m].seen <= Edge
          PROVE  m \in rows
      <3>1. m \in S
        BY <2>6
      <3>2. Below(m) \in SUBSET Below(r)
        BY <1>2, <2>4, <2>5, <2>6
      <3>3. IsFiniteSet(Below(r))
        <4>1. Below(r) \in SUBSET Mails
          OBVIOUS
        <4> QED
          BY <4>1, FS_Subset, BridgeAssumption
      <3>4. /\ Cardinality(Below(m)) <= Cardinality(Below(r))
            /\ Cardinality(Below(r)) \in Nat /\ Cardinality(Below(m)) \in Nat
        <4> HIDE DEF Below
        <4>1. IsFiniteSet(Below(m)) /\ Cardinality(Below(m)) <= Cardinality(Below(r))
          BY <3>2, <3>3, FS_Subset
        <4> QED
          BY <3>3, <4>1, FS_CardinalityType
      <3>5. Cardinality(Below(m)) < Limit
        BY <2>5, <3>4, BridgeAssumption
      <3> QED
        BY <1>1, <3>1, <3>5
    <2>7. end \in Nat /\ end >= after
      BY <1>2, <2>4, <2>5
    <2>8. rows \subseteq S
      BY <1>1
    <2> QED
      BY <1>4, <2>4, <2>5, <2>6, <2>7, <2>8
  <1> QED
    BY <1>3, <1>4

(* A transaction commits and its page is answered.                         *)
LEMMA RespondKeeps ==
    ASSUME BridgeInv, NEW w \in Pollers, Respond(w)
    PROVE  BridgeInv'
  <1> DEFINE L == View(w)
             after == tx[w].since.seq
             rows == page(L, after, tx[w].bounded)
             end == NextSeq(L, rows, after)
             given == {<<m, L[m].chat, mail[m].date, SentAt(L, m)>> : m \in rows}
  <1>1. /\ tx[w].pc = "swept" /\ tx[w].since.gen \in {0, gen}
        /\ ledger' = L /\ tx' = [tx EXCEPT ![w] = NoTx]
        /\ UNCHANGED <<mail, nextseq, gen, clock, happened, overtaken>>
    BY DEF Respond
  <1>2. /\ tx \in [Pollers -> Tx] /\ cons \in [phase : {"boot", "live"}, cur : Cursor]
        /\ gen \in 1..MaxGen /\ nextseq \in Nat /\ ledger \in [Mails -> Arrival]
        /\ handed \subseteq (Mails \X Chats \X Nat \X Nat) /\ got \subseteq Nat
    BY DEF BridgeInv, BridgeTypeOK, Seqs
  <1>3. /\ tx' \in [Pollers -> Tx] /\ tx'[w] = NoTx
        /\ \A v \in Pollers : v # w => tx'[v] = tx[v]
    BY <1>1, <1>2, NoTxType
  <1>4. /\ ~NoTx.mine /\ NoTx.pc = "idle" /\ NoArrival.seq = 0
        /\ \A m \in Mails : NoTx.new[m] = NoArrival
    BY DEF NoTx, NoArrival
  <1>5. \A v \in Pollers : \A m \in Mails : tx'[v].new[m] = NoArrival
    BY <1>1, <1>3, <1>4 DEF BridgeInv, TxOK
  <1>6. /\ L \in [Mails -> Arrival] /\ Distinct(L)
        /\ \A m \in Mails : /\ L[m].seq < nextseq
                            /\ L[m].seq = 0 => L[m] = NoArrival
                            /\ L[m].seq > 0 => mail[m].there
                            /\ ledger[m].seq > 0 => /\ L[m].seq > 0
                                                    /\ L[m].chat = ledger[m].chat
                                                    /\ L[m].first = ledger[m].first
        /\ ~overtaken => \A m, k \in Mails :
              0 < L[m].seq /\ L[m].seq < L[k].seq => L[m].seen <= L[k].seen
    BY ViewOK
  <1>7. \A m \in Mails : \/ L[m] = ledger[m]
                         \/ /\ L[m] = tx[w].new[m]
                            /\ cons.cur.gen = gen => cons.cur.seq < L[m].seq
    <2> SUFFICES ASSUME NEW m \in Mails, tx[w].new[m].seq # 0
                 PROVE  /\ L[m] = tx[w].new[m]
                        /\ cons.cur.gen = gen => cons.cur.seq < L[m].seq
      BY DEF View
    <2>1. L[m] = tx[w].new[m] /\ tx[w].new[m].seq > 0
      BY <1>2 DEF View, Tx, Arrival, Seqs
    <2> QED
      BY <2>1 DEF BridgeInv, SweptOK, Follows
  <1>8. \A m \in Mails : L[m].seq \in Nat /\ L[m].seen \in Nat
                         /\ L[m].chat \in Chats /\ L[m].first \in Nat
    BY <1>6, BridgeAssumption DEF Arrival, Seqs, Times
  <1>9. tx[w].since \in Cursor /\ after \in Nat /\ tx[w].bounded \in BOOLEAN
    BY <1>2 DEF Tx, Cursor, Seqs
  <1> HIDE DEF L
  <1>10. LedgerOK'
    BY <1>1, <1>6 DEF BridgeInv, LedgerOK, Distinct
  <1>11. UntilIsPrefix'
    BY <1>1, <1>6 DEF UntilIsPrefix
  <1>12. SweptOK'
    BY <1>4, <1>5 DEF SweptOK
  <1>13. \A u, v \in Pollers : tx'[u].pc = "swept" /\ tx'[v].pc = "swept" => u = v
    BY <1>1, <1>3, <1>4 DEF BridgeInv, TxOK
  <1>14. CASE tx[w].mine
    <2>1. /\ cons' = [cur |-> [gen |-> gen, seq |-> end],
                      phase |-> IF tx[w].bounded /\ Cardinality(rows) = Limit
                                THEN "boot" ELSE "live"]
          /\ got' = IF tx[w].bounded THEN got ELSE got \cup {L[m].seq : m \in rows}
          /\ handed' = handed \cup given
      BY <1>14 DEF Respond, L
    <2>2. tx[w].since = cons.cur
      BY <1>14 DEF BridgeInv, TxOK
    <2>3. \A v \in Pollers : ~tx'[v].mine
      BY <1>3, <1>4, <1>14 DEF BridgeInv, TxOK
    <2>4. /\ rows \subseteq Mails
          /\ end \in Nat /\ end >= after
          /\ \A m \in rows : L[m].seq > after
          /\ rows = {} => end = after
          /\ rows # {} => \E r \in rows : L[r].seq = end /\ (tx[w].bounded => L[r].seen <= Edge)
          /\ \A m \in Mails :
               L[m].seq > after /\ L[m].seq <= end /\ (tx[w].bounded => L[m].seen <= Edge)
               => m \in rows
      <3>1. \A m \in Mails : L[m].seq <= nextseq
        BY <1>2, <1>6, <1>8
      <3>2. L \in [Mails -> Arrival] /\ nextseq \in Nat
        BY <1>2, <1>6
      <3> HIDE DEF after
      <3> QED
        BY <1>9, <3>1, <3>2, PageIsPrefix
    <2>5. after < nextseq
      BY <1>1, <1>2, <2>2 DEF BridgeInv, ConsOK, LedgerOK
    <2> HIDE DEF rows, end
    <2>6. end < nextseq
      BY <1>6, <2>4, <2>5
    <2>7. ASSUME NEW m \in rows
          PROVE  /\ L[m].seq > 0 /\ mail[m].there /\ L[m].chat \in Chats
                 /\ SentAt(L, m) \in Nat /\ mail[m].date \in Nat /\ m \in Mails
      <3>1. m \in Mails /\ L[m].seq > 0
        BY <1>8, <1>9, <2>4
      <3>2. mail[m].date \in Nat
        BY <3>1 DEF BridgeInv, BridgeTypeOK, Row
      <3> QED
        BY <1>6, <1>8, <3>1, <3>2 DEF SentAt
    <2>8. handed' \subseteq (Mails \X Chats \X Nat \X Nat)
      BY <1>2, <2>1, <2>7
    <2>9. got' \subseteq Nat
      BY <1>2, <1>8, <2>1, <2>4
    <2>10. cons' \in [phase : {"boot", "live"}, cur : Cursor]
      <3>1. [gen |-> gen, seq |-> end] \in Cursor
        BY <1>2, <2>4, BridgeAssumption DEF Cursor, Seqs
      <3> QED
        BY <2>1, <3>1
    <2>11. cons'.cur.gen = gen /\ cons'.cur.seq = end
      BY <2>1
    <2>12. BridgeTypeOK'
      BY <1>1, <1>3, <1>6, <2>8, <2>9, <2>10 DEF BridgeInv, BridgeTypeOK, Seqs
    <2>13. TxOK'
      BY <1>5, <1>13, <2>3 DEF TxOK
    <2>14. ConsOK'
      BY <1>1, <1>2, <2>6, <2>11 DEF ConsOK
    <2>15. HandedOK'
      <3> SUFFICES ASSUME NEW h \in handed'
                   PROVE  /\ mail'[h[1]].there
                          /\ ledger'[h[1]].seq > 0 /\ ledger'[h[1]].chat = h[2]
                          /\ h[4] = IF h[3] # 0 THEN h[3] ELSE ledger'[h[1]].first
        BY DEF HandedOK
      <3>1. CASE h \in handed
        <4>1. h[1] \in Mails
          BY <1>2, <3>1
        <4>2. /\ mail[h[1]].there
              /\ ledger[h[1]].seq > 0 /\ ledger[h[1]].chat = h[2]
              /\ h[4] = IF h[3] # 0 THEN h[3] ELSE ledger[h[1]].first
          BY <3>1 DEF BridgeInv, HandedOK
        <4> QED
          BY <1>1, <1>6, <4>1, <4>2
      <3>2. CASE h \in given
        <4>1. PICK m \in rows : h = <<m, L[m].chat, mail[m].date, SentAt(L, m)>>
          BY <3>2
        <4>2. h[1] = m /\ h[2] = L[m].chat /\ h[3] = mail[m].date /\ h[4] = SentAt(L, m)
          BY <4>1
        <4> QED
          BY <1>1, <2>7, <4>2 DEF SentAt
      <3> QED
        BY <2>1, <3>1, <3>2
    <2>16. NothingBehindCursor'
      <3> SUFFICES ASSUME ~overtaken, NEW m \in Mails, L[m].seen > Edge, L[m].seq <= end
                   PROVE  L[m].seq \in got'
        BY <1>1, <2>11 DEF NothingBehindCursor
      <3>1. CASE L[m].seq <= after
        <4>1. L[m].seq > 0
          BY <1>6, <1>8, BridgeAssumption DEF NoArrival
        <4>2. cons.cur.gen = gen
          <5>1. cons.cur.gen # 0
            BY <1>8, <2>2, <3>1, <4>1 DEF BridgeInv, ConsOK
          <5> QED
            BY <1>1, <2>2, <5>1
        <4>3. L[m] = ledger[m]
          BY <1>2, <1>7, <1>8, <1>9, <2>2, <3>1, <4>2
        <4>4. ledger[m].seq \in got
          BY <2>2, <3>1, <4>2, <4>3 DEF BridgeInv, NothingBehindCursor
        <4> QED
          BY <2>1, <4>3, <4>4
      <3>2. CASE L[m].seq > after /\ ~tx[w].bounded
        <4>1. m \in rows
          BY <2>4, <3>2
        <4> QED
          BY <2>1, <3>2, <4>1
      <3>3. CASE L[m].seq > after /\ tx[w].bounded
        <4>1. rows # {}
          BY <1>8, <1>9, <2>4, <3>3
        <4>2. PICK r \in rows : L[r].seq = end /\ L[r].seen <= Edge
          BY <2>4, <3>3, <4>1
        <4>3. r \in Mails /\ L[m].seq > 0
          BY <1>8, <1>9, <2>4, <3>3
        <4>4. CASE L[m].seq = end
          <5>1. m = r
            BY <1>6, <4>2, <4>3, <4>4 DEF Distinct
          <5> QED
            BY <1>8, <4>2, <5>1, BridgeAssumption
        <4>5. CASE L[m].seq < end
          <5>1. L[m].seen <= L[r].seen
            BY <1>6, <4>2, <4>3, <4>5
          <5> QED
            BY <1>8, <4>2, <4>3, <5>1, BridgeAssumption
        <4> QED
          BY <1>8, <2>4, <4>4, <4>5
      <3> QED
        BY <1>8, <1>9, <3>1, <3>2, <3>3
    <2> QED
      BY <1>10, <1>11, <1>12, <2>12, <2>13, <2>14, <2>15, <2>16 DEF BridgeInv
  <1>15. CASE ~tx[w].mine
    <2>1. UNCHANGED <<cons, got, handed>>
      BY <1>15 DEF Respond
    <2>2. BridgeTypeOK'
      BY <1>1, <1>3, <1>6, <2>1 DEF BridgeInv, BridgeTypeOK
    <2>3. TxOK'
      <3>1. \A v \in Pollers : tx'[v].mine => tx'[v].since = cons'.cur
        BY <1>3, <1>4, <2>1 DEF BridgeInv, TxOK
      <3>2. \A u, v \in Pollers : tx'[u].mine /\ tx'[v].mine => u = v
        BY <1>3, <1>4 DEF BridgeInv, TxOK
      <3> QED
        BY <1>5, <1>13, <3>1, <3>2 DEF TxOK
    <2>4. ConsOK'
      BY <1>1, <2>1 DEF BridgeInv, ConsOK
    <2>5. HandedOK'
      <3>1. \A h \in handed : h[1] \in Mails
        BY <1>2
      <3> QED
        BY <1>1, <1>6, <2>1, <3>1 DEF BridgeInv, HandedOK
    <2>6. NothingBehindCursor'
      <3> SUFFICES ASSUME ~overtaken, NEW m \in Mails, L[m].seen > Edge,
                          cons.cur.gen = gen, L[m].seq <= cons.cur.seq
                   PROVE  L[m].seq \in got
        BY <1>1, <2>1 DEF NothingBehindCursor
      <3>1. L[m] = ledger[m]
        BY <1>2, <1>7, <1>8 DEF Cursor, Seqs
      <3> QED
        BY <3>1 DEF BridgeInv, NothingBehindCursor
    <2> QED
      BY <1>10, <1>11, <1>12, <2>2, <2>3, <2>4, <2>5, <2>6 DEF BridgeInv
  <1> QED
    BY <1>14, <1>15

-----------------------------------------------------------------------------
(* Migration 005 starts the ledger in order.                               *)
LEMMA InitBridgeInv == BridgeInit => BridgeInv
  <1> SUFFICES ASSUME BridgeInit PROVE BridgeInv
    OBVIOUS
  <1> DEFINE at(m) == IF mail[m].date = 0 THEN clock ELSE Min({mail[m].date, clock})
  <1>1. PICK rank \in [Present -> 1..Cardinality(Present)] :
            /\ \A m, k \in Present : m # k => rank[m] # rank[k]
            /\ \A m, k \in Present : at(m) < at(k) => rank[m] < rank[k]
            /\ ledger = [m \in Mails |->
                          IF m \in Present
                          THEN [seq |-> rank[m], key |-> 1, seen |-> at(m),
                                first |-> at(m), chat |-> chat_native_id(m)]
                          ELSE NoArrival]
    BY DEF BridgeInit
  <1>2. /\ clock = 1 /\ happened = 0 /\ nextseq = Cardinality(Present) + 1 /\ gen = 1
        /\ tx = [w \in Pollers |-> NoTx] /\ cons = Fresh /\ got = {} /\ handed = {}
        /\ overtaken = FALSE
    BY DEF BridgeInit
  <1>d. PICK d \in [Present -> UNION {Dates[m] : m \in Present}] :
            /\ \A m \in Present : d[m] \in Dates[m]
            /\ mail = [m \in Mails |->
                        IF m \in Present
                        THEN [there |-> TRUE, key |-> 1, conv |-> FALSE, date |-> d[m]]
                        ELSE NoMail]
    BY DEF BridgeInit
  <1>t. mail \in [Mails -> Row]
    <2>1. ASSUME NEW m \in Mails PROVE mail[m] \in Row
      <3>1. CASE m \in Present
        <4>0. d[m] \in Dates[m]
          BY <1>d, <3>1
        <4>1. d[m] \in Nat
          BY <4>0, BridgeAssumption
        <4>2. 1 \in 0..MaxKey
          BY BridgeAssumption
        <4>3. mail[m] = [there |-> TRUE, key |-> 1, conv |-> FALSE, date |-> d[m]]
          BY <1>d, <3>1
        <4> QED
          BY <4>1, <4>2, <4>3 DEF Row
      <3>2. CASE m \notin Present
        BY <1>d, <3>2, BridgeAssumption DEF Row, NoMail
      <3> QED
        BY <3>1, <3>2
    <2> QED
      BY <1>d, <2>1
  <1>3. Cardinality(Present) \in Nat
    BY FS_Subset, FS_CardinalityType, BridgeAssumption
  <1>4. ASSUME NEW m \in Mails PROVE at(m) \in 0..1
    <2>1. mail[m].date \in Nat
      BY <1>t DEF Row
    <2>2. Min({mail[m].date, 1}) \in {mail[m].date, 1} /\ Min({mail[m].date, 1}) <= 1
      BY <2>1, MinOfTwo
    <2> QED
      BY <1>2, <2>1, <2>2
  <1> HIDE DEF at
  <1>5. \A m \in Present : /\ m \in Mails /\ ledger[m].seq = rank[m] /\ ledger[m].seen = at(m)
                           /\ rank[m] \in Nat /\ rank[m] > 0 /\ rank[m] < nextseq
                           /\ mail[m].there /\ mail[m].key = 1
    BY <1>1, <1>2, <1>3, <1>d, BridgeAssumption
  <1>6. \A m \in Mails : m \notin Present => /\ ledger[m] = NoArrival /\ ledger[m].seq = 0
                                             /\ ledger[m].seen = 0 /\ ~mail[m].there
    BY <1>1, <1>d DEF NoArrival, NoMail
  <1>7. \A m \in Mails : ledger[m] \in Arrival
    <2>1. ASSUME NEW m \in Present PROVE ledger[m] \in Arrival
      <3>1. ledger[m] = [seq |-> rank[m], key |-> 1, seen |-> at(m),
                         first |-> at(m), chat |-> chat_native_id(m)]
        BY <1>1, BridgeAssumption
      <3>2. at(m) \in Times
        BY <1>4, BridgeAssumption DEF Times
      <3>3. rank[m] \in Seqs /\ chat_native_id(m) \in Chats /\ 1 \in 0..MaxKey
        BY <1>5, BridgeAssumption DEF Seqs, chat_native_id, Chats
      <3> QED
        BY <3>1, <3>2, <3>3 DEF Arrival
    <2> QED
      BY <1>6, <2>1, NoTxType
  <1>8. /\ NoTx.pc = "idle" /\ ~NoTx.mine /\ NoArrival.seq = 0
        /\ \A m \in Mails : NoTx.new[m] = NoArrival
        /\ Fresh.cur = NoCursor /\ NoCursor.gen = 0 /\ NoCursor.seq = 0
    BY DEF NoTx, NoArrival, Fresh, NoCursor
  <1>9. BridgeTypeOK
    <2>1. ledger \in [Mails -> Arrival]
      BY <1>1, <1>7
    <2>2. mail \in [Mails -> Row]
      BY <1>t
    <2>3. cons \in [phase : {"boot", "live"}, cur : Cursor]
      BY <1>2, NoTxType DEF Fresh
    <2>4. nextseq \in Seqs /\ gen \in 1..MaxGen /\ clock \in Times /\ happened \in 0..MaxEvents
      BY <1>2, <1>3, BridgeAssumption DEF Seqs, Times
    <2>5. tx \in [Pollers -> Tx]
      BY <1>2, NoTxType
    <2> QED
      BY <1>2, <2>1, <2>2, <2>3, <2>4, <2>5 DEF BridgeTypeOK
  <1>10. LedgerOK
    <2>1. Distinct(ledger)
      BY <1>1, <1>5, <1>6 DEF Distinct
    <2> QED
      <3>1. nextseq \in Nat /\ nextseq > 0
        BY <1>2, <1>3
      <3>2. ASSUME NEW m \in Mails
            PROVE  /\ ledger[m].seq < nextseq
                   /\ ledger[m].seq = 0 => ledger[m] = NoArrival
                   /\ ledger[m].seq > 0 => mail[m].there
                   /\ mail[m].there => mail[m].key > 0
        <4>1. CASE m \in Present
          BY <1>5, <4>1
        <4>2. CASE m \notin Present
          BY <1>6, <3>1, <4>2
        <4> QED
          BY <4>1, <4>2
      <3> QED
        BY <2>1, <3>1, <3>2 DEF LedgerOK
  <1>11. TxOK /\ SweptOK /\ ConsOK /\ HandedOK /\ NothingBehindCursor
    BY <1>2, <1>8 DEF TxOK, SweptOK, ConsOK, HandedOK, NothingBehindCursor
  <1>12. UntilIsPrefix
    <2> SUFFICES ASSUME NEW m \in Mails, NEW k \in Mails, 0 < ledger[m].seq,
                        ledger[m].seq < ledger[k].seq
                 PROVE  ledger[m].seen <= ledger[k].seen
      BY DEF UntilIsPrefix
    <2>1. m \in Present /\ k \in Present
      BY <1>5, <1>6
    <2>2. ~(at(k) < at(m))
      BY <1>1, <1>5, <2>1
    <2> QED
      BY <1>4, <1>5, <2>1, <2>2
  <1> QED
    BY <1>9, <1>10, <1>11, <1>12 DEF BridgeInv

-----------------------------------------------------------------------------
(* Every step of the bridge keeps the invariant. *)
LEMMA BridgeInvInductive == BridgeInv /\ [BridgeNext]_bridgeVars => BridgeInv'
  <1> SUFFICES ASSUME BridgeInv, [BridgeNext]_bridgeVars PROVE BridgeInv'
    OBVIOUS
  <1>1. CASE UNCHANGED bridgeVars
    BY <1>1 DEF bridgeVars, BridgeInv, BridgeTypeOK, LedgerOK, Distinct, TxOK, SweptOK,
                Follows, ConsOK, HandedOK, NothingBehindCursor, UntilIsPrefix
  <1>2. CASE BridgeNext
    BY <1>2, ClockTicksKeeps, RebuildKeeps, MailComesKeeps, MailGoesKeeps, BeginKeeps,
       SweepKeeps, RespondKeeps, EndKeeps, AbandonKeeps DEF BridgeNext, WorkerStep
  <1> QED
    BY <1>1, <1>2

(* The invariant of the stream holds from the start.                       *)
LEMMA BridgeInvHolds == BridgeSpec => []BridgeInv
  BY InitBridgeInv, BridgeInvInductive, PTL DEF BridgeSpec

(* Ledger, transactions, clock and cursor keep their types; numbers stay   *)
(* below the sequence and the counters within their bounds.                *)
THEOREM BridgeTyped == BridgeSpec => []BridgeTypeOK
  BY BridgeInvHolds, PTL DEF BridgeInv

(* NothingBehindCursor, for any number of pollers, mails and rebuilds:     *)
(* whatever overlaps, fails or is retried, a mail of the consumer's window *)
(* with a number at or below its cursor was posted to it                   *)
(* (bridge/arrival.py).                                                    *)
THEOREM CursorLeavesNothingBehind == BridgeSpec => []NothingBehindCursor
  BY BridgeInvHolds, PTL DEF BridgeInv

(* UntilIsPrefix: unless a sweep was overtaken while it waited for the     *)
(* lock, arrival times follow the sequence, and a page bounded by `until'  *)
(* is a prefix of the stream.                                              *)
THEOREM UntilCutsAPrefix == BridgeSpec => []UntilIsPrefix
  BY BridgeInvHolds, PTL DEF BridgeInv

(* IdentityStable: as long as its row stays, a mail is handed out under    *)
(* one chat and with one send time per date_ts, however often it is        *)
(* amended, and /chats names that chat (bridge/arrival.py:91-99).          *)
THEOREM MailKeepsItsIdentity == BridgeSpec => []IdentityStable
  <1>1. BridgeInv => IdentityStable
    <2> SUFFICES ASSUME BridgeInv PROVE IdentityStable
      OBVIOUS
    <2>1. ASSUME NEW h \in handed
          PROVE  <<h[1], h[2]>> \in chats
      <3>1. h[1] \in Mails /\ mail[h[1]].there /\ ledger[h[1]].seq > 0 /\ ledger[h[1]].chat = h[2]
        BY <2>1 DEF BridgeInv, BridgeTypeOK, HandedOK
      <3> QED
        BY <3>1 DEF chats
    <2>2. \A a, b \in handed : a[1] = b[1] => a[2] = b[2] /\ (a[3] = b[3] => a[4] = b[4])
      BY DEF BridgeInv, HandedOK
    <2> QED
      BY <2>1, <2>2 DEF IdentityStable
  <1> QED
    BY <1>1, BridgeInvHolds, PTL
=============================================================================
