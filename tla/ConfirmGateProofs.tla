------------------------- MODULE ConfirmGateProofs -------------------------
(***************************************************************************)
(* The confirm gate lets nothing leave the mailbox unconfirmed, accepts a  *)
(* spent token only at its two seams, and keeps the hourly cap, for any    *)
(* number of calls, drafts, tokens and keys and any time limits.           *)
(***************************************************************************)
EXTENDS ConfirmGate, SequenceTheorems, TLAPS

\* The token of a call past the gate is for its target, and for the content
\* that the send will find, unless the draft was edited since.
Confirmed(c) ==
  /\ req[c].token \in used
  /\ req[c].token.target = req[c].target
  /\ req[c].target \in Drafts =>
       draft[req[c].target] \in {req[c].token.content, Gone} \/ edited[c]
  /\ req[c].target \in Acts => req[c].token.content = req[c].target

\* A replay that outlived its receipt has no token, but its draft has gone.
CallOK(c) ==
  /\ pc[c] \in {"preview", "gate"} => req[c].target \in Drafts
  /\ pc[c] = "gate" =>
       /\ content[c] \in Contents
       /\ draft[req[c].target] \in {content[c], Gone} \/ edited[c]
  /\ pc[c] = "work" =>
       /\ req[c].target \in Targets
       /\ Confirmed(c) \/ (req[c].target \in Drafts /\ draft[req[c].target] = Gone)
  /\ pc[c] = "record" =>
       /\ req[c].target \in Targets
       /\ req[c].target \in Drafts => draft[req[c].target] = Gone

CallsOK == \A c \in Calls : CallOK(c)

\* A receipt is that of a send that happened.
ReceiptsOK == \A k \in Keys : idem[k] # NoReceipt => draft[idem[k].draft] = Gone

\* The window st is what is left of all the passes p; what was dropped from it
\* is out of the window.
Account(st, p, now) ==
  /\ Len(st) <= Len(p)
  /\ \A j \in 1 .. Len(st) : st[j] = p[Len(p) - Len(st) + j]
  /\ \A i \in 1 .. (Len(p) - Len(st)) : now - p[i] > Window

\* RateHolds, of any history of passes.
Spaced(p) == \A i \in 1 .. (Len(p) - Cap) : p[i + Cap] - p[i] > Window

RateOK == Account(sendTimes, passed, clock)

\* A used token is on record, or its record went for one of three reasons.
UsedOK ==
  /\ \A t \in tokens : t.secret <= Secret
  /\ \A t \in used : \/ t \in consumed \/ t \in forgot
                     \/ t.exp * Ticks < clock
                     \/ t.secret # Secret

Inv ==
  /\ TypeOK
  /\ CallsOK /\ ReceiptsOK /\ SentIsConfirmed
  /\ RateOK /\ RateHolds
  /\ UsedOK /\ ReuseOnlyAtExpiry

-----------------------------------------------------------------------------
\* An instant in second e or earlier is before second e + 1 begins.
LEMMA SecondEnds ==
  ASSUME NEW n \in Nat, NEW q \in Nat \ {0}, NEW e \in Nat, e >= n \div q
  PROVE  n < (e + 1) * q
  <1>1. n \div q \in Nat /\ n < (n \div q + 1) * q
    OBVIOUS
  <1> DEFINE k == n \div q
  <1>2. k \in Nat /\ k <= e /\ n < (k + 1) * q
    BY <1>1
  <1> HIDE DEF k
  <1>3. (k + 1) * q <= (e + 1) * q
    BY <1>2
  <1> QED
    BY <1>2, <1>3

\* What the loop of _rate_guard leaves of the window.
LEMMA Recent ==
  ASSUME NEW s \in Seq(Nat), NEW k \in 1 .. (Len(s) + 1)
  PROVE  /\ SubSeq(s, k, Len(s)) \in Seq(Nat)
         /\ Len(SubSeq(s, k, Len(s))) = Len(s) - k + 1
         /\ \A j \in 1 .. (Len(s) - k + 1) : SubSeq(s, k, Len(s))[j] = s[k + j - 1]
  <1>1. k \in Int /\ Len(s) \in Int /\ \A i \in k .. Len(s) : s[i] \in Nat
    OBVIOUS
  <1> QED
    BY <1>1, SubSeqProperties

\* What has left the window stays out of it.
LEMMA AccountAges ==
  ASSUME NEW st \in Seq(Nat), NEW p \in Seq(Nat), NEW now \in Nat, Account(st, p, now)
  PROVE  Account(st, p, now + 1)
  <1> DEFINE later == now + 1
  <1>1. ASSUME NEW i \in 1 .. (Len(p) - Len(st)) PROVE later - p[i] > Window
    <2>1. now - p[i] > Window
      BY DEF Account
    <2>2. p[i] \in Nat
      BY DEF Account
    <2> QED
      BY <2>1, <2>2, GateAssumption
  <1> HIDE DEF later
  <1>2. Account(st, p, later)
    BY <1>1 DEF Account
  <1> QED
    BY <1>2 DEF later

\* Dropping what has left the window keeps the account.
LEMMA DroppingKeepsAccount ==
  ASSUME NEW st \in Seq(Nat), NEW p \in Seq(Nat), NEW now \in Nat, Account(st, p, now),
         NEW k \in 1 .. (Len(st) + 1), \A i \in 1 .. (k - 1) : now - st[i] > Window,
         NEW recent, recent = SubSeq(st, k, Len(st))
  PROVE  recent \in Seq(Nat) /\ Account(recent, p, now)
  <1>1. /\ recent \in Seq(Nat) /\ Len(recent) = Len(st) - k + 1
        /\ \A j \in 1 .. (Len(st) - k + 1) : recent[j] = st[k + j - 1]
    BY Recent
  <1>2. Len(recent) <= Len(p)
    BY <1>1 DEF Account
  <1>3. ASSUME NEW j \in 1 .. Len(recent) PROVE recent[j] = p[Len(p) - Len(recent) + j]
    <2>1. k + j - 1 \in 1 .. Len(st) /\ recent[j] = st[k + j - 1]
      BY <1>1
    <2>2. st[k + j - 1] = p[Len(p) - Len(st) + (k + j - 1)]
      BY <2>1 DEF Account
    <2>3. Len(p) - Len(st) + (k + j - 1) = Len(p) - Len(recent) + j
      BY <1>1
    <2> QED
      BY <2>1, <2>2, <2>3
  <1>4. ASSUME NEW i \in 1 .. (Len(p) - Len(recent)) PROVE now - p[i] > Window
    <2>1. CASE i <= Len(p) - Len(st)
      BY <2>1 DEF Account
    <2>2. CASE i > Len(p) - Len(st)
      <3>1. PICK j \in 1 .. (k - 1) : i = Len(p) - Len(st) + j
        <4>1. i - (Len(p) - Len(st)) \in 1 .. (k - 1)
          BY <1>1, <2>2 DEF Account
        <4>2. i \in Int /\ Len(p) \in Nat /\ Len(st) \in Nat
          BY <1>1
        <4> QED
          BY <4>1, <4>2, i = Len(p) - Len(st) + (i - (Len(p) - Len(st)))
      <3>2. st[j] = p[i]
        BY <3>1 DEF Account
      <3> QED
        BY <3>1, <3>2
    <2> QED
      BY <2>1, <2>2
  <1> QED
    BY <1>1, <1>2, <1>3, <1>4 DEF Account

\* One more pass fits when fewer than Cap are in the window: the Cap-th pass
\* before it has left.
LEMMA OneMoreFits ==
  ASSUME NEW st \in Seq(Nat), NEW p \in Seq(Nat), NEW now \in Nat, Account(st, p, now),
         Spaced(p), Len(st) < Cap,
         NEW st2, st2 = Append(st, now), NEW p2, p2 = Append(p, now)
  PROVE  Account(st2, p2, now) /\ Spaced(p2)
  <1>0. Cap \in Nat \ {0} /\ Window \in Nat
    BY GateAssumption
  <1>1. /\ st2 \in Seq(Nat) /\ Len(st2) = Len(st) + 1
        /\ \A j \in 1 .. Len(st) : st2[j] = st[j]
        /\ st2[Len(st) + 1] = now
    OBVIOUS
  <1>2. /\ p2 \in Seq(Nat) /\ Len(p2) = Len(p) + 1
        /\ \A j \in 1 .. Len(p) : p2[j] = p[j]
        /\ p2[Len(p) + 1] = now
    OBVIOUS
  <1>7. /\ Len(st) \in Nat /\ Len(p) \in Nat
        /\ Len(st2) = Len(st) + 1 /\ Len(p2) = Len(p) + 1
    BY <1>1, <1>2
  <1>3. ASSUME NEW j \in 1 .. Len(st2) PROVE st2[j] = p2[Len(p2) - Len(st2) + j]
    <2>1. CASE j \in 1 .. Len(st)
      <3>1. Len(p) - Len(st) + j \in 1 .. Len(p)
        BY <2>1 DEF Account
      <3>2. st[j] = p[Len(p) - Len(st) + j]
        BY <2>1 DEF Account
      <3>3. Len(p2) - Len(st2) + j = Len(p) - Len(st) + j
        BY <1>1, <1>2
      <3> QED
        BY <1>1, <1>2, <2>1, <3>1, <3>2, <3>3
    <2>2. CASE j = Len(st) + 1
      <3>1. Len(p2) - Len(st2) + j = Len(p) + 1
        BY <1>1, <1>2, <2>2
      <3> QED
        BY <1>1, <1>2, <2>2, <3>1
    <2>3. j \in 1 .. Len(st) \/ j = Len(st) + 1
      BY <1>7
    <2> QED
      BY <2>1, <2>2, <2>3
  <1>4. ASSUME NEW i \in 1 .. (Len(p2) - Len(st2)) PROVE now - p2[i] > Window
    <2>1. i \in 1 .. (Len(p) - Len(st)) /\ i \in 1 .. Len(p)
      BY <1>1, <1>2
    <2> QED
      BY <1>2, <2>1 DEF Account
  <1>5. Account(st2, p2, now)
    <2>1. Len(st2) <= Len(p2)
      BY <1>7 DEF Account
    <2> QED
      BY <1>3, <1>4, <2>1 DEF Account
  <1>6. ASSUME NEW i \in 1 .. (Len(p2) - Cap) PROVE p2[i + Cap] - p2[i] > Window
    <2>1. i \in 1 .. Len(p) /\ p2[i] = p[i]
      BY <1>0, <1>2
    <2>2. CASE i + Cap <= Len(p)
      <3>1. i \in 1 .. (Len(p) - Cap)
        BY <1>0, <1>7, <2>2
      <3>2. i + Cap \in 1 .. Len(p)
        BY <1>0, <1>7, <2>2
      <3> QED
        BY <1>2, <2>1, <3>1, <3>2 DEF Spaced
    <2>3. CASE i + Cap = Len(p) + 1
      <3>1. i \in 1 .. (Len(p) - Len(st))
        BY <1>0, <2>3
      <3>2. now - p[i] > Window
        BY <3>1 DEF Account
      <3> QED
        BY <1>2, <2>1, <2>3, <3>2
    <2>4. i + Cap \in Int /\ Len(p) \in Int /\ i + Cap <= Len(p) + 1
      BY <1>0, <1>7
    <2>5. \A a, b \in Int : a <= b + 1 => a <= b \/ a = b + 1
      OBVIOUS
    <2> QED
      BY <2>2, <2>3, <2>4, <2>5
  <1> QED
    BY <1>5, <1>6 DEF Spaced

-----------------------------------------------------------------------------
\* The handler is given the call r, which waits for the EWS pool.
ToWork(c, r) ==
  /\ pc' = [pc EXCEPT ![c] = "work"]
  /\ req' = [req EXCEPT ![c] = r]
  /\ content' = [content EXCEPT ![c] = Gone]
  /\ edited' = edited

\* Receipts are only dropped.
Fewer == idem' \in [Keys -> Receipts \cup {NoReceipt}]
         /\ \A k \in Keys : idem'[k] \in {idem[k], NoReceipt}

\* What a call past the rate guard, or stopped by it, does to the window.
WindowMove ==
  /\ sendTimes' \in Seq(Nat) /\ passed' \in Seq(Nat)
  /\ RateOK' /\ RateHolds'

\* Looking up a receipt drops receipts.
LEMMA PruneDrops ==
  ASSUME TypeOK, NEW k, NEW now, idem' = Pruned(k, now)
  PROVE  Fewer
  BY DEF TypeOK, Pruned, Fewer

\* The handler answers at once or goes to work.
LEMMA HandleEffect ==
  ASSUME TypeOK, NEW c \in Calls, NEW r, NEW now, Handle(c, r, now)
  PROVE  /\ Finish(c) \/ ToWork(c, r)
         /\ Fewer
         /\ failures' \in {0, failures}
  <1>1. Fewer
    BY PruneDrops DEF Handle
  <1> QED
    BY <1>1 DEF Handle, ToWork

\* _rate_guard and the handler.
LEMMA ExecuteEffect ==
  ASSUME TypeOK, RateOK, RateHolds, clock' = clock,
         NEW c \in Calls, NEW r, NEW now, Execute(c, r, now)
  PROVE  /\ Finish(c) \/ ToWork(c, r)
         /\ Fewer
         /\ failures' \in {0, failures}
         /\ WindowMove
  <1>1. PICK k \in 1 .. (Len(sendTimes) + 1) :
          LET recent == SubSeq(sendTimes, k, Len(sendTimes)) IN
          /\ \A i \in 1 .. (k - 1) : Expired(sendTimes[i])
          /\ \/ /\ Len(recent) >= Cap
                /\ sendTimes' = recent
                /\ Finish(c)
                /\ UNCHANGED <<idem, failures, passed>>
             \/ /\ Len(recent) < Cap
                /\ sendTimes' = Append(recent, clock)
                /\ passed' = Append(passed, clock)
                /\ Handle(c, r, now)
    BY DEF Execute
  <1> DEFINE recent == SubSeq(sendTimes, k, Len(sendTimes))
  <1>4. recent \in Seq(Nat) /\ Account(recent, passed, clock)
    <2>1. \A i \in 1 .. (k - 1) : clock - sendTimes[i] > Window
      BY <1>1 DEF Expired
    <2> QED
      BY <2>1, DroppingKeepsAccount DEF RateOK, TypeOK
  <1>2. CASE /\ sendTimes' = recent
             /\ Finish(c)
             /\ UNCHANGED <<idem, failures, passed>>
    <2>1. Fewer
      BY <1>2 DEF Fewer, TypeOK
    <2>2. WindowMove
      BY <1>2, <1>4 DEF WindowMove, RateOK, RateHolds, TypeOK
    <2> QED
      BY <1>2, <2>1, <2>2
  <1>3. CASE /\ Len(recent) < Cap
             /\ sendTimes' = Append(recent, clock)
             /\ passed' = Append(passed, clock)
             /\ Handle(c, r, now)
    <2>1. Account(sendTimes', passed', clock) /\ Spaced(passed')
      BY <1>3, <1>4, OneMoreFits DEF RateHolds, Spaced, TypeOK
    <2>2. sendTimes' \in Seq(Nat) /\ passed' \in Seq(Nat)
      BY <1>3, <1>4 DEF TypeOK
    <2>3. WindowMove
      BY <2>1, <2>2 DEF WindowMove, RateOK, RateHolds, Spaced
    <2> QED
      BY <1>3, <2>3, HandleEffect
  <1> QED
    BY <1>1, <1>2, <1>3 DEF recent

-----------------------------------------------------------------------------
(***************************************************************************)
(* Tokens.                                                                 *)
(***************************************************************************)
\* What any step does to the tokens and to what is known of them.
TokenMove ==
  /\ tokens' \subseteq Tokens /\ tokens \subseteq tokens' /\ used \subseteq used'
  /\ consumed' \subseteq tokens' /\ used' \subseteq tokens' /\ forgot' \subseteq tokens'
  /\ again' \subseteq [token : tokens', at : Nat]
  /\ UsedOK' /\ ReuseOnlyAtExpiry'

\* Times and secrets are numbers.
LEMMA TokenTimes ==
  ASSUME TypeOK
  PROVE  /\ Secret \in Nat /\ Second \in Nat /\ clock \in Nat
         /\ \A t \in tokens : /\ t.exp \in Nat /\ t.exp * Ticks \in Nat /\ t.secret \in Nat
  <1>1. Ticks \in Nat \ {0} /\ clock \in Nat /\ boots \in Nat
    BY GateAssumption DEF TypeOK
  <1>2. Second \in Nat
    BY <1>1 DEF Second
  <1>3. \A t \in tokens : t.exp \in Nat /\ t.secret \in Nat
    BY DEF TypeOK, Tokens
  <1>4. \A n \in Nat : n * Ticks \in Nat
    BY <1>1
  <1> QED
    BY <1>1, <1>2, <1>3, <1>4 DEF Secret

\* A minted token carries the secret in use.
LEMMA MintMoves ==
  ASSUME Inv, UNCHANGED <<clock, boots>>, NEW c, NEW r, NEW s,
         r.target \in Targets, r.form \in Forms, s \in Contents \cup Acts,
         MintToken(c, r, s)
  PROVE  TokenMove
  <1>1. Minted(r, s) \in Tokens /\ Minted(r, s).secret = Secret
    BY TokenTimes, GateAssumption DEF Inv, Minted, Tokens
  <1>2. tokens' = tokens \cup {Minted(r, s)} /\ UNCHANGED <<consumed, used, again, forgot>>
    BY DEF MintToken
  <1>3. Secret' = Secret
    BY DEF Secret
  <1>4. UsedOK'
    BY <1>1, <1>2, <1>3, TokenTimes DEF Inv, UsedOK
  <1>5. ReuseOnlyAtExpiry'
    BY <1>2 DEF Inv, ReuseOnlyAtExpiry
  <1> QED
    BY <1>1, <1>2, <1>4, <1>5 DEF Inv, TypeOK, TokenMove

\* The prune drops only what has expired.
LEMMA PruneExpired ==
  ASSUME Inv, NEW t \in used, t \notin StillConsumed
  PROVE  t \in forgot \/ t.exp * Ticks < clock \/ t.secret # Secret
  <1>1. t.exp * Ticks \in Nat /\ clock \in Nat
    BY TokenTimes DEF Inv, TypeOK
  <1>2. t \in consumed => t.exp * Ticks < clock
    BY <1>1 DEF StillConsumed
  <1> QED
    BY <1>2 DEF Inv, UsedOK

\* A rejected token changes nothing but the prune.
LEMMA RejectMoves ==
  ASSUME Inv, UNCHANGED <<clock, boots>>, NEW c, NEW r, NEW s, RejectToken(c, r, s)
  PROVE  TokenMove
  <1>1. UNCHANGED <<tokens, used, again, forgot>> /\ consumed' \in {consumed, StillConsumed}
    BY DEF RejectToken
  <1>2. Secret' = Secret
    BY DEF Secret
  <1>3. UsedOK'
    <2>1. ASSUME NEW t \in used
          PROVE  t \in consumed' \/ t \in forgot \/ t.exp * Ticks < clock \/ t.secret # Secret
      BY <1>1, PruneExpired DEF Inv, UsedOK
    <2> QED
      BY <1>1, <1>2, <2>1 DEF Inv, UsedOK
  <1>4. ReuseOnlyAtExpiry'
    BY <1>1 DEF Inv, ReuseOnlyAtExpiry
  <1> QED
    BY <1>1, <1>3, <1>4 DEF Inv, TypeOK, TokenMove, StillConsumed

\* A token accepted again is in its last second, or was forgotten.
LEMMA SpendMoves ==
  ASSUME Inv, UNCHANGED <<clock, boots>>, NEW c, NEW r, NEW s,
         r.token \in tokens \cup {NoToken}, SpendToken(c, r, s)
  PROVE  TokenMove
  <1>1. /\ r.token \in tokens /\ r.token \notin StillConsumed
        /\ r.token.secret = Secret /\ r.token.exp >= Second
    BY DEF SpendToken, verify_token
  <1>2. /\ UNCHANGED <<tokens, forgot>>
        /\ consumed' = StillConsumed \cup {r.token}
        /\ used' = used \cup {r.token}
        /\ again' = IF r.token \in used
                      THEN again \cup {[token |-> r.token, at |-> clock]} ELSE again
    BY DEF SpendToken
  <1>3. Secret' = Secret
    BY DEF Secret
  <1>4. UsedOK'
    <2>1. ASSUME NEW t \in used
          PROVE  t \in consumed' \/ t \in forgot \/ t.exp * Ticks < clock \/ t.secret # Secret
      BY <1>2, PruneExpired
    <2> QED
      BY <1>2, <1>3, <2>1 DEF Inv, UsedOK
  <1>5. ASSUME r.token \in used
        PROVE  \/ r.token \in forgot
               \/ r.token.exp * Ticks < clock /\ clock < (r.token.exp + 1) * Ticks
    <2>1. r.token.exp \in Nat /\ clock \in Nat /\ Ticks \in Nat \ {0}
      BY <1>1, TokenTimes, GateAssumption DEF Inv
    <2>2. clock < (r.token.exp + 1) * Ticks
      BY <1>1, <2>1, SecondEnds DEF Second
    <2> QED
      BY <1>1, <1>5, <2>2, PruneExpired
  <1>6. ReuseOnlyAtExpiry'
    BY <1>2, <1>5 DEF Inv, ReuseOnlyAtExpiry
  <1>7. again' \subseteq [token : tokens', at : Nat]
    BY <1>1, <1>2 DEF Inv, TypeOK
  <1> QED
    BY <1>1, <1>2, <1>4, <1>6, <1>7 DEF Inv, TypeOK, TokenMove, StillConsumed

-----------------------------------------------------------------------------
(***************************************************************************)
(* Calls.                                                                  *)
(***************************************************************************)
\* The gate ends the call or hands it to the handler with a token for it.
LEMMA GateEffect ==
  ASSUME Inv, UNCHANGED <<clock, boots>>, NEW c \in Calls,
         NEW r \in RequestsWith(tokens \cup {NoToken}), NEW s \in Contents \cup Acts,
         Gate(c, r, s)
  PROVE  /\ \/ Finish(c)
            \/ /\ ToWork(c, r)
               /\ r.token \in used' /\ r.token.target = r.target /\ r.token.content = s
         /\ Fewer /\ failures' \in {0, failures}
         /\ WindowMove /\ TokenMove
  <1>1. r.target \in Targets /\ r.form \in Forms /\ r.token \in tokens \cup {NoToken}
    BY DEF RequestsWith, Targets, Forms
  <1>2. ASSUME UNCHANGED <<sendTimes, idem, failures, passed>>
        PROVE  Fewer /\ failures' \in {0, failures} /\ WindowMove
    BY <1>2 DEF Inv, TypeOK, Fewer, WindowMove, RateOK, RateHolds
  <1>3. CASE MintToken(c, r, s)
    BY <1>1, <1>2, <1>3, MintMoves DEF MintToken
  <1>4. CASE RejectToken(c, r, s)
    BY <1>2, <1>4, RejectMoves DEF RejectToken
  <1>5. CASE SpendToken(c, r, s)
    <2>1. r.token \in used' /\ r.token.target = r.target /\ r.token.content = s
      BY <1>5 DEF SpendToken, verify_token
    <2>2. TokenMove
      BY <1>1, <1>5, SpendMoves
    <2>3. Execute(c, r, clock)
      BY <1>5 DEF SpendToken
    <2> QED
      BY <2>1, <2>2, <2>3, ExecuteEffect DEF Inv
  <1> QED
    BY <1>3, <1>4, <1>5 DEF Gate

\* More tokens, more requests.
LEMMA RequestsGrow ==
  ASSUME NEW S, NEW T, S \subseteq T
  PROVE  RequestsWith(S) \subseteq RequestsWith(T)
  BY DEF RequestsWith

\* The part of TypeOK about calls.
CallsTyped ==
  /\ pc \in [Calls -> {"idle", "preview", "gate", "work", "record"}]
  /\ req \in [Calls -> RequestsWith(tokens \cup {NoToken}) \cup {NoRequest}]
  /\ content \in [Calls -> Contents \cup {Gone}]
  /\ edited \in [Calls -> BOOLEAN]

\* A call that ends leaves the calls well typed.
LEMMA FinishTyped ==
  ASSUME TypeOK, NEW c \in Calls, Finish(c), tokens \subseteq tokens'
  PROVE  CallsTyped'
  <1>1. RequestsWith(tokens \cup {NoToken}) \subseteq RequestsWith(tokens' \cup {NoToken})
    BY RequestsGrow
  <1>2. req' \in [Calls -> RequestsWith(tokens' \cup {NoToken}) \cup {NoRequest}]
    BY <1>1 DEF Finish, TypeOK
  <1> QED
    BY <1>2 DEF Finish, TypeOK, CallsTyped

\* So does a call that goes to work.
LEMMA ToWorkTyped ==
  ASSUME TypeOK, NEW c \in Calls, NEW r \in RequestsWith(tokens \cup {NoToken}),
         ToWork(c, r), tokens \subseteq tokens'
  PROVE  CallsTyped'
  <1>1. RequestsWith(tokens \cup {NoToken}) \subseteq RequestsWith(tokens' \cup {NoToken})
    BY RequestsGrow
  <1>2. req' \in [Calls -> RequestsWith(tokens' \cup {NoToken}) \cup {NoRequest}]
    BY <1>1 DEF ToWork, TypeOK
  <1> QED
    BY <1>2 DEF ToWork, TypeOK, CallsTyped

\* A call is not disturbed by what others do: its draft goes away, or the
\* edit is noted.
LEMMA CallStays ==
  ASSUME NEW k \in Calls, CallOK(k),
         pc'[k] = pc[k], req'[k] = req[k], content'[k] = content[k],
         edited[k] => edited'[k], used \subseteq used',
         \A d \in Drafts : \/ draft'[d] \in {draft[d], Gone}
                           \/ /\ draft[d] # Gone
                              /\ pc[k] \in {"gate", "work"} /\ req[k].target = d => edited'[k]
  PROVE  CallOK(k)'
  <1>0. pc[k] = "record" => CallOK(k)'
    BY DEF CallOK
  <1>1. pc[k] = "work" => CallOK(k)'
    BY DEF CallOK, Confirmed
  <1>2. pc[k] \in {"preview", "gate"} => CallOK(k)'
    BY DEF CallOK
  <1> QED
    BY <1>0, <1>1, <1>2 DEF CallOK

\* A call that ends leaves the others as they are.
LEMMA FinishKeeps ==
  ASSUME Inv, NEW c \in Calls, Finish(c), used \subseteq used',
         \A d \in Drafts : draft'[d] \in {draft[d], Gone}
  PROVE  CallsOK'
  <1> SUFFICES ASSUME NEW k \in Calls PROVE CallOK(k)'
    BY DEF CallsOK
  <1>1. CASE k = c
    BY <1>1 DEF Inv, TypeOK, Finish, CallOK
  <1>2. CASE k # c
    BY <1>2, CallStays DEF Inv, TypeOK, CallsOK, Finish
  <1> QED
    BY <1>1, <1>2

\* So does a call that goes to work with a token, or whose draft has gone.
LEMMA ToWorkKeeps ==
  ASSUME Inv, NEW c \in Calls, NEW r, ToWork(c, r), used \subseteq used', draft' = draft,
         r.target \in Targets,
         \/ /\ r.token \in used' /\ r.token.target = r.target
            /\ r.target \in Drafts =>
                 draft[r.target] \in {r.token.content, Gone} \/ edited[c]
            /\ r.target \in Acts => r.token.content = r.target
         \/ r.target \in Drafts /\ draft[r.target] = Gone
  PROVE  CallsOK'
  <1> SUFFICES ASSUME NEW k \in Calls PROVE CallOK(k)'
    BY DEF CallsOK
  <1>1. CASE k = c
    BY <1>1 DEF Inv, TypeOK, ToWork, CallOK, Confirmed
  <1>2. CASE k # c
    BY <1>2, CallStays DEF Inv, TypeOK, CallsOK, ToWork
  <1> QED
    BY <1>1, <1>2

-----------------------------------------------------------------------------
(***************************************************************************)
(* Steps.                                                                  *)
(***************************************************************************)
SentTyped == sent \subseteq [target : Targets, content : Contents \cup Acts,
                            token : tokens \cup {NoToken}, edited : BOOLEAN]

\* Inv, put together from its parts.
LEMMA Assemble ==
  ASSUME TokenMove, WindowMove, CallsTyped', SentTyped',
         clock' \in Nat, boots' \in Nat, draft' \in [Drafts -> Contents \cup {Gone}],
         idem' \in [Keys -> Receipts \cup {NoReceipt}],
         failures' \in 0 .. (Threshold - 1), openUntil' \in Nat,
         CallsOK', ReceiptsOK', SentIsConfirmed'
  PROVE  Inv'
  <1>1. TypeOK'
    BY DEF TokenMove, WindowMove, CallsTyped, SentTyped, TypeOK
  <1> QED
    BY <1>1 DEF Inv, TokenMove, WindowMove

\* Steps that leave tokens and window alone.
LEMMA QuietMoves ==
  ASSUME Inv, UNCHANGED <<clock, boots, sendTimes, passed, tokenVars>>
  PROVE  TokenMove /\ WindowMove
  <1>1. TokenMove
    BY DEF Inv, TypeOK, TokenMove, tokenVars, UsedOK, Secret, ReuseOnlyAtExpiry
  <1>2. WindowMove
    BY DEF Inv, TypeOK, WindowMove, RateOK, RateHolds
  <1> QED
    BY <1>1, <1>2

\* Receipts stay true while drafts only go away.
LEMMA ReceiptsStay ==
  ASSUME Inv, Fewer, \A d \in Drafts : draft'[d] \in {draft[d], Gone}
  PROVE  ReceiptsOK'
  <1> SUFFICES ASSUME NEW k \in Keys, idem'[k] # NoReceipt
               PROVE  draft'[idem'[k].draft] = Gone
    BY DEF ReceiptsOK
  <1>1. idem'[k] = idem[k] /\ idem[k] \in Receipts
    BY DEF Fewer, Inv, TypeOK
  <1>2. idem[k].draft \in Drafts /\ draft[idem[k].draft] = Gone
    BY <1>1 DEF Receipts, Inv, ReceiptsOK
  <1> QED
    BY <1>1, <1>2

\* What was sent stays confirmed.
LEMMA SentStays ==
  ASSUME Inv, sent' = sent, TokenMove
  PROVE  SentTyped' /\ SentIsConfirmed'
  <1>1. SentTyped'
    BY DEF Inv, TypeOK, SentTyped, TokenMove
  <1>2. SentIsConfirmed'
    BY DEF Inv, SentIsConfirmed, TokenMove
  <1> QED
    BY <1>1, <1>2

\* A call ends and nothing is sent.
LEMMA FinishStep ==
  ASSUME Inv, NEW c \in Calls, Finish(c), TokenMove, WindowMove, Fewer,
         UNCHANGED <<clock, boots, draft, sent>>,
         failures' \in 0 .. (Threshold - 1), openUntil' \in Nat
  PROVE  Inv'
  <1>1. /\ tokens \subseteq tokens' /\ used \subseteq used'
        /\ \A d \in Drafts : draft'[d] \in {draft[d], Gone}
    BY DEF TokenMove
  <1>2. CallsTyped' /\ CallsOK' /\ ReceiptsOK'
    BY <1>1, FinishTyped, FinishKeeps, ReceiptsStay DEF Inv
  <1>3. /\ clock' \in Nat /\ boots' \in Nat /\ draft' \in [Drafts -> Contents \cup {Gone}]
        /\ idem' \in [Keys -> Receipts \cup {NoReceipt}]
    BY DEF Inv, TypeOK, Fewer
  <1> QED
    BY <1>2, <1>3, SentStays, Assemble

\* A call passes on to its work.
LEMMA ToWorkStep ==
  ASSUME Inv, NEW c \in Calls, NEW r \in RequestsWith(tokens \cup {NoToken}),
         ToWork(c, r), TokenMove, WindowMove, Fewer,
         UNCHANGED <<clock, boots, draft, sent, openUntil>>, failures' \in {0, failures},
         \/ /\ r.token \in used' /\ r.token.target = r.target
            /\ r.target \in Drafts =>
                 draft[r.target] \in {r.token.content, Gone} \/ edited[c]
            /\ r.target \in Acts => r.token.content = r.target
         \/ r.target \in Drafts /\ draft[r.target] = Gone
  PROVE  Inv'
  <1>1. /\ tokens \subseteq tokens' /\ used \subseteq used' /\ r.target \in Targets
        /\ \A d \in Drafts : draft'[d] \in {draft[d], Gone}
    BY DEF TokenMove, RequestsWith, Targets
  <1>2. CallsTyped'
    BY <1>1, ToWorkTyped DEF Inv
  <1>3. CallsOK'
    BY <1>1, ToWorkKeeps
  <1>4. ReceiptsOK'
    BY <1>1, ReceiptsStay
  <1>5. /\ clock' \in Nat /\ boots' \in Nat /\ draft' \in [Drafts -> Contents \cup {Gone}]
        /\ idem' \in [Keys -> Receipts \cup {NoReceipt}] /\ openUntil' \in Nat
    BY DEF Inv, TypeOK, Fewer
  <1>6. failures' \in 0 .. (Threshold - 1)
    BY GateAssumption DEF Inv, TypeOK
  <1> QED
    BY <1>2, <1>3, <1>4, <1>5, <1>6, SentStays, Assemble

\* A call at the gate or at work has a request of its own.
LEMMA RequestPresent ==
  ASSUME Inv, NEW c \in Calls, pc[c] \in {"preview", "gate", "work", "record"}
  PROVE  req[c] \in RequestsWith(tokens \cup {NoToken}) /\ req[c].target \in Targets
  <1>1. req[c].target \in Targets
    BY DEF Inv, CallsOK, CallOK, Targets
  <1>2. req[c] # NoRequest
    BY <1>1, GateAssumption DEF NoRequest, Targets
  <1> QED
    BY <1>1, <1>2 DEF Inv, TypeOK

\* The upstream failure count stays below the threshold.
LEMMA FailureTyped ==
  ASSUME TypeOK, UpstreamFailure
  PROVE  failures' \in 0 .. (Threshold - 1) /\ openUntil' \in Nat
  <1>1. Threshold \in Nat \ {0} /\ OpenTicks \in Nat /\ failures \in Nat /\ clock \in Nat
    BY GateAssumption DEF TypeOK
  <1>2. CASE failures + 1 >= Threshold
    <2>1. failures' = 0 /\ openUntil' = clock + OpenTicks
      BY <1>2 DEF UpstreamFailure
    <2> QED
      BY <1>1, <2>1
  <1>3. CASE ~(failures + 1 >= Threshold)
    <2>1. failures' = failures + 1 /\ openUntil' = openUntil
      BY <1>3 DEF UpstreamFailure
    <2> QED
      BY <1>1, <1>3, <2>1 DEF TypeOK
  <1> QED
    BY <1>2, <1>3

\* send_draft waits for its preview.
LEMMA BeginKeeps ==
  ASSUME Inv, NEW c \in Calls, NEW r \in RequestsWith(tokens \cup {NoToken}), Begin(c, r)
  PROVE  Inv'
  <1>1. TokenMove /\ WindowMove
    BY QuietMoves DEF Begin
  <1>2. Fewer
    BY PruneDrops DEF Begin, Inv
  <1>3. CallsTyped'
    BY DEF Begin, Inv, TypeOK, CallsTyped, tokenVars
  <1>4. CallsOK'
    <2> SUFFICES ASSUME NEW k \in Calls PROVE CallOK(k)'
      BY DEF CallsOK
    <2>1. CASE k = c
      BY <2>1 DEF Begin, Inv, TypeOK, CallOK
    <2>2. CASE k # c
      BY <2>2, CallStays DEF Begin, Inv, TypeOK, CallsOK, tokenVars
    <2> QED
      BY <2>1, <2>2
  <1>5. ReceiptsOK'
    BY <1>2, ReceiptsStay DEF Begin
  <1>6. SentTyped' /\ SentIsConfirmed'
    BY <1>1, SentStays DEF Begin
  <1>7. UNCHANGED <<clock, boots, draft, failures, openUntil>>
    BY DEF Begin
  <1> QED
    BY <1>1, <1>2, <1>3, <1>4, <1>5, <1>6, <1>7, Assemble DEF Inv, TypeOK, Fewer

\* Only a call whose draft has gone skips the gate.
LEMMA ReplayKeeps ==
  ASSUME Inv, NEW c \in Calls, NEW r \in RequestsWith(tokens \cup {NoToken}), Replay(c, r)
  PROVE  Inv'
  <1>1. PICK later \in {0, 1} : Execute(c, r, clock + later)
    BY DEF Replay
  <1>2. UNCHANGED <<clock, draft, boots, openUntil, tokenVars, sent>>
    BY DEF Replay
  <1>3. r.target \in Drafts /\ draft[r.target] = Gone
    <2>1. /\ r.target \in Drafts /\ r.key # NoKey
          /\ idem[r.key] # NoReceipt /\ idem[r.key].draft = r.target
      BY DEF Replay, ConfirmNeeded, Live
    <2>2. r.key \in Keys
      BY <2>1 DEF RequestsWith
    <2> QED
      BY <2>1, <2>2 DEF Inv, ReceiptsOK
  <1>4. /\ Finish(c) \/ ToWork(c, r)
        /\ Fewer /\ failures' \in {0, failures} /\ WindowMove
    BY <1>1, <1>2, ExecuteEffect DEF Inv
  <1>5. TokenMove
    BY <1>2 DEF Inv, TypeOK, TokenMove, tokenVars, UsedOK, Secret, ReuseOnlyAtExpiry
  <1>6. failures' \in 0 .. (Threshold - 1) /\ openUntil' \in Nat
    BY <1>2, <1>4, GateAssumption DEF Inv, TypeOK
  <1>7. CASE Finish(c)
    BY <1>2, <1>4, <1>5, <1>6, <1>7, FinishStep
  <1>8. CASE ToWork(c, r)
    BY <1>2, <1>3, <1>4, <1>5, <1>8, ToWorkStep
  <1> QED
    BY <1>4, <1>7, <1>8

\* A tool without preview passes the gate at once.
LEMMA BeginActKeeps ==
  ASSUME Inv, NEW c \in Calls, NEW r \in RequestsWith(tokens \cup {NoToken}), BeginAct(c, r)
  PROVE  Inv'
  <1>1. r.target \in Acts /\ Gate(c, r, r.target) /\ r.target \notin Drafts
    BY GateAssumption DEF BeginAct
  <1>2. UNCHANGED <<clock, draft, boots, openUntil, sent>>
    BY DEF BeginAct
  <1>3. /\ \/ Finish(c)
           \/ /\ ToWork(c, r) /\ r.token \in used'
              /\ r.token.target = r.target /\ r.token.content = r.target
        /\ Fewer /\ failures' \in {0, failures} /\ WindowMove /\ TokenMove
    BY <1>1, <1>2, GateEffect
  <1>4. failures' \in 0 .. (Threshold - 1) /\ openUntil' \in Nat
    BY <1>2, <1>3, GateAssumption DEF Inv, TypeOK
  <1>5. CASE Finish(c)
    BY <1>2, <1>3, <1>4, <1>5, FinishStep
  <1>6. CASE /\ ToWork(c, r) /\ r.token \in used'
             /\ r.token.target = r.target /\ r.token.content = r.target
    BY <1>1, <1>2, <1>3, <1>6, ToWorkStep
  <1> QED
    BY <1>3, <1>5, <1>6

\* The gate compares the token with the content the preview fetched.
LEMMA GateStepKeeps ==
  ASSUME Inv, NEW c \in Calls, GateStep(c)
  PROVE  Inv'
  <1>1. /\ req[c] \in RequestsWith(tokens \cup {NoToken})
        /\ req[c].target \in Drafts /\ req[c].target \notin Acts
        /\ content[c] \in Contents
        /\ draft[req[c].target] \in {content[c], Gone} \/ edited[c]
    BY RequestPresent, GateAssumption DEF GateStep, Inv, CallsOK, CallOK
  <1>2. Gate(c, req[c], content[c]) /\ UNCHANGED <<clock, draft, boots, openUntil, sent>>
    BY DEF GateStep
  <1>3. /\ \/ Finish(c)
           \/ /\ ToWork(c, req[c]) /\ req[c].token \in used'
              /\ req[c].token.target = req[c].target /\ req[c].token.content = content[c]
        /\ Fewer /\ failures' \in {0, failures} /\ WindowMove /\ TokenMove
    BY <1>1, <1>2, GateEffect
  <1>4. failures' \in 0 .. (Threshold - 1) /\ openUntil' \in Nat
    BY <1>2, <1>3, GateAssumption DEF Inv, TypeOK
  <1>5. CASE Finish(c)
    BY <1>2, <1>3, <1>4, <1>5, FinishStep
  <1>6. CASE /\ ToWork(c, req[c]) /\ req[c].token \in used'
             /\ req[c].token.target = req[c].target /\ req[c].token.content = content[c]
    BY <1>1, <1>2, <1>3, <1>6, ToWorkStep
  <1> QED
    BY <1>3, <1>5, <1>6

\* The preview fetches the draft as it is.
LEMMA PreviewFetchKeeps ==
  ASSUME Inv, NEW c \in Calls, PreviewFetch(c)
  PROVE  Inv'
  <1>1. TokenMove /\ WindowMove
    BY QuietMoves DEF PreviewFetch
  <1>2. req[c].target \in Drafts /\ draft[req[c].target] \in Contents
    BY DEF PreviewFetch, Inv, TypeOK, CallsOK, CallOK
  <1>3. CallsTyped'
    BY <1>2 DEF PreviewFetch, Inv, TypeOK, CallsTyped, tokenVars
  <1>4. CallsOK'
    <2> SUFFICES ASSUME NEW k \in Calls PROVE CallOK(k)'
      BY DEF CallsOK
    <2>1. CASE k = c
      BY <1>2, <2>1 DEF PreviewFetch, Inv, TypeOK, CallOK
    <2>2. CASE k # c
      BY <2>2, CallStays DEF PreviewFetch, Inv, TypeOK, CallsOK, tokenVars
    <2> QED
      BY <2>1, <2>2
  <1>5. Fewer
    BY DEF PreviewFetch, Fewer, Inv, TypeOK
  <1>6. ReceiptsOK'
    BY <1>5, ReceiptsStay DEF PreviewFetch
  <1>7. SentTyped' /\ SentIsConfirmed'
    BY <1>1, SentStays DEF PreviewFetch
  <1>8. UNCHANGED <<clock, boots, draft, failures, openUntil>>
    BY DEF PreviewFetch
  <1> QED
    BY <1>1, <1>3, <1>4, <1>5, <1>6, <1>7, <1>8, Assemble DEF Inv, TypeOK, Fewer

\* Calls that end with an error.
LEMMA ErrorKeeps ==
  ASSUME Inv, NEW c \in Calls, Refused(c) \/ UpstreamFails(c)
  PROVE  Inv'
  <1>1. /\ Finish(c)
        /\ UNCHANGED <<clock, draft, boots, sendTimes, idem, tokenVars, sent, passed>>
    BY DEF Refused, UpstreamFails
  <1>2. TokenMove /\ WindowMove
    BY <1>1, QuietMoves
  <1>3. Fewer
    BY <1>1 DEF Fewer, Inv, TypeOK
  <1>4. failures' \in 0 .. (Threshold - 1) /\ openUntil' \in Nat
    BY FailureTyped DEF Refused, UpstreamFails, Inv, TypeOK
  <1> QED
    BY <1>1, <1>2, <1>3, <1>4, FinishStep

\* What is sent was confirmed: a call at work whose draft is still there has
\* passed the gate.
LEMMA PerformEffect ==
  ASSUME Inv, NEW c \in Calls, Perform(c), UNCHANGED tokenVars
  PROVE  /\ draft' \in [Drafts -> Contents \cup {Gone}]
         /\ \A d \in Drafts : draft'[d] \in {draft[d], Gone}
         /\ req[c].target \in Drafts => draft'[req[c].target] = Gone
         /\ SentTyped' /\ SentIsConfirmed'
  <1> DEFINE r == req[c]
             x == [target  |-> r.target,
                   content |-> IF r.target \in Drafts THEN draft[r.target] ELSE r.target,
                   token   |-> r.token,
                   edited  |-> edited[c]]
  <1>1. /\ pc[c] = "work"
        /\ r.target \in Drafts => draft[r.target] # Gone
        /\ draft' = [d \in Drafts |-> IF d = r.target THEN Gone ELSE draft[d]]
        /\ sent' = sent \cup {x}
    BY DEF Perform
  <1>2. r.target \in Targets /\ Confirmed(c)
    BY <1>1 DEF Inv, CallsOK, CallOK
  <1>3. /\ draft' \in [Drafts -> Contents \cup {Gone}]
        /\ \A d \in Drafts : draft'[d] \in {draft[d], Gone}
        /\ r.target \in Drafts => draft'[r.target] = Gone
    BY <1>1 DEF Inv, TypeOK
  <1>4. x.content \in Contents \cup Acts
    BY <1>1, <1>2 DEF Targets, Inv, TypeOK
  <1>5. r.token \in tokens /\ edited[c] \in BOOLEAN
    BY <1>2 DEF Confirmed, Inv, TypeOK
  <1>6. SentTyped'
    BY <1>1, <1>2, <1>4, <1>5 DEF SentTyped, Inv, TypeOK, tokenVars
  <1>7. x.token \in used /\ x.token.target = x.target /\ (x.token.content = x.content \/ x.edited)
    BY <1>1, <1>2 DEF Confirmed, Targets
  <1>8. SentIsConfirmed'
    BY <1>1, <1>7 DEF Inv, SentIsConfirmed, tokenVars
  <1> QED
    BY <1>3, <1>6, <1>8

\* The answer to the send arrives.
LEMMA WorkDoneKeeps ==
  ASSUME Inv, NEW c \in Calls, WorkDone(c)
  PROVE  Inv'
  <1>1. /\ Perform(c) /\ pc' = [pc EXCEPT ![c] = "record"]
        /\ UNCHANGED <<clock, boots, sendTimes, idem, failures, openUntil, req, content,
                       edited, tokenVars, passed>>
    BY DEF WorkDone
  <1>2. TokenMove /\ WindowMove
    BY <1>1, QuietMoves
  <1>3. /\ draft' \in [Drafts -> Contents \cup {Gone}]
        /\ \A d \in Drafts : draft'[d] \in {draft[d], Gone}
        /\ req[c].target \in Drafts => draft'[req[c].target] = Gone
        /\ SentTyped' /\ SentIsConfirmed'
    BY <1>1, PerformEffect
  <1>4. CallsTyped'
    BY <1>1 DEF Inv, TypeOK, CallsTyped, tokenVars
  <1>5. CallsOK'
    <2> SUFFICES ASSUME NEW k \in Calls PROVE CallOK(k)'
      BY DEF CallsOK
    <2>1. CASE k = c
      <3>1. req[c].target \in Targets
        BY RequestPresent, <1>1 DEF Perform
      <3> QED
        BY <1>1, <1>3, <2>1, <3>1 DEF Inv, TypeOK, CallOK
    <2>2. CASE k # c
      BY <1>1, <1>3, <2>2, CallStays DEF Inv, TypeOK, CallsOK, tokenVars
    <2> QED
      BY <2>1, <2>2
  <1>6. Fewer
    BY <1>1 DEF Fewer, Inv, TypeOK
  <1>7. ReceiptsOK'
    BY <1>3, <1>6, ReceiptsStay
  <1> QED
    BY <1>1, <1>2, <1>3, <1>4, <1>5, <1>6, <1>7, Assemble DEF Inv, TypeOK, Fewer

\* The answer to the send is lost.
LEMMA WorkLostKeeps ==
  ASSUME Inv, NEW c \in Calls, WorkLost(c)
  PROVE  Inv'
  <1>1. /\ Perform(c) /\ UpstreamFailure /\ Finish(c)
        /\ UNCHANGED <<clock, boots, sendTimes, idem, tokenVars, passed>>
    BY DEF WorkLost
  <1>2. TokenMove /\ WindowMove
    BY <1>1, QuietMoves
  <1>3. /\ draft' \in [Drafts -> Contents \cup {Gone}]
        /\ \A d \in Drafts : draft'[d] \in {draft[d], Gone}
        /\ SentTyped' /\ SentIsConfirmed'
    BY <1>1, PerformEffect
  <1>4. tokens \subseteq tokens' /\ used \subseteq used'
    BY <1>2 DEF TokenMove
  <1>5. CallsTyped' /\ CallsOK'
    BY <1>1, <1>3, <1>4, FinishTyped, FinishKeeps DEF Inv
  <1>6. Fewer
    BY <1>1 DEF Fewer, Inv, TypeOK
  <1>7. ReceiptsOK'
    BY <1>3, <1>6, ReceiptsStay
  <1>8. failures' \in 0 .. (Threshold - 1) /\ openUntil' \in Nat
    BY <1>1, FailureTyped DEF Inv
  <1> QED
    BY <1>1, <1>2, <1>3, <1>5, <1>6, <1>7, <1>8, Assemble DEF Inv, TypeOK, Fewer

\* The receipt of a send whose draft has gone.
LEMMA RecordKeeps ==
  ASSUME Inv, NEW c \in Calls, Record(c)
  PROVE  Inv'
  <1>1. /\ pc[c] = "record" /\ Finish(c) /\ failures' = 0
        /\ UNCHANGED <<clock, draft, boots, sendTimes, openUntil, tokenVars, sent, passed>>
    BY DEF Record
  <1>2. TokenMove /\ WindowMove
    BY <1>1, QuietMoves
  <1>3. /\ idem' \in [Keys -> Receipts \cup {NoReceipt}]
        /\ \A k \in Keys : \/ idem'[k] \in {idem[k], NoReceipt}
                           \/ draft[idem'[k].draft] = Gone
    <2>1. CASE req[c].key = NoKey
      BY <2>1 DEF Record, Inv, TypeOK
    <2>2. CASE req[c].key # NoKey
      <3>1. req[c].target \in Drafts /\ req[c].key \in Keys /\ draft[req[c].target] = Gone
        BY <1>1, <2>2, RequestPresent DEF RequestsWith, Inv, CallsOK, CallOK
      <3> DEFINE receipt == [draft |-> req[c].target, ts |-> clock]
      <3>2. receipt \in Receipts /\ receipt.draft = req[c].target
        BY <3>1 DEF Receipts, Inv, TypeOK
      <3>3. Put(req[c].key, receipt)
        BY <2>2 DEF Record
      <3> HIDE DEF receipt
      <3>4. \/ idem' = [idem EXCEPT ![req[c].key] = receipt]
            \/ \E oldest \in Keys :
                 idem' = [idem EXCEPT ![oldest] = NoReceipt, ![req[c].key] = receipt]
        BY <3>3 DEF Put
      <3> QED
        BY <3>1, <3>2, <3>4 DEF Inv, TypeOK
    <2> QED
      BY <2>1, <2>2
  <1>4. ReceiptsOK'
    BY <1>1, <1>3 DEF Inv, ReceiptsOK
  <1>5. tokens \subseteq tokens' /\ used \subseteq used'
    BY <1>2 DEF TokenMove
  <1>6. CallsTyped' /\ CallsOK'
    BY <1>1, <1>5, FinishTyped, FinishKeeps DEF Inv
  <1>7. SentTyped' /\ SentIsConfirmed'
    BY <1>1, <1>2, SentStays
  <1>8. failures' \in 0 .. (Threshold - 1)
    BY <1>1, GateAssumption
  <1> QED
    BY <1>1, <1>2, <1>3, <1>4, <1>6, <1>7, <1>8, Assemble DEF Inv, TypeOK

\* Drafts change under calls in flight.
LEMMA DraftKeeps ==
  ASSUME Inv, NEW d \in Drafts,
         DiscardDraft(d) \/ \E s \in Contents : EditDraft(d, s)
  PROVE  Inv'
  <1>1. /\ draft[d] # Gone
        /\ UNCHANGED <<clock, boots, sendTimes, idem, failures, openUntil, pc, req,
                       content, tokenVars, sent, passed>>
        /\ draft' \in [Drafts -> Contents \cup {Gone}]
        /\ \A e \in Drafts : e # d => draft'[e] = draft[e]
        /\ edited' \in [Calls -> BOOLEAN]
    BY DEF DiscardDraft, EditDraft, callVars, Inv, TypeOK
  <1>2. TokenMove /\ WindowMove
    BY <1>1, QuietMoves
  <1>3. CallsTyped'
    BY <1>1 DEF Inv, TypeOK, CallsTyped, tokenVars
  <1>4. ASSUME NEW k \in Calls
        PROVE  /\ edited[k] => edited'[k]
               /\ \/ draft'[d] = Gone
                  \/ pc[k] \in {"gate", "work"} /\ req[k].target = d => edited'[k]
    BY DEF DiscardDraft, EditDraft, callVars, Inv, TypeOK
  <1>5. CallsOK'
    <2> SUFFICES ASSUME NEW k \in Calls PROVE CallOK(k)'
      BY DEF CallsOK
    <2>1. \A e \in Drafts :
            \/ draft'[e] \in {draft[e], Gone}
            \/ /\ draft[e] # Gone
               /\ pc[k] \in {"gate", "work"} /\ req[k].target = e => edited'[k]
      BY <1>1, <1>4
    <2> QED
      BY <1>1, <1>4, <2>1, CallStays DEF Inv, CallsOK, tokenVars
  <1>6. ReceiptsOK'
    <2> SUFFICES ASSUME NEW k \in Keys, idem[k] # NoReceipt PROVE draft'[idem[k].draft] = Gone
      BY <1>1 DEF ReceiptsOK
    <2>1. idem[k].draft \in Drafts /\ draft[idem[k].draft] = Gone
      BY DEF Inv, TypeOK, Receipts, ReceiptsOK
    <2> QED
      BY <1>1, <2>1
  <1>7. SentTyped' /\ SentIsConfirmed'
    BY <1>1, <1>2, SentStays
  <1> QED
    BY <1>1, <1>2, <1>3, <1>5, <1>6, <1>7, Assemble DEF Inv, TypeOK

\* Time only takes tokens and passes further out.
LEMMA TickKeeps ==
  ASSUME Inv, Tick
  PROVE  Inv'
  <1>1. /\ clock' = clock + 1 /\ clock \in Nat
        /\ UNCHANGED <<draft, boots, sendTimes, idem, failures, openUntil, pc, req,
                       content, edited, tokens, consumed, used, again, forgot, sent, passed>>
    BY DEF Tick, callVars, tokenVars, Inv, TypeOK
  <1>2. TokenMove
    <2>1. UsedOK'
      <3>1. Secret' = Secret
        BY <1>1 DEF Secret
      <3>2. ASSUME NEW t \in used, t.exp * Ticks < clock PROVE t.exp * Ticks < clock'
        <4>1. t.exp * Ticks \in Nat
          BY TokenTimes DEF Inv, TypeOK
        <4> QED
          BY <1>1, <3>2, <4>1
      <3> QED
        BY <1>1, <3>1, <3>2 DEF Inv, UsedOK
    <2>2. ReuseOnlyAtExpiry'
      BY <1>1 DEF Inv, ReuseOnlyAtExpiry
    <2> QED
      BY <1>1, <2>1, <2>2 DEF Inv, TypeOK, TokenMove
  <1>3. WindowMove
    <2>1. Account(sendTimes, passed, clock + 1)
      BY AccountAges DEF Inv, RateOK, TypeOK
    <2> QED
      BY <1>1, <2>1 DEF Inv, TypeOK, WindowMove, RateOK, RateHolds
  <1>4. CallsTyped'
    BY <1>1 DEF Inv, TypeOK, CallsTyped
  <1>5. CallsOK'
    BY <1>1 DEF Inv, CallsOK, CallOK, Confirmed
  <1>6. ReceiptsOK'
    BY <1>1 DEF Inv, ReceiptsOK
  <1>7. SentTyped' /\ SentIsConfirmed'
    BY <1>1, <1>2, SentStays
  <1>8. clock' \in Nat
    BY <1>1
  <1> QED
    BY <1>1, <1>2, <1>3, <1>4, <1>5, <1>6, <1>7, <1>8, Assemble DEF Inv, TypeOK

\* A restart forgets spent tokens, unless the secret goes with them.
LEMMA RestartKeeps ==
  ASSUME Inv, Restart
  PROVE  Inv'
  <1>1. /\ boots' = boots + 1 /\ boots \in Nat
        /\ forgot' = IF FixedSecret THEN forgot \cup used ELSE forgot
        /\ consumed' = {} /\ UNCHANGED <<clock, draft, tokens, used, again, sent>>
    BY DEF Restart, Inv, TypeOK
  <1>2. TokenMove
    <2>1. CASE FixedSecret
      <3>1. Secret' = Secret /\ forgot' = forgot \cup used
        BY <1>1, <2>1 DEF Secret
      <3>2. UsedOK' /\ ReuseOnlyAtExpiry'
        BY <1>1, <3>1 DEF Inv, UsedOK, ReuseOnlyAtExpiry
      <3> QED
        BY <1>1, <3>1, <3>2 DEF Inv, TypeOK, TokenMove
    <2>2. CASE ~FixedSecret
      <3>1. Secret = boots /\ Secret' = boots + 1 /\ forgot' = forgot
        BY <1>1, <2>2 DEF Secret
      <3>2. ASSUME NEW t \in tokens PROVE t.secret <= boots + 1 /\ t.secret # boots + 1
        <4>1. t.secret \in Nat /\ t.secret <= boots
          BY <3>1, TokenTimes DEF Inv, UsedOK
        <4> QED
          BY <1>1, <4>1
      <3>3. UsedOK' /\ ReuseOnlyAtExpiry'
        BY <1>1, <3>1, <3>2 DEF Inv, TypeOK, UsedOK, ReuseOnlyAtExpiry
      <3> QED
        BY <1>1, <3>1, <3>3 DEF Inv, TypeOK, TokenMove
    <2> QED
      BY <2>1, <2>2
  <1>3. WindowMove
    <2>1. sendTimes' = <<>> /\ passed' = <<>> /\ Len(<<>>) = 0
      BY DEF Restart
    <2> QED
      BY <2>1, GateAssumption DEF WindowMove, RateOK, Account, RateHolds
  <1>4. CallsTyped'
    BY <1>1 DEF Restart, CallsTyped
  <1>5. CallsOK'
    BY DEF Restart, CallsOK, CallOK
  <1>6. ReceiptsOK' /\ idem' \in [Keys -> Receipts \cup {NoReceipt}]
    BY DEF Restart, ReceiptsOK
  <1>7. SentTyped' /\ SentIsConfirmed'
    BY <1>1, <1>2, SentStays
  <1>8. failures' \in 0 .. (Threshold - 1) /\ openUntil' \in Nat /\ boots' \in Nat
    BY <1>1, GateAssumption DEF Restart
  <1> QED
    BY <1>1, <1>2, <1>3, <1>4, <1>5, <1>6, <1>7, <1>8, Assemble DEF Inv, TypeOK

\* Inv holds at the start.
LEMMA InitOK == Init => Inv
  <1> SUFFICES ASSUME Init PROVE Inv
    OBVIOUS
  <1>1. TypeOK
    BY GateAssumption DEF Init, TypeOK
  <1>2. CallsOK /\ ReceiptsOK /\ SentIsConfirmed
    BY DEF Init, CallsOK, CallOK, ReceiptsOK, SentIsConfirmed
  <1>3. RateOK /\ RateHolds
    <2>1. sendTimes = <<>> /\ passed = <<>> /\ Len(<<>>) = 0
      BY DEF Init
    <2> QED
      BY <2>1, GateAssumption DEF RateOK, Account, RateHolds
  <1>4. UsedOK /\ ReuseOnlyAtExpiry
    BY DEF Init, UsedOK, ReuseOnlyAtExpiry
  <1> QED
    BY <1>1, <1>2, <1>3, <1>4 DEF Inv

\* Every step keeps Inv.
LEMMA NextKeeps == Inv /\ [Next]_vars => Inv'
  <1> SUFFICES ASSUME Inv, [Next]_vars PROVE Inv'
    OBVIOUS
  <1>1. ASSUME NEW c \in Calls, NEW r \in RequestsWith(tokens \cup {NoToken}),
               Begin(c, r) \/ Replay(c, r) \/ BeginAct(c, r)
        PROVE  Inv'
    BY <1>1, BeginKeeps, ReplayKeeps, BeginActKeeps
  <1>2. ASSUME NEW c \in Calls,
               \/ PreviewFetch(c) \/ Refused(c) \/ UpstreamFails(c) \/ GateStep(c)
               \/ WorkDone(c) \/ WorkLost(c) \/ Record(c)
        PROVE  Inv'
    BY <1>2, PreviewFetchKeeps, ErrorKeeps, GateStepKeeps, WorkDoneKeeps, WorkLostKeeps,
       RecordKeeps
  <1>3. CASE \E d \in Drafts : DiscardDraft(d) \/ \E s \in Contents : EditDraft(d, s)
    BY <1>3, DraftKeeps
  <1>4. CASE Tick \/ Restart
    BY <1>4, TickKeeps, RestartKeeps
  <1>5. CASE UNCHANGED vars
    <2>1. TokenMove /\ WindowMove
      BY <1>5, QuietMoves DEF vars
    <2>2. CallsTyped' /\ CallsOK' /\ ReceiptsOK'
      BY <1>5 DEF vars, callVars, tokenVars, Inv, TypeOK, CallsTyped, CallsOK, CallOK,
         Confirmed, ReceiptsOK
    <2>3. SentTyped' /\ SentIsConfirmed'
      BY <1>5, <2>1, SentStays DEF vars
    <2> QED
      BY <1>5, <2>1, <2>2, <2>3, Assemble DEF vars, Inv, TypeOK
  <1> QED
    BY <1>1, <1>2, <1>3, <1>4, <1>5 DEF Next, Dispatch

-----------------------------------------------------------------------------
\* Inv, and with it the type invariant, holds in every reachable state of the
\* dispatcher.
THEOREM GateInvariance == Spec => []Inv
  <1>1. Init => Inv
    BY InitOK
  <1>2. Inv /\ [Next]_vars => Inv'
    BY NextKeeps
  <1> QED
    BY <1>1, <1>2, PTL DEF Spec

\* Every reachable state of the dispatcher is well typed; the failure count in
\* particular stays below the threshold of the circuit breaker.
THEOREM GateTyped == Spec => []TypeOK
  <1>1. Inv => TypeOK
    BY DEF Inv
  <1> QED
    BY <1>1, GateInvariance, PTL

\* Nothing leaves the mailbox without an accepted token for that target, and
\* what leaves is what the token was minted for unless it was edited after the
\* gate had fetched it (_confirm_gate, _send_draft).
THEOREM NothingUnconfirmed == Spec => []SentIsConfirmed
  <1>1. Inv => SentIsConfirmed
    BY DEF Inv
  <1> QED
    BY <1>1, GateInvariance, PTL

\* A spent token is accepted again only in the second it expires in, or after
\* a restart that kept the secret (consume_token, verify_token).
THEOREM ReuseOnlyAtSeams == Spec => []ReuseOnlyAtExpiry
  <1>1. Inv => ReuseOnlyAtExpiry
    BY DEF Inv
  <1> QED
    BY <1>1, GateInvariance, PTL

\* The hourly cap holds between restarts, whatever the order of calls
\* (_rate_guard).
THEOREM CapHolds == Spec => []RateHolds
  <1>1. Inv => RateHolds
    BY DEF Inv
  <1> QED
    BY <1>1, GateInvariance, PTL

=============================================================================
