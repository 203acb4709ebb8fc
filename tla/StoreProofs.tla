---------------------------- MODULE StoreProofs -----------------------------
(***************************************************************************)
(* What the archive and the mirror write beside the mail itself, for every *)
(* setting, every number of messages, aliases, workers, records and every  *)
(* bound on the faults: the dates of the archive, the alias ids, the       *)
(* embedding pass and the audit chain.                                     *)
(***************************************************************************)
EXTENDS Rails, Aliaser, Embed, AuditLog, Tasks, SequenceTheorems, FiniteSetTheorems, TLAPS

-----------------------------------------------------------------------------
(* Rails.                                                                  *)

\* The settings do not change; each is a number of days, or not given.
SettingsOK ==
    /\ settings.after \in Int /\ settings.grace \in Int /\ settings.capture \in Int
    /\ settings.backup \in BOOLEAN

(* No instant is ahead of the clock.                                       *)
ClockOK ==
    /\ now \in Int /\ Dated <= now
    /\ stamp \in Int /\ stamp <= now
    /\ verifiedAt \in Int /\ verifiedAt <= now
    /\ archived \in {"live", "captured", "verified", "deleted"}
    /\ exit.at \in Int /\ exit.stamp \in Int /\ exit.asked \in BOOLEAN

\* What the deletion had to find, kept from then on.
ExitOK ==
    archived = "deleted" =>
        /\ exit.at - verifiedAt >= Day
        /\ ~exit.asked => exit.at - Dated >= (settings.after + 1) * Day
        /\ settings.backup =>
              /\ exit.stamp # Never
              /\ exit.at - exit.stamp > MaxAge => exit.at - exit.stamp > HoldDays * Day

(* What every step of the clock and of the archive keeps.                  *)
RailsInv == SettingsOK /\ ClockOK /\ ExitOK

(* grace_days is at least one day, whatever the operator set. *)
LEMMA GraceIsADay == ASSUME NEW d \in Int PROVE grace_days(d) \in Int /\ grace_days(d) >= 1
  BY DEF grace_days

(* A message the clock lets go may also be captured: the capture cutoff is *)
(* never before the delete cutoff.                                         *)
LEMMA CaptureComesFirst ==
  ASSUME SettingsOK, now \in Int, NEW b \in Int
  PROVE  delete_cutoff(b) <= capture_cutoff(b)
<1>1. grace_days(settings.grace) \in Int /\ grace_days(settings.grace) >= 1
  BY GraceIsADay DEF SettingsOK
<1> DEFINE g == grace_days(settings.grace)
           asked == IF settings.capture < 0 THEN 0 ELSE settings.capture
           days == IF settings.capture = Unset \/ asked > settings.after
                   THEN settings.after ELSE asked
<1>2. days \in Int /\ days <= settings.after
  BY DEF SettingsOK, Unset
<1>3. capture_cutoff(b) = age_cutoff(days, b)
  BY DEF capture_cutoff
<1>4. age_cutoff(settings.after, b) <= age_cutoff(days, b)
      /\ age_cutoff(settings.after, b) \in Int /\ age_cutoff(days, b) \in Int
  <2> HIDE DEF days
  <2> QED
    BY <1>2 DEF age_cutoff, SettingsOK, Day
<1>5. delete_cutoff(b) = age_cutoff(settings.after, b) - g * 2
  BY DEF delete_cutoff, Day
<1> HIDE DEF g, days
<1> QED
  BY <1>1, <1>3, <1>4, <1>5 DEF g

(* What a deletion has passed: the grace period, the age and the backup.   *)
LEMMA DeleteEffect ==
  ASSUME SettingsOK, ClockOK, NEW b \in Int, DeleteRun(b)
  PROVE  /\ now - verifiedAt >= Day
         /\ b = Unset => now - Dated >= (settings.after + 1) * Day
         /\ settings.backup =>
               /\ stamp # Never
               /\ now - stamp > MaxAge => now - stamp > HoldDays * Day
<1> DEFINE g == grace_days(settings.grace)
<1>1. g \in Int /\ g >= 1
  BY GraceIsADay DEF SettingsOK
<1>2. verifiedAt <= now - g * 2
  BY DEF DeleteRun, grace_instant, Day
<1>3. b = Unset => Dated <= now - settings.after * 2 - g * 2
  BY DEF DeleteRun, delete_cutoff, age_cutoff, Day
<1>4. settings.backup => backup_state \notin {"stale", "missing"}
  BY DEF DeleteRun
<1>5. ASSUME settings.backup
      PROVE  stamp # Never /\ (now - stamp > MaxAge => now - stamp > HoldDays * Day)
  BY <1>4, <1>5, RailsAssumption DEF backup_state, ClockOK, Never, Day
<1> HIDE DEF g
<1> QED
  BY <1>1, <1>2, <1>3, <1>5, RailsAssumption DEF SettingsOK, ClockOK, Day

(* The invariant of the rails holds at the start.                          *)
LEMMA RailsInitial == RailsInit => RailsInv
<1> SUFFICES ASSUME RailsInit PROVE SettingsOK /\ ClockOK /\ ExitOK
  BY DEF RailsInv
<1>1. SettingsOK
  <2>1. /\ settings.after \in AfterDays /\ settings.grace \in GraceDays
        /\ settings.capture \in CaptureDays \union {Unset}
    BY DEF RailsInit
  <2>2. settings.backup \in BOOLEAN
    BY Zenon DEF RailsInit
  <2>3. Unset \in Int
    BY DEF Unset
  <2>4. settings.after \in Int /\ settings.grace \in Int /\ settings.capture \in Int
    BY <2>1, <2>3, RailsAssumption, Zenon
  <2> QED
    BY <2>2, <2>4 DEF SettingsOK
<1>2. ClockOK
  BY RailsAssumption DEF RailsInit, ClockOK, Never
<1>3. ExitOK
  BY DEF RailsInit, ExitOK
<1> QED
  BY <1>1, <1>2, <1>3

(* Every step keeps it.                                                    *)
LEMMA RailsInductive == RailsInv /\ [RailsNext]_railVars => RailsInv'
<1> SUFFICES ASSUME SettingsOK, ClockOK, ExitOK, [RailsNext]_railVars
             PROVE  SettingsOK' /\ ClockOK' /\ ExitOK'
  BY DEF RailsInv
<1>0. settings' = settings
  BY DEF RailsNext, railVars, Tick, VerifyRun, ResetCapture, BackUp, CaptureRun, DeleteRun
<1>1. SettingsOK'
  BY <1>0 DEF SettingsOK
<1>2. CASE Tick
  BY <1>1, <1>2, RailsAssumption DEF Tick, ClockOK, ExitOK
<1>3. CASE VerifyRun
  BY <1>1, <1>3, RailsAssumption DEF VerifyRun, ClockOK, ExitOK
<1>4. CASE ResetCapture
  BY <1>1, <1>4, RailsAssumption DEF ResetCapture, ClockOK, ExitOK, Never
<1>5. ASSUME NEW t \in {now, Never}, BackUp(t) PROVE ClockOK' /\ ExitOK'
  BY <1>5, RailsAssumption DEF BackUp, ClockOK, ExitOK, Never
<1>6. ASSUME NEW b \in Befores, CaptureRun(b) PROVE ClockOK' /\ ExitOK'
  BY <1>6, RailsAssumption DEF CaptureRun, ClockOK, ExitOK
<1>7. ASSUME NEW b \in Befores, DeleteRun(b) PROVE ClockOK' /\ ExitOK'
  <2>1. b \in Int
    BY RailsAssumption DEF Befores, Unset, Day
  <2>2. /\ now - verifiedAt >= Day
        /\ b = Unset => now - Dated >= (settings.after + 1) * Day
        /\ settings.backup =>
              /\ stamp # Never
              /\ now - stamp > MaxAge => now - stamp > HoldDays * Day
    BY <2>1, <1>7, DeleteEffect
  <2>3. /\ exit' = [at |-> now, stamp |-> stamp, asked |-> b # Unset]
        /\ archived' = "deleted" /\ now' = now /\ stamp' = stamp /\ verifiedAt' = verifiedAt
    BY <1>7 DEF DeleteRun
  <2>4. ClockOK'
    BY <2>3 DEF ClockOK
  <2>5. ExitOK'
    BY <1>0, <2>2, <2>3 DEF ExitOK
  <2> QED
    BY <2>4, <2>5
<1>8. CASE UNCHANGED railVars
  BY <1>1, <1>8 DEF railVars, ClockOK, ExitOK
<1> QED
  BY <1>1, <1>2, <1>3, <1>4, <1>5, <1>6, <1>7, <1>8 DEF RailsNext

(* Whatever the settings, the clock and the caller's `before': a message   *)
(* leaves the mailbox a day after its verification at the earliest, after  *)
(* after_days and a day unless `before' was given, never without a backup  *)
(* marker where one is asked for; and what may leave may be captured.      *)
THEOREM RailsAreKept == RailsSpec => []RailsHold
<1>1. RailsInv => RailsHold
  <2> SUFFICES ASSUME SettingsOK, ClockOK, ExitOK,
                      NEW b \in Befores
               PROVE  delete_cutoff(b) <= capture_cutoff(b)
    BY DEF RailsInv, RailsHold, ExitOK
  <2>1. b \in Int
    BY RailsAssumption DEF Befores, Unset, Day
  <2> QED
    BY <2>1, CaptureComesFirst DEF ClockOK
<1> QED
  BY <1>1, RailsInitial, RailsInductive, PTL DEF RailsSpec

(* The settings stand, the clock stays within its horizon, and every       *)
(* instant the rails compare was read from that clock.                     *)
THEOREM RailsTyped == RailsSpec => []RailsTypeOK
<1>n. Never \in Instants
  BY DEF Instants
<1>h. Horizon \in Nat /\ Dated \in 0..Horizon
  BY RailsAssumption
<1>d. \A i \in Dated..Horizon : i \in Instants
  BY <1>h DEF Instants
<1>1. RailsInit => RailsTypeOK
  BY <1>n, <1>h DEF RailsInit, RailsTypeOK
<1>2. RailsTypeOK /\ [RailsNext]_railVars => RailsTypeOK'
  <2> SUFFICES ASSUME RailsTypeOK, [RailsNext]_railVars PROVE RailsTypeOK'
    OBVIOUS
  <2>0. now \in Instants
    BY <1>d DEF RailsTypeOK
  <2>1. CASE Tick
    BY <2>1, <1>h DEF Tick, RailsTypeOK
  <2>2. CASE VerifyRun
    BY <2>2, <2>0 DEF VerifyRun, RailsTypeOK
  <2>3. CASE ResetCapture
    BY <2>3, <1>n DEF ResetCapture, RailsTypeOK
  <2>4. ASSUME NEW t \in {now, Never}, BackUp(t) PROVE RailsTypeOK'
    BY <2>4, <2>0, <1>n DEF BackUp, RailsTypeOK
  <2>5. ASSUME NEW b \in Befores, CaptureRun(b) PROVE RailsTypeOK'
    BY <2>5 DEF CaptureRun, RailsTypeOK
  <2>6. ASSUME NEW b \in Befores, DeleteRun(b) PROVE RailsTypeOK'
    <3>1. (b # Unset) \in BOOLEAN
      OBVIOUS
    <3>2. exit' \in [at : Instants, stamp : Instants, asked : BOOLEAN]
      BY <2>6, <2>0, <3>1 DEF DeleteRun, RailsTypeOK
    <3> QED
      BY <2>6, <3>2 DEF DeleteRun, RailsTypeOK
  <2>7. CASE UNCHANGED railVars
    BY <2>7 DEF railVars, RailsTypeOK
  <2> QED
    BY <2>1, <2>2, <2>3, <2>4, <2>5, <2>6, <2>7 DEF RailsNext
<1> QED
  BY <1>1, <1>2, PTL DEF RailsSpec

-----------------------------------------------------------------------------
(* Aliaser.                                                                *)

(* Where a connection holds the counter; where it holds the id it rebinds. *)
Holding == {"insert", "reread", "commit"}
Rebinding == {"rebind", "delete", "update"}

(* What a connection knows at each of its statements.                      *)
WorkerOK(w) ==
    /\ worker[w].at # "idle" => worker[w].id \in Ids /\ worker[w].id[2] <= place[worker[w].id[1]]
    /\ worker[w].at \in Holding => worker[w].n = counter + 1
    /\ worker[w].at \in Rebinding \union {"lost"} => worker[w].id[2] = 1
    /\ worker[w].at = "commit" => RowsOf(worker[w].id) = {}
    /\ worker[w].at = "update" => worker[w].dup \subseteq RowsOf(worker[w].id)
    /\ worker[w].at # "update" => worker[w].dup = {}

(* One connection at a time has the counter locked.                        *)
OneHolder == \A u, v \in Workers : worker[u].at \in Holding /\ worker[v].at \in Holding => u = v

(* One connection at a time rebinds an item.                               *)
OneRebind == \A u, v \in Workers :
    worker[u].at \in Rebinding /\ worker[v].at \in Rebinding /\ worker[u].id = worker[v].id
    => u = v

(* A row names the current id, is known to be loose, or is being rebound.  *)
Kept(r) == \/ r.id = Current(r.id[1])
           \/ r.alias \in alhist.loose
           \/ \E w \in Workers : worker[w].id = Current(r.id[1]) /\ worker[w].at \in Rebinding

(* So does every committed row.                                            *)
RowsOK == \A r \in aliases : r.id[2] <= place[r.id[1]] /\ Kept(r)

(* An alias handed out has its row or was dropped as a duplicate, and its  *)
(* row is of its item.                                                     *)
HandedOut == \A h \in alhist.handed :
    /\ h[1] \in 1..counter
    /\ h[1] \in alhist.dropped \/ \E r \in aliases : r.alias = h[1]
    /\ \A r \in aliases : r.alias = h[1] => r.id[1] = h[2]

(* What every statement of every connection keeps.                         *)
AliasInv == /\ AliasTypeOK /\ OneHolder /\ OneRebind /\ RowsOK /\ HandedOut
            /\ \A w \in Workers : WorkerOK(w)

(* An id is an item and the place it was given.                            *)
LEMMA IdParts ==
    ASSUME NEW id \in Ids
    PROVE  id[1] \in Items /\ id[2] \in {0, 1} /\ id = <<id[1], id[2]>>
  BY DEF Ids

(* A worker moves on without touching a row: what it holds, what it gives  *)
(* out and what it leaves loose decide whether the aliases still mean      *)
(* their items.                                                            *)
LEMMA WorkerMoves ==
    ASSUME AliasInv, NEW w \in Workers, NEW s \in Work,
           worker' = [worker EXCEPT ![w] = s], aliases' = aliases, place' = place,
           AliasTypeOK',
           \/ counter' = counter
           \/ counter' = counter + 1 /\ worker[w].at \in Holding,
           alhist'.dropped = alhist.dropped, alhist.loose \subseteq alhist'.loose,
           \A h \in alhist'.handed : \/ h \in alhist.handed
                                     \/ \E r \in aliases : h = <<r.alias, r.id[1]>>,
           s.at # "idle" => s.id \in Ids /\ s.id[2] <= place[s.id[1]],
           s.at \in Holding => /\ s.n = counter' + 1
                               /\ \A u \in Workers : u # w => worker[u].at \notin Holding,
           s.at \in Rebinding \union {"lost"} => s.id[2] = 1,
           s.at \in Rebinding => worker[w].at \in Rebinding /\ s.id = worker[w].id,
           s.at = "commit" => RowsOf(s.id) = {},
           s.at = "update" => s.dup \subseteq RowsOf(s.id),
           s.at # "update" => s.dup = {},
           worker[w].at \in Rebinding /\ s.at \notin Rebinding =>
             \A r \in RowsOf(OldId(w)) : r.alias \in alhist'.loose
    PROVE  AliasInv'
  <1>0. /\ worker'[w] = s /\ \A u \in Workers : u # w => worker'[u] = worker[u]
        /\ counter \in Nat /\ counter' \in Nat /\ place \in [Items -> {0, 1}]
        /\ aliases \in SUBSET AliasRow /\ worker \in [Workers -> Work]
    BY DEF AliasInv, AliasTypeOK
  <1>1. OneHolder'
    BY <1>0 DEF AliasInv, OneHolder
  <1>2. OneRebind'
    BY <1>0 DEF AliasInv, OneRebind
  <1>3. ASSUME NEW u \in Workers PROVE WorkerOK(u)'
    <2>1. CASE u = w
      BY <1>0, <2>1 DEF WorkerOK, RowsOf
    <2>2. CASE u # w
      <3>1. WorkerOK(u) /\ worker'[u] = worker[u]
        BY <1>0, <2>2 DEF AliasInv
      <3>2. worker[u].at \in Holding => counter' = counter
        BY <2>2 DEF AliasInv, OneHolder
      <3> QED
        BY <3>1, <3>2 DEF WorkerOK, RowsOf
    <2> QED
      BY <2>1, <2>2
  <1>4. RowsOK'
    <2> SUFFICES ASSUME NEW r \in aliases
                 PROVE  r.id[2] <= place[r.id[1]] /\ Kept(r)'
      BY DEF RowsOK
    <2>1. r.id[2] <= place[r.id[1]] /\ Kept(r)
      BY DEF AliasInv, RowsOK
    <2>2. r.id \in Ids /\ place[r.id[1]] \in {0, 1} /\ Current(r.id[1])' = Current(r.id[1])
      BY <1>0, IdParts DEF AliasRow, Current
    <2>3. ASSUME r.id = Current(r.id[1]) \/ r.alias \in alhist.loose
          PROVE  Kept(r)'
      <3>1. CASE r.alias \in alhist.loose
        <4>1. r.alias \in alhist'.loose
          BY <3>1
        <4> QED
          BY <4>1 DEF Kept
      <3>2. CASE r.id = Current(r.id[1])
        BY <2>2, <3>2 DEF Kept
      <3> QED
        BY <2>3, <3>1, <3>2
    <2>4. ASSUME NEW u \in Workers, worker[u].id = Current(r.id[1]), worker[u].at \in Rebinding
          PROVE  Kept(r)'
      <3>1. CASE u # w \/ s.at \in Rebinding
        BY <1>0, <2>2, <2>4, <3>1 DEF Kept
      <3>2. CASE u = w /\ s.at \notin Rebinding
        <4>1. r.id[1] = worker[w].id[1] /\ OldId(w) = <<r.id[1], 0>>
          BY <2>4, <3>2 DEF OldId, Current
        <4>2. CASE r.id[2] = 0
          <5>1. r.id = OldId(w)
            BY <2>2, <4>1, <4>2, IdParts
          <5> QED
            BY <2>4, <3>2, <5>1 DEF RowsOf, Kept
        <4>3. CASE r.id[2] = 1
          <5>1. r.id[2] = place[r.id[1]]
            BY <2>1, <2>2, <4>3
          <5>2. r.id = Current(r.id[1])
            BY <2>2, <5>1, IdParts DEF Current
          <5> QED
            BY <2>2, <5>2 DEF Kept
        <4> QED
          BY <2>2, <4>2, <4>3, IdParts
      <3> QED
        BY <3>1, <3>2
    <2> QED
      BY <2>1, <2>3, <2>4 DEF Kept
  <1>5. HandedOut'
    <2> SUFFICES ASSUME NEW h \in alhist'.handed
                 PROVE  /\ h[1] \in 1..counter'
                        /\ h[1] \in alhist.dropped \/ \E r \in aliases : r.alias = h[1]
                        /\ \A r \in aliases : r.alias = h[1] => r.id[1] = h[2]
      BY DEF HandedOut
    <2>1. CASE h \in alhist.handed
      <3>1. /\ h[1] \in 1..counter
            /\ h[1] \in alhist.dropped \/ \E r \in aliases : r.alias = h[1]
            /\ \A r \in aliases : r.alias = h[1] => r.id[1] = h[2]
        BY <2>1 DEF AliasInv, HandedOut
      <3> QED
        BY <1>0, <3>1
    <2>2. ASSUME NEW r \in aliases, h = <<r.alias, r.id[1]>>
          PROVE  /\ h[1] \in 1..counter' /\ h[1] = r.alias
                 /\ \A q \in aliases : q.alias = h[1] => q.id[1] = h[2]
      <3>1. h[1] = r.alias /\ h[2] = r.id[1]
        BY <2>2
      <3>2. r.alias \in 1..counter /\ \A q \in aliases : q.alias = r.alias => q = r
        BY DEF AliasInv, AliasTypeOK
      <3> QED
        BY <1>0, <3>1, <3>2
    <2> QED
      BY <2>1, <2>2
  <1> QED
    BY <1>1, <1>2, <1>3, <1>4, <1>5 DEF AliasInv

(* A connection at rest, and one that starts to mint.                      *)
LEMMA QuietTyped ==
    /\ Quiet \in Work /\ Quiet.at = "idle" /\ Quiet.dup = {}
    /\ \A id \in Ids : LET s == [Quiet EXCEPT !.at = "count", !.id = id]
                       IN s \in Work /\ s.at = "count" /\ s.id = id /\ s.dup = {}
  <1>1. Quiet \in Work /\ Quiet.at = "idle" /\ Quiet.dup = {}
    BY DEF Quiet, Work
  <1>2. ASSUME NEW id \in Ids
        PROVE  LET s == [Quiet EXCEPT !.at = "count", !.id = id]
               IN s \in Work /\ s.at = "count" /\ s.id = id /\ s.dup = {}
    BY DEF Quiet, Work
  <1> QED
    BY <1>1, <1>2

(* Handing out an alias of a row that is there. *)
LEMMA HandIs ==
    ASSUME AliasInv, NEW r \in aliases, NEW h,
           h \in [handed : SUBSET (Nat \X Items), dropped : SUBSET Nat, loose : SUBSET Nat,
                  aborts : 0..MaxAborts]
    PROVE  /\ Hand(h, r.alias, r.id) \in
                [handed : SUBSET (Nat \X Items), dropped : SUBSET Nat, loose : SUBSET Nat,
                 aborts : 0..MaxAborts]
           /\ Hand(h, r.alias, r.id).handed = h.handed \union {<<r.alias, r.id[1]>>}
           /\ Hand(h, r.alias, r.id).dropped = h.dropped
           /\ h.loose \subseteq Hand(h, r.alias, r.id).loose
  <1>1. r.alias \in Nat /\ r.id \in Ids /\ r.id[1] \in Items
    BY IdParts DEF AliasInv, AliasTypeOK, AliasRow
  <1>2. <<r.alias, r.id[1]>> \in Nat \X Items
    BY <1>1
  <1> DEFINE more == h.handed \union {<<r.alias, r.id[1]>>}
             loose == IF r.id = Current(r.id[1]) THEN h.loose ELSE h.loose \union {r.alias}
  <1>3. /\ more \in SUBSET (Nat \X Items) /\ loose \in SUBSET Nat /\ h.loose \subseteq loose
    BY <1>1, <1>2
  <1>4. Hand(h, r.alias, r.id) = [h EXCEPT !.handed = more, !.loose = loose]
    BY DEF Hand
  <1> HIDE DEF loose
  <1>5. /\ [h EXCEPT !.handed = more, !.loose = loose].handed = more
        /\ [h EXCEPT !.handed = more, !.loose = loose].dropped = h.dropped
        /\ [h EXCEPT !.handed = more, !.loose = loose].loose = loose
    OBVIOUS
  <1> HIDE DEF more
  <1>6. [h EXCEPT !.handed = more, !.loose = loose] \in
                [handed : SUBSET (Nat \X Items), dropped : SUBSET Nat, loose : SUBSET Nat,
                 aborts : 0..MaxAborts]
    BY <1>3
  <1> QED
    BY <1>3, <1>4, <1>5, <1>6 DEF more

(* _find, from alias_for or after a rebind that found nothing to rebind. *)
LEMMA LookKeeps ==
    ASSUME AliasInv, NEW w \in Workers, NEW id \in Ids, Look(w, id),
           UNCHANGED <<aliases, counter, place>>, id[2] <= place[id[1]],
           worker[w].at \in Rebinding => RowsOf(OldId(w)) = {}
    PROVE  AliasInv'
  <1>0. AliasTypeOK /\ worker \in [Workers -> Work]
    BY DEF AliasInv, AliasTypeOK
  <1>1. CASE \E r \in RowsOf(id) : /\ worker' = [worker EXCEPT ![w] = Quiet]
                                   /\ alhist' = Hand(alhist, r.alias, id)
    <2>1. PICK r \in RowsOf(id) : /\ worker' = [worker EXCEPT ![w] = Quiet]
                                  /\ alhist' = Hand(alhist, r.alias, id)
      BY <1>1
    <2>2. r \in aliases /\ r.id = id
      BY DEF RowsOf
    <2>3. /\ alhist' \in [handed : SUBSET (Nat \X Items), dropped : SUBSET Nat,
                          loose : SUBSET Nat, aborts : 0..MaxAborts]
          /\ alhist'.handed = alhist.handed \union {<<r.alias, r.id[1]>>}
          /\ alhist'.dropped = alhist.dropped /\ alhist.loose \subseteq alhist'.loose
      BY <1>0, <2>1, <2>2, HandIs DEF AliasTypeOK
    <2>4. AliasTypeOK'
      <3>1. worker' \in [Workers -> Work]
        BY <1>0, <2>1, QuietTyped
      <3> QED
        BY <1>0, <2>3, <3>1 DEF AliasTypeOK
    <2> QED
      BY <2>1, <2>2, <2>3, <2>4, QuietTyped, WorkerMoves DEF Holding, Rebinding
  <1>2. CASE /\ worker' = [worker EXCEPT ![w] = [Quiet EXCEPT !.at = "count", !.id = id]]
             /\ UNCHANGED alhist
    <2> DEFINE s == [Quiet EXCEPT !.at = "count", !.id = id]
    <2>1. s \in Work /\ s.at = "count" /\ s.id = id /\ s.dup = {}
      BY QuietTyped
    <2>2. worker' = [worker EXCEPT ![w] = s]
      BY <1>2
    <2> HIDE DEF s
    <2>3. AliasTypeOK'
      BY <1>0, <1>2, <2>1, <2>2 DEF AliasTypeOK
    <2> QED
      BY <1>2, <2>1, <2>2, <2>3, WorkerMoves DEF Holding, Rebinding
  <1> QED
    BY <1>1, <1>2 DEF Look

(* alias_for looks an id up.                                               *)
LEMMA AliasForKeeps ==
    ASSUME AliasInv, NEW w \in Workers, NEW id \in Ids, AliasFor(w, id)
    PROVE  AliasInv'
  BY LookKeeps DEF AliasFor, Rebinding

(* The counter is locked and read.                                         *)
LEMMA MintKeeps ==
    ASSUME AliasInv, NEW w \in Workers, Mint(w)
    PROVE  AliasInv'
  <1> DEFINE s == [worker[w] EXCEPT !.at = "insert", !.n = counter + 1]
  <1>0. /\ AliasTypeOK /\ worker \in [Workers -> Work] /\ worker[w] \in Work /\ counter \in Nat
        /\ WorkerOK(w) /\ worker[w].at = "count"
    BY DEF AliasInv, AliasTypeOK, Mint
  <1>1. /\ worker' = [worker EXCEPT ![w] = s]
        /\ UNCHANGED <<aliases, counter, place, alhist>>
    BY DEF Mint
  <1>2. /\ s \in Work /\ s.at = "insert" /\ s.n = counter + 1 /\ s.id = worker[w].id
        /\ s.dup = worker[w].dup
    <2> DEFINE n == counter + 1
    <2>1. n \in Nat
      BY <1>0
    <2>2. s = [worker[w] EXCEPT !.at = "insert", !.n = n]
      OBVIOUS
    <2> HIDE DEF n, s
    <2>3. s \in Work
      BY <1>0, <2>1, <2>2 DEF Work
    <2>4. s.at = "insert" /\ s.n = n /\ s.id = worker[w].id /\ s.dup = worker[w].dup
      BY <1>0, <2>2 DEF Work
    <2> QED
      BY <2>3, <2>4 DEF n
  <1> HIDE DEF s
  <1>3. AliasTypeOK'
    BY <1>0, <1>1, <1>2 DEF AliasTypeOK
  <1>4. \A u \in Workers : worker[u].at \notin Holding
    BY DEF Mint, CounterFree, Holding
  <1>5. s.id \in Ids /\ s.id[2] <= place[s.id[1]] /\ s.dup = {}
    BY <1>0, <1>2 DEF WorkerOK
  <1> QED
    BY <1>0, <1>1, <1>2, <1>3, <1>4, <1>5, WorkerMoves DEF Rebinding

(* The row goes in, or another is there already.                           *)
LEMMA InsertKeeps ==
    ASSUME AliasInv, NEW w \in Workers, Insert(w)
    PROVE  AliasInv'
  <1> DEFINE at == IF RowsOf(worker[w].id) = {} THEN "commit" ELSE "reread"
             s == [worker[w] EXCEPT !.at = at]
  <1>0. /\ AliasTypeOK /\ worker \in [Workers -> Work] /\ worker[w] \in Work /\ counter \in Nat
        /\ WorkerOK(w) /\ worker[w].at = "insert"
    BY DEF AliasInv, AliasTypeOK, Insert
  <1>1. /\ worker' = [worker EXCEPT ![w] = s]
        /\ UNCHANGED <<aliases, counter, place, alhist>>
    BY DEF Insert
  <1>3. at \in {"commit", "reread"} /\ (at = "commit" => RowsOf(worker[w].id) = {})
    OBVIOUS
  <1> HIDE DEF at
  <1>2. /\ s \in Work /\ s.at = at /\ s.n = worker[w].n /\ s.id = worker[w].id
        /\ s.dup = worker[w].dup
    BY <1>0, <1>3 DEF Work
  <1> HIDE DEF s
  <1>4. AliasTypeOK'
    BY <1>0, <1>1, <1>2 DEF AliasTypeOK
  <1>5. worker[w].at \in Holding /\ \A u \in Workers : u # w => worker[u].at \notin Holding
    BY <1>0 DEF AliasInv, OneHolder, Holding
  <1>6. s.id \in Ids /\ s.id[2] <= place[s.id[1]] /\ s.dup = {} /\ s.n = counter + 1
    BY <1>0, <1>2 DEF WorkerOK, Holding
  <1> QED
    BY <1>0, <1>1, <1>2, <1>3, <1>4, <1>5, <1>6, WorkerMoves DEF Rebinding

(* The alias that was first is handed out, and the counter committed.      *)
LEMMA RereadKeeps ==
    ASSUME AliasInv, NEW w \in Workers, Reread(w)
    PROVE  AliasInv'
  <1>0. /\ AliasTypeOK /\ worker \in [Workers -> Work] /\ worker[w] \in Work /\ counter \in Nat
        /\ WorkerOK(w) /\ worker[w].at = "reread"
    BY DEF AliasInv, AliasTypeOK, Reread
  <1>1. /\ worker' = [worker EXCEPT ![w] = Quiet]
        /\ UNCHANGED <<aliases, place>> /\ counter' = counter + 1
    BY <1>0 DEF Reread, WorkerOK, Holding
  <1>2. /\ alhist' \in [handed : SUBSET (Nat \X Items), dropped : SUBSET Nat,
                        loose : SUBSET Nat, aborts : 0..MaxAborts]
        /\ alhist'.dropped = alhist.dropped /\ alhist.loose \subseteq alhist'.loose
        /\ \A h \in alhist'.handed : \/ h \in alhist.handed
                                     \/ \E r \in aliases : h = <<r.alias, r.id[1]>>
    <2>1. CASE UNCHANGED alhist
      BY <1>0, <2>1 DEF AliasTypeOK
    <2>2. CASE \E r \in RowsOf(worker[w].id) : alhist' = Hand(alhist, r.alias, worker[w].id)
      <3>1. PICK r \in RowsOf(worker[w].id) : alhist' = Hand(alhist, r.alias, worker[w].id)
        BY <2>2
      <3>2. r \in aliases /\ r.id = worker[w].id
        BY DEF RowsOf
      <3> QED
        BY <1>0, <3>1, <3>2, HandIs DEF AliasTypeOK
    <2> QED
      BY <2>1, <2>2 DEF Reread
  <1>3. AliasTypeOK'
    <2>1. counter' \in Nat /\ \A r \in aliases : r.alias \in 1..counter'
      BY <1>0, <1>1 DEF AliasTypeOK
    <2>2. worker' \in [Workers -> Work]
      BY <1>0, <1>1, QuietTyped
    <2> QED
      BY <1>0, <1>1, <1>2, <2>1, <2>2 DEF AliasTypeOK
  <1> QED
    BY <1>0, <1>1, <1>2, <1>3, QuietTyped, WorkerMoves DEF Rebinding, Holding

(* rebind finds the rows of the new id.                                    *)
LEMMA RebindSelectKeeps ==
    ASSUME AliasInv, NEW w \in Workers, RebindSelect(w)
    PROVE  AliasInv'
  <1>0. /\ AliasTypeOK /\ worker \in [Workers -> Work] /\ worker[w] \in Work
        /\ WorkerOK(w) /\ worker[w].at = "rebind"
        /\ worker[w].id \in Ids /\ worker[w].id[2] <= place[worker[w].id[1]]
        /\ worker[w].id[2] = 1 /\ worker[w].dup = {}
    BY DEF AliasInv, AliasTypeOK, RebindSelect, WorkerOK, Rebinding
  <1>1. CASE RowsOf(OldId(w)) = {}
    BY <1>0, <1>1, LookKeeps DEF RebindSelect
  <1>2. CASE RowsOf(OldId(w)) # {}
    <2> DEFINE s == [worker[w] EXCEPT !.at = "delete"]
    <2>1. /\ worker' = [worker EXCEPT ![w] = s]
          /\ UNCHANGED <<aliases, counter, place, alhist>>
      BY <1>2 DEF RebindSelect
    <2>2. /\ s \in Work /\ s.at = "delete" /\ s.id = worker[w].id /\ s.dup = worker[w].dup
      BY <1>0 DEF Work
    <2> HIDE DEF s
    <2>3. AliasTypeOK'
      BY <1>0, <2>1, <2>2 DEF AliasTypeOK
    <2> QED
      BY <1>0, <2>1, <2>2, <2>3, WorkerMoves DEF Holding, Rebinding
  <1> QED
    BY <1>1, <1>2

(* rebind deletes them.                                                    *)
LEMMA RebindDeleteKeeps ==
    ASSUME AliasInv, NEW w \in Workers, RebindDelete(w)
    PROVE  AliasInv'
  <1> DEFINE s == [worker[w] EXCEPT !.at = "update", !.dup = RowsOf(worker[w].id)]
  <1>0. /\ AliasTypeOK /\ worker \in [Workers -> Work] /\ worker[w] \in Work
        /\ WorkerOK(w) /\ worker[w].at = "delete"
        /\ worker[w].id \in Ids /\ worker[w].id[2] <= place[worker[w].id[1]]
        /\ worker[w].id[2] = 1
    BY DEF AliasInv, AliasTypeOK, RebindDelete, WorkerOK, Rebinding
  <1>1. /\ worker' = [worker EXCEPT ![w] = s]
        /\ UNCHANGED <<aliases, counter, place, alhist>>
    BY DEF RebindDelete
  <1>2. RowsOf(worker[w].id) \in SUBSET AliasRow
    BY <1>0 DEF RowsOf, AliasTypeOK
  <1>3. /\ s \in Work /\ s.at = "update" /\ s.id = worker[w].id
        /\ s.dup = RowsOf(worker[w].id)
    BY <1>0, <1>2 DEF Work
  <1> HIDE DEF s
  <1>4. AliasTypeOK'
    BY <1>0, <1>1, <1>3 DEF AliasTypeOK
  <1> QED
    BY <1>0, <1>1, <1>3, <1>4, WorkerMoves DEF Holding, Rebinding

(* After a rebind that was aborted the new id is looked up all the same.   *)
LEMMA AfterLossKeeps ==
    ASSUME AliasInv, NEW w \in Workers, AfterLoss(w)
    PROVE  AliasInv'
  <1>1. worker[w].id \in Ids /\ worker[w].id[2] <= place[worker[w].id[1]]
    BY DEF AliasInv, AfterLoss, WorkerOK
  <1> QED
    BY <1>1, LookKeeps DEF AfterLoss, Rebinding

(* Postgres ends a transaction.                                            *)
LEMMA AbortKeeps ==
    ASSUME AliasInv, NEW w \in Workers, Abort(w)
    PROVE  AliasInv'
  <1>0. /\ AliasTypeOK /\ worker \in [Workers -> Work] /\ worker[w] \in Work
        /\ WorkerOK(w) /\ worker[w].at # "idle" /\ alhist.aborts < MaxAborts
        /\ worker[w].id \in Ids /\ worker[w].id[2] <= place[worker[w].id[1]]
        /\ alhist \in [handed : SUBSET (Nat \X Items), dropped : SUBSET Nat,
                       loose : SUBSET Nat, aborts : 0..MaxAborts]
    BY DEF AliasInv, AliasTypeOK, Abort, WorkerOK
  <1>a. alhist.aborts + 1 \in 0..MaxAborts
    BY <1>0, AliasAssumption
  <1>u. UNCHANGED <<aliases, counter, place>>
    BY DEF Abort
  <1>1. CASE worker[w].at \in Rebinding
    <2> DEFINE s == [worker[w] EXCEPT !.at = "lost", !.dup = {}]
               more == alhist.loose \union {r.alias : r \in RowsOf(OldId(w))}
    <2>1. /\ worker' = [worker EXCEPT ![w] = s]
          /\ alhist' = [Loosen(alhist, RowsOf(OldId(w))) EXCEPT !.aborts = @ + 1]
      BY <1>1 DEF Abort, Rebinding
    <2>2. /\ s \in Work /\ s.at = "lost" /\ s.id = worker[w].id /\ s.dup = {}
          /\ worker[w].id[2] = 1
      BY <1>0, <1>1 DEF Work, WorkerOK
    <2>3. more \in SUBSET Nat
      BY <1>0 DEF RowsOf, AliasTypeOK, AliasRow
    <2>4. alhist' = [alhist EXCEPT !.loose = more, !.aborts = alhist.aborts + 1]
      BY <1>0, <2>1 DEF Loosen
    <2>8. \A r \in RowsOf(OldId(w)) : r.alias \in more
      OBVIOUS
    <2>9. alhist.loose \subseteq more
      OBVIOUS
    <2> HIDE DEF s, more
    <2>5. /\ alhist' \in [handed : SUBSET (Nat \X Items), dropped : SUBSET Nat,
                          loose : SUBSET Nat, aborts : 0..MaxAborts]
          /\ alhist'.handed = alhist.handed /\ alhist'.dropped = alhist.dropped
          /\ alhist'.loose = more
      BY <1>0, <1>a, <2>3, <2>4
    <2>6. AliasTypeOK'
      BY <1>0, <1>u, <2>1, <2>2, <2>5 DEF AliasTypeOK
    <2> QED
      BY <1>0, <1>1, <1>u, <2>1, <2>2, <2>5, <2>6, <2>8, <2>9, WorkerMoves
         DEF Holding, Rebinding
  <1>2. CASE worker[w].at \notin Rebinding
    <2>1. /\ worker' = [worker EXCEPT ![w] = Quiet]
          /\ alhist' = [alhist EXCEPT !.aborts = alhist.aborts + 1]
      BY <1>2 DEF Abort, Rebinding
    <2>5. /\ alhist' \in [handed : SUBSET (Nat \X Items), dropped : SUBSET Nat,
                          loose : SUBSET Nat, aborts : 0..MaxAborts]
          /\ alhist'.handed = alhist.handed /\ alhist'.dropped = alhist.dropped
          /\ alhist'.loose = alhist.loose
      BY <1>0, <1>a, <2>1
    <2>6. AliasTypeOK'
      BY <1>0, <1>u, <2>1, <2>5, QuietTyped DEF AliasTypeOK
    <2> QED
      BY <1>0, <1>2, <1>u, <2>1, <2>5, <2>6, QuietTyped, WorkerMoves DEF Holding, Rebinding
  <1> QED
    BY <1>1, <1>2

(* An item moves, and its rebind begins.                                   *)
LEMMA MoveKeeps ==
    ASSUME AliasInv, NEW w \in Workers, NEW i \in Items, Move(w, i)
    PROVE  AliasInv'
  <1> DEFINE s == [Quiet EXCEPT !.at = "rebind", !.id = <<i, 1>>]
  <1>0. /\ AliasTypeOK /\ worker \in [Workers -> Work] /\ place \in [Items -> {0, 1}]
        /\ worker[w].at = "idle" /\ place[i] = 0
    BY DEF AliasInv, AliasTypeOK, Move
  <1>1. /\ worker' = [worker EXCEPT ![w] = s] /\ place' = [place EXCEPT ![i] = 1]
        /\ UNCHANGED <<aliases, counter, alhist>>
    BY DEF Move
  <1>2. <<i, 1>> \in Ids
    BY DEF Ids
  <1>3. s \in Work /\ s.at = "rebind" /\ s.id = <<i, 1>> /\ s.dup = {}
    BY <1>2 DEF Quiet, Work
  <1> HIDE DEF s
  <1>4. /\ worker'[w] = s /\ \A u \in Workers : u # w => worker'[u] = worker[u]
        /\ place'[i] = 1 /\ \A j \in Items : place[j] <= place'[j] /\ place'[j] \in {0, 1}
        /\ \A j \in Items : j # i => place'[j] = place[j]
    BY <1>0, <1>1
  <1>5. AliasTypeOK'
    BY <1>0, <1>1, <1>3 DEF AliasTypeOK
  <1>6. OneHolder' /\ HandedOut'
    BY <1>1, <1>3, <1>4 DEF AliasInv, OneHolder, HandedOut, Holding
  <1>7. ASSUME NEW u \in Workers, u # w, worker[u].at \in Rebinding PROVE worker[u].id # <<i, 1>>
    <2>1. worker[u].id[2] = 1 /\ worker[u].id[2] <= place[worker[u].id[1]]
      BY <1>7 DEF AliasInv, WorkerOK, Rebinding
    <2> QED
      BY <1>0, <2>1
  <1>8. OneRebind'
    BY <1>3, <1>4, <1>7 DEF AliasInv, OneRebind
  <1>9. ASSUME NEW u \in Workers PROVE WorkerOK(u)'
    <2>1. CASE u = w
      BY <1>2, <1>3, <1>4, <2>1 DEF WorkerOK, Holding
    <2>2. CASE u # w
      <3>1. WorkerOK(u) /\ worker'[u] = worker[u]
        BY <1>4, <2>2 DEF AliasInv
      <3>2. worker[u].at # "idle" => worker[u].id[2] <= place'[worker[u].id[1]]
        <4>1. worker[u].at # "idle" => /\ worker[u].id[1] \in Items /\ worker[u].id[2] \in {0, 1}
                                       /\ worker[u].id[2] <= place[worker[u].id[1]]
          BY <3>1, IdParts DEF WorkerOK
        <4> QED
          BY <1>0, <1>4, <4>1
      <3> QED
        BY <1>1, <3>1, <3>2 DEF WorkerOK, RowsOf
    <2> QED
      BY <2>1, <2>2
  <1>10. RowsOK'
    <2> SUFFICES ASSUME NEW r \in aliases
                 PROVE  r.id[2] <= place'[r.id[1]] /\ Kept(r)'
      BY <1>1 DEF RowsOK
    <2>1. r.id[2] <= place[r.id[1]] /\ Kept(r)
      BY DEF AliasInv, RowsOK
    <2>2. r.id \in Ids /\ r.id[1] \in Items /\ r.id[2] \in {0, 1}
      BY <1>0, IdParts DEF AliasTypeOK, AliasRow
    <2>3. r.id[2] <= place'[r.id[1]]
      BY <1>0, <1>4, <2>1, <2>2
    <2>4. CASE r.id[1] = i
      <3>1. worker'[w].id = Current(r.id[1])' /\ worker'[w].at \in Rebinding
        BY <1>3, <1>4, <2>4 DEF Current, Rebinding
      <3> QED
        BY <2>3, <3>1 DEF Kept
    <2>5. CASE r.id[1] # i
      <3>1. Current(r.id[1])' = Current(r.id[1])
        BY <1>4, <2>2, <2>5 DEF Current
      <3>2. ASSUME NEW u \in Workers, worker[u].id = Current(r.id[1]), worker[u].at \in Rebinding
            PROVE  Kept(r)'
        <4>1. u # w
          BY <1>0, <3>2 DEF Rebinding
        <4> QED
          BY <1>4, <3>1, <3>2, <4>1 DEF Kept
      <3>3. ASSUME r.id = Current(r.id[1]) \/ r.alias \in alhist.loose PROVE Kept(r)'
        BY <1>1, <3>1, <3>3 DEF Kept
      <3> QED
        BY <2>1, <2>3, <3>2, <3>3 DEF Kept
    <2> QED
      BY <2>4, <2>5
  <1> QED
    BY <1>5, <1>6, <1>8, <1>9, <1>10 DEF AliasInv

(* An item's other connections: no two of them rebind it, so what one has  *)
(* marked to delete another leaves alone.                                  *)
LEMMA CommitKeeps ==
    ASSUME AliasInv, NEW w \in Workers, Commit(w)
    PROVE  AliasInv'
  <1> DEFINE id == worker[w].id
             n == counter + 1
             q == [alias |-> n, id |-> id]
  <1>0. /\ AliasTypeOK /\ worker \in [Workers -> Work] /\ worker[w].at = "commit"
        /\ counter \in Nat /\ place \in [Items -> {0, 1}] /\ aliases \in SUBSET AliasRow
        /\ id \in Ids /\ id[2] <= place[id[1]] /\ worker[w].n = n /\ RowsOf(id) = {}
        /\ id[1] \in Items
        /\ alhist \in [handed : SUBSET (Nat \X Items), dropped : SUBSET Nat,
                       loose : SUBSET Nat, aborts : 0..MaxAborts]
    BY IdParts DEF AliasInv, AliasTypeOK, Commit, WorkerOK, Holding
  <1>1. /\ aliases' = aliases \union {q} /\ counter' = n
        /\ worker' = [worker EXCEPT ![w] = Quiet] /\ place' = place
        /\ alhist' = Hand(alhist, n, id)
    BY <1>0 DEF Commit
  <1>2. q \in AliasRow /\ q.alias = n /\ q.id = id
    BY <1>0 DEF AliasRow
  <1>3. /\ alhist' \in [handed : SUBSET (Nat \X Items), dropped : SUBSET Nat,
                        loose : SUBSET Nat, aborts : 0..MaxAborts]
        /\ alhist'.handed = alhist.handed \union {<<n, id[1]>>}
        /\ alhist'.dropped = alhist.dropped /\ alhist.loose \subseteq alhist'.loose
        /\ id = Current(id[1]) \/ n \in alhist'.loose
    <2> DEFINE more == alhist.handed \union {<<n, id[1]>>}
               loose == IF id = Current(id[1]) THEN alhist.loose ELSE alhist.loose \union {n}
    <2>1. /\ more \in SUBSET (Nat \X Items) /\ loose \in SUBSET Nat
          /\ alhist.loose \subseteq loose /\ (id = Current(id[1]) \/ n \in loose)
      BY <1>0
    <2>2. alhist' = [alhist EXCEPT !.handed = more, !.loose = loose]
      BY <1>1 DEF Hand
    <2> HIDE DEF loose, more
    <2>3. alhist'.handed = more /\ alhist'.dropped = alhist.dropped /\ alhist'.loose = loose
      BY <1>0, <2>2
    <2>4. alhist' \in [handed : SUBSET (Nat \X Items), dropped : SUBSET Nat,
                       loose : SUBSET Nat, aborts : 0..MaxAborts]
      BY <1>0, <2>1, <2>2
    <2> QED
      BY <2>1, <2>3, <2>4 DEF more
  <1> HIDE DEF q
  <1>4. /\ worker'[w] = Quiet /\ \A u \in Workers : u # w => worker'[u] = worker[u]
    BY <1>0, <1>1
  <1>5. \A r \in aliases : r.alias # n /\ r.id # id /\ r.alias \in 1..counter'
    <2>1. \A r \in aliases : r.alias \in 1..counter
      BY <1>0 DEF AliasTypeOK
    <2>2. \A r \in aliases : r.id # id
      BY <1>0 DEF RowsOf
    <2> HIDE DEF id
    <2> QED
      BY <1>0, <1>1, <2>1, <2>2
  <1>n. n \in Nat /\ n \in 1..counter'
    BY <1>0, <1>1
  <1> HIDE DEF n, id
  <1>6. AliasTypeOK'
    <2>1. aliases' \in SUBSET AliasRow /\ counter' \in Nat /\ place' \in [Items -> {0, 1}]
      BY <1>0, <1>1, <1>2, <1>n
    <2>2. worker' \in [Workers -> Work]
      BY <1>0, <1>1, QuietTyped
    <2>3. \A r \in aliases' : r.alias \in 1..counter'
      BY <1>1, <1>2, <1>5, <1>n
    <2>4. \A r, s \in aliases' : (r.alias = s.alias \/ r.id = s.id) => r = s
      <3>1. \A r, s \in aliases : (r.alias = s.alias \/ r.id = s.id) => r = s
        BY <1>0 DEF AliasTypeOK
      <3> QED
        BY <1>1, <1>2, <1>5, <3>1
    <2> QED
      BY <1>3, <2>1, <2>2, <2>3, <2>4 DEF AliasTypeOK
  <1>7. OneHolder' /\ OneRebind'
    <2>1. worker'[w].at \notin Holding /\ worker'[w].at \notin Rebinding
      BY <1>4, QuietTyped DEF Holding, Rebinding
    <2> QED
      BY <1>4, <2>1 DEF AliasInv, OneHolder, OneRebind
  <1>8. ASSUME NEW u \in Workers PROVE WorkerOK(u)'
    <2>1. CASE u = w
      BY <1>4, <2>1, QuietTyped DEF WorkerOK, Holding, Rebinding
    <2>2. CASE u # w
      <3>1. WorkerOK(u) /\ worker'[u] = worker[u]
        BY <1>4, <2>2 DEF AliasInv
      <3>2. worker[u].at \notin Holding
        BY <1>0, <2>2 DEF AliasInv, OneHolder, Holding
      <3>3. worker[u].at # "commit"
        BY <3>2 DEF Holding
      <3>4. \A x : RowsOf(x) \subseteq RowsOf(x)'
        BY <1>1 DEF RowsOf
      <3> QED
        BY <1>1, <3>1, <3>2, <3>3, <3>4 DEF WorkerOK
    <2> QED
      BY <2>1, <2>2
  <1>9. RowsOK'
    <2> SUFFICES ASSUME NEW r \in aliases'
                 PROVE  r.id[2] <= place[r.id[1]] /\ Kept(r)'
      BY <1>1 DEF RowsOK
    <2>1. Current(r.id[1])' = Current(r.id[1])
      BY <1>1 DEF Current
    <2>2. CASE r = q
      <3>1. r.id = Current(r.id[1]) \/ r.alias \in alhist'.loose
        BY <1>2, <1>3, <2>2
      <3>2. Kept(r)'
        BY <2>1, <3>1 DEF Kept
      <3>3. r.id[2] <= place[r.id[1]]
        BY <1>0, <1>2, <2>2
      <3> QED
        BY <3>2, <3>3
    <2>3. CASE r \in aliases
      <3>1. r.id[2] <= place[r.id[1]] /\ Kept(r)
        BY <2>3 DEF AliasInv, RowsOK
      <3>2. ASSUME NEW u \in Workers, worker[u].id = Current(r.id[1]), worker[u].at \in Rebinding
            PROVE  Kept(r)'
        <4>1. u # w
          BY <1>0, <3>2 DEF Rebinding
        <4> QED
          BY <1>4, <2>1, <3>2, <4>1 DEF Kept
      <3>3. ASSUME r.alias \in alhist.loose PROVE Kept(r)'
        <4>1. r.alias \in alhist'.loose
          BY <1>3, <3>3
        <4> QED
          BY <4>1 DEF Kept
      <3>4. ASSUME r.id = Current(r.id[1]) PROVE Kept(r)'
        BY <2>1, <3>4 DEF Kept
      <3> QED
        BY <3>1, <3>2, <3>3, <3>4 DEF Kept
    <2> QED
      BY <1>1, <2>2, <2>3
  <1>10. HandedOut'
    <2> SUFFICES ASSUME NEW h \in alhist'.handed
                 PROVE  /\ h[1] \in 1..counter'
                        /\ h[1] \in alhist'.dropped \/ \E r \in aliases' : r.alias = h[1]
                        /\ \A r \in aliases' : r.alias = h[1] => r.id[1] = h[2]
      BY DEF HandedOut
    <2>1. CASE h \in alhist.handed
      <3>1. /\ h[1] \in 1..counter
            /\ h[1] \in alhist.dropped \/ \E r \in aliases : r.alias = h[1]
            /\ \A r \in aliases : r.alias = h[1] => r.id[1] = h[2]
        BY <2>1 DEF AliasInv, HandedOut
      <3>2. h[1] # n /\ h[1] \in 1..counter'
        BY <1>0, <1>1, <3>1 DEF n
      <3> QED
        BY <1>1, <1>2, <1>3, <3>1, <3>2
    <2>2. CASE h = <<n, id[1]>>
      <3>1. h[1] = n /\ h[2] = id[1]
        BY <2>2
      <3> QED
        BY <1>1, <1>2, <1>5, <1>n, <3>1
    <2> QED
      BY <1>3, <2>1, <2>2
  <1> QED
    BY <1>6, <1>7, <1>8, <1>9, <1>10 DEF AliasInv

(* The update that lost to another connection's insert: rolled back, its   *)
(* old row left loose, the other alias handed out.                         *)
LEMMA RebindLosesKeeps ==
    ASSUME AliasInv, NEW w \in Workers, worker[w].at = "update",
           NEW r \in RowsOf(worker[w].id), UNCHANGED <<aliases, counter, place>>,
           alhist' = Hand(Loosen(alhist, RowsOf(OldId(w))), r.alias, worker[w].id),
           worker' = [worker EXCEPT ![w] = Quiet]
    PROVE  AliasInv'
  <1> DEFINE more == alhist.loose \union {x.alias : x \in RowsOf(OldId(w))}
             h == Loosen(alhist, RowsOf(OldId(w)))
  <1>0. /\ AliasTypeOK /\ worker \in [Workers -> Work]
        /\ alhist \in [handed : SUBSET (Nat \X Items), dropped : SUBSET Nat,
                       loose : SUBSET Nat, aborts : 0..MaxAborts]
        /\ r \in aliases /\ r.id = worker[w].id
    BY DEF AliasInv, AliasTypeOK, RowsOf
  <1>1. more \in SUBSET Nat
    BY <1>0 DEF RowsOf, AliasTypeOK, AliasRow
  <1>2. h = [alhist EXCEPT !.loose = more]
    BY DEF Loosen
  <1>3. alhist.loose \subseteq more /\ \A x \in RowsOf(OldId(w)) : x.alias \in more
    OBVIOUS
  <1> HIDE DEF more
  <1>4. /\ h \in [handed : SUBSET (Nat \X Items), dropped : SUBSET Nat, loose : SUBSET Nat,
                  aborts : 0..MaxAborts]
        /\ h.handed = alhist.handed /\ h.dropped = alhist.dropped /\ h.loose = more
    BY <1>0, <1>1, <1>2
  <1> HIDE DEF h
  <1>5. alhist' = Hand(h, r.alias, r.id)
    BY <1>0 DEF h
  <1>6. /\ alhist' \in [handed : SUBSET (Nat \X Items), dropped : SUBSET Nat,
                        loose : SUBSET Nat, aborts : 0..MaxAborts]
        /\ alhist'.handed = alhist.handed \union {<<r.alias, r.id[1]>>}
        /\ alhist'.dropped = alhist.dropped /\ more \subseteq alhist'.loose
    BY <1>0, <1>4, <1>5, HandIs
  <1>7. AliasTypeOK'
    BY <1>0, <1>6, QuietTyped DEF AliasTypeOK
  <1> QED
    BY <1>0, <1>3, <1>6, <1>7, QuietTyped, WorkerMoves DEF Holding, Rebinding

(* The update that goes through: the old row takes the new id, the         *)
(* duplicates go, and no other rebind had marked any of them, because no   *)
(* two connections rebind one item.                                        *)
LEMMA RebindWinsKeeps ==
    ASSUME AliasInv, NEW w \in Workers, worker[w].at = "update",
           \A u \in Workers : worker[u].at = "commit" => worker[u].id # worker[w].id,
           RowsOf(worker[w].id) \subseteq worker[w].dup,
           NEW r \in RowsOf(OldId(w)), UNCHANGED <<counter, place>>,
           aliases' = (aliases \ (worker[w].dup \union {r}))
                         \union {[r EXCEPT !.id = worker[w].id]},
           alhist' = [Hand(alhist, r.alias, worker[w].id) EXCEPT
                         !.dropped = @ \union {d.alias : d \in worker[w].dup},
                         !.loose = @ \ {r.alias}],
           worker' = [worker EXCEPT ![w] = Quiet]
    PROVE  AliasInv'
  <1> DEFINE id == worker[w].id
             dup == worker[w].dup
             i == id[1]
             q == [r EXCEPT !.id = id]
             rest == aliases \ (dup \union {r})
  <1>0. /\ AliasTypeOK /\ worker \in [Workers -> Work] /\ counter \in Nat
        /\ place \in [Items -> {0, 1}] /\ aliases \in SUBSET AliasRow
        /\ id \in Ids /\ i \in Items /\ id[2] = 1 /\ id[2] <= place[i] /\ dup \subseteq RowsOf(id)
        /\ alhist \in [handed : SUBSET (Nat \X Items), dropped : SUBSET Nat,
                       loose : SUBSET Nat, aborts : 0..MaxAborts]
        /\ worker[w].at \in Rebinding
    BY IdParts DEF AliasInv, AliasTypeOK, WorkerOK, Rebinding
  <1>1. r \in aliases /\ r \in AliasRow /\ r.id = <<i, 0>> /\ r.alias \in Nat
    BY <1>0 DEF RowsOf, OldId, AliasRow
  <1>2. place[i] = 1 /\ id = Current(i) /\ id = <<i, 1>>
    BY <1>0, IdParts DEF Current
  <1>3. /\ q \in AliasRow /\ q.alias = r.alias /\ q.id = id
    BY <1>0, <1>1 DEF AliasRow
  <1>4. aliases' = rest \union {q}
    OBVIOUS
  <1>5. /\ \A x \in rest : x \in aliases /\ x.alias # r.alias /\ x.id # id /\ x.id # r.id
        /\ \A x \in aliases : x \in rest \/ x \in dup \/ x = r
        /\ \A x \in dup : x \in aliases /\ x.id = id
        /\ \A x \in aliases : x.id = id => x \in dup
    <2>1. \A x, y \in aliases : (x.alias = y.alias \/ x.id = y.id) => x = y
      BY <1>0 DEF AliasTypeOK
    <2>2. /\ \A x \in dup : x \in aliases /\ x.id = id
          /\ \A x \in aliases : x.id = id => x \in dup
      BY <1>0 DEF RowsOf
    <2> QED
      BY <1>1, <2>1, <2>2
  <1>6. /\ alhist' \in [handed : SUBSET (Nat \X Items), dropped : SUBSET Nat,
                        loose : SUBSET Nat, aborts : 0..MaxAborts]
        /\ alhist'.handed = alhist.handed \union {<<r.alias, i>>}
        /\ alhist'.dropped = alhist.dropped \union {d.alias : d \in dup}
        /\ alhist'.loose = alhist.loose \ {r.alias}
    <2> DEFINE more == alhist.handed \union {<<r.alias, i>>}
               drop == alhist.dropped \union {d.alias : d \in dup}
               less == alhist.loose \ {r.alias}
    <2>1. Hand(alhist, r.alias, id) = [alhist EXCEPT !.handed = more, !.loose = alhist.loose]
      BY <1>2 DEF Hand
    <2>2. alhist' = [alhist EXCEPT !.handed = more, !.dropped = drop, !.loose = less]
      BY <1>0, <2>1
    <2>3. more \in SUBSET (Nat \X Items) /\ less \in SUBSET Nat
      BY <1>0, <1>1
    <2>4. drop \in SUBSET Nat
      BY <1>0, <1>5 DEF AliasRow
    <2> HIDE DEF more, drop, less
    <2>5. /\ alhist' \in [handed : SUBSET (Nat \X Items), dropped : SUBSET Nat,
                          loose : SUBSET Nat, aborts : 0..MaxAborts]
          /\ alhist'.handed = more /\ alhist'.dropped = drop /\ alhist'.loose = less
      BY <1>0, <2>2, <2>3, <2>4
    <2> QED
      BY <2>5 DEF more, drop, less
  <1>7. /\ worker'[w] = Quiet /\ \A u \in Workers : u # w => worker'[u] = worker[u]
        /\ worker'[w].at \notin Holding /\ worker'[w].at \notin Rebinding
    <2>1. worker'[w] = Quiet /\ \A u \in Workers : u # w => worker'[u] = worker[u]
      BY <1>0
    <2> QED
      BY <2>1, QuietTyped DEF Holding, Rebinding
  <1> HIDE DEF q, rest, dup
  <1>8. AliasTypeOK'
    <2>1. aliases' \in SUBSET AliasRow
      BY <1>0, <1>3, <1>4, <1>5
    <2>2. worker' \in [Workers -> Work]
      BY <1>0, QuietTyped
    <2>3. \A x \in aliases' : x.alias \in 1..counter
      <3>1. \A x \in aliases : x.alias \in 1..counter
        BY <1>0 DEF AliasTypeOK
      <3> QED
        BY <1>1, <1>3, <1>4, <1>5, <3>1
    <2>4. \A x, y \in aliases' : (x.alias = y.alias \/ x.id = y.id) => x = y
      <3>1. \A x, y \in aliases : (x.alias = y.alias \/ x.id = y.id) => x = y
        BY <1>0 DEF AliasTypeOK
      <3> HIDE DEF id, i
      <3> QED
        BY <1>3, <1>4, <1>5, <3>1
    <2> QED
      BY <1>0, <1>6, <2>1, <2>2, <2>3, <2>4 DEF AliasTypeOK
  <1>9. OneHolder' /\ OneRebind'
    BY <1>7 DEF AliasInv, OneHolder, OneRebind
  <1>10. ASSUME NEW u \in Workers PROVE WorkerOK(u)'
    <2>1. CASE u = w
      BY <1>7, <2>1, QuietTyped DEF WorkerOK, Holding, Rebinding
    <2>2. CASE u # w
      <3>1. WorkerOK(u) /\ worker'[u] = worker[u]
        BY <1>7, <2>2 DEF AliasInv
      <3>2. worker[u].at = "commit" => RowsOf(worker[u].id)' = {}
        BY <1>3, <1>4, <1>5, <3>1 DEF WorkerOK, RowsOf
      <3>3. ASSUME worker[u].at = "update", NEW x \in worker[u].dup
            PROVE  x \in aliases' /\ x.id = worker[u].id
        <4>1. x \in aliases /\ x.id = worker[u].id /\ worker[u].id[2] = 1
          BY <3>1, <3>3 DEF WorkerOK, RowsOf, Rebinding
        <4>2. worker[u].id # id
          BY <1>0, <2>2, <3>3 DEF AliasInv, OneRebind, Rebinding
        <4>3. x # r
          BY <1>1, <4>1
        <4> QED
          BY <1>4, <1>5, <4>1, <4>2, <4>3
      <3>4. worker[u].at = "update" => worker[u].dup \subseteq RowsOf(worker[u].id)'
        BY <3>1, <3>3 DEF RowsOf
      <3> QED
        BY <3>1, <3>2, <3>4 DEF WorkerOK
    <2> QED
      BY <2>1, <2>2
  <1>11. RowsOK'
    <2> SUFFICES ASSUME NEW x \in aliases'
                 PROVE  x.id[2] <= place[x.id[1]] /\ Kept(x)'
      BY DEF RowsOK
    <2>1. Current(x.id[1])' = Current(x.id[1])
      BY DEF Current
    <2>2. CASE x = q
      <3>1. x.id = Current(x.id[1])
        BY <1>2, <1>3, <2>2
      <3>2. x.id[2] <= place[x.id[1]]
        BY <1>0, <1>3, <2>2
      <3> QED
        BY <2>1, <3>1, <3>2 DEF Kept
    <2>3. CASE x \in rest
      <3>1. x \in aliases /\ x.alias # r.alias /\ x.id # id /\ x.id # <<i, 0>>
        BY <1>1, <1>5, <2>3
      <3>2. x.id[2] <= place[x.id[1]] /\ Kept(x) /\ x.id \in Ids
        BY <1>0, <3>1 DEF AliasInv, RowsOK, AliasRow
      <3>3. ASSUME NEW u \in Workers, worker[u].id = Current(x.id[1]), worker[u].at \in Rebinding
            PROVE  Kept(x)'
        <4>1. u # w
          <5>1. x.id[1] # i
            BY <1>2, <3>1, <3>2, IdParts
          <5>2. Current(x.id[1])[1] = x.id[1]
            BY DEF Current
          <5> QED
            BY <3>3, <5>1, <5>2
        <4> QED
          BY <1>7, <2>1, <3>3, <4>1 DEF Kept
      <3>4. ASSUME x.alias \in alhist.loose PROVE Kept(x)'
        <4>1. x.alias \in alhist'.loose
          BY <1>6, <3>1, <3>4
        <4> QED
          BY <4>1 DEF Kept
      <3>5. ASSUME x.id = Current(x.id[1]) PROVE Kept(x)'
        BY <2>1, <3>5 DEF Kept
      <3> QED
        BY <3>2, <3>3, <3>4, <3>5 DEF Kept
    <2> QED
      BY <1>4, <2>2, <2>3
  <1>12. HandedOut'
    <2> SUFFICES ASSUME NEW h \in alhist'.handed
                 PROVE  /\ h[1] \in 1..counter
                        /\ h[1] \in alhist'.dropped \/ \E x \in aliases' : x.alias = h[1]
                        /\ \A x \in aliases' : x.alias = h[1] => x.id[1] = h[2]
      BY DEF HandedOut
    <2>0. q.id[1] = i /\ r.id[1] = i
      BY <1>1, <1>3
    <2>1. CASE h \in alhist.handed
      <3>1. /\ h[1] \in 1..counter
            /\ h[1] \in alhist.dropped \/ \E x \in aliases : x.alias = h[1]
            /\ \A x \in aliases : x.alias = h[1] => x.id[1] = h[2]
        BY <2>1 DEF AliasInv, HandedOut
      <3>2. \A x \in aliases' : x.alias = h[1] => x.id[1] = h[2]
        BY <1>1, <1>3, <1>4, <1>5, <2>0, <3>1
      <3>3. ASSUME NEW x \in aliases, x.alias = h[1]
            PROVE  h[1] \in alhist'.dropped \/ \E y \in aliases' : y.alias = h[1]
        <4>1. CASE x \in dup
          BY <1>6, <3>3, <4>1
        <4>2. CASE x = r
          BY <1>3, <1>4, <3>3, <4>2
        <4>3. CASE x \in rest
          BY <1>4, <3>3, <4>3
        <4> QED
          BY <1>5, <4>1, <4>2, <4>3
      <3>4. h[1] \in alhist.dropped => h[1] \in alhist'.dropped
        BY <1>6
      <3> QED
        BY <3>1, <3>2, <3>3, <3>4
    <2>2. CASE h = <<r.alias, i>>
      <3>1. h[1] = r.alias /\ h[2] = i
        BY <2>2
      <3>2. r.alias \in 1..counter
        BY <1>0, <1>1 DEF AliasTypeOK
      <3> QED
        BY <1>3, <1>4, <1>5, <2>0, <3>1, <3>2
    <2> QED
      BY <1>6, <2>1, <2>2
  <1> QED
    BY <1>8, <1>9, <1>10, <1>11, <1>12 DEF AliasInv

(* rebind moves the old rows over, and commits.                            *)
LEMMA RebindUpdateKeeps ==
    ASSUME AliasInv, NEW w \in Workers, RebindUpdate(w)
    PROVE  AliasInv'
  <1>1. CASE RowsOf(worker[w].id) \ worker[w].dup # {}
    BY <1>1, RebindLosesKeeps DEF RebindUpdate
  <1>2. CASE RowsOf(worker[w].id) \ worker[w].dup = {}
    <2>1. RowsOf(worker[w].id) \subseteq worker[w].dup
      BY <1>2
    <2> QED
      BY <1>2, <2>1, RebindWinsKeeps DEF RebindUpdate
  <1> QED
    BY <1>1, <1>2

(* The invariant of the aliases holds at the start.                        *)
LEMMA AliasInitKeeps ==
    ASSUME AliasInit PROVE AliasInv
  <1>1. worker \in [Workers -> Work] /\ \A w \in Workers : worker[w] = Quiet
    BY QuietTyped DEF AliasInit
  <1>2. alhist \in [handed : SUBSET (Nat \X Items), dropped : SUBSET Nat,
                    loose : SUBSET Nat, aborts : 0..MaxAborts] /\ alhist.handed = {}
    BY AliasAssumption DEF AliasInit
  <1>3. AliasTypeOK
    BY <1>1, <1>2 DEF AliasInit, AliasTypeOK
  <1>4. \A w \in Workers : WorkerOK(w)
    BY <1>1, QuietTyped DEF WorkerOK, Holding, Rebinding
  <1>5. OneHolder /\ OneRebind
    BY <1>1, QuietTyped DEF OneHolder, OneRebind, Holding, Rebinding
  <1>6. RowsOK /\ HandedOut
    BY <1>2 DEF AliasInit, RowsOK, HandedOut
  <1> QED
    BY <1>3, <1>4, <1>5, <1>6 DEF AliasInv

(* Every step keeps it.                                                    *)
LEMMA AliasStepKeeps ==
    ASSUME AliasInv, [AliasNext]_aliasVars PROVE AliasInv'
  <1>1. CASE UNCHANGED aliasVars
    <2>1. AliasTypeOK'
      BY <1>1 DEF AliasInv, AliasTypeOK, aliasVars
    <2>2. OneHolder' /\ OneRebind'
      BY <1>1 DEF AliasInv, OneHolder, OneRebind, aliasVars
    <2>3. RowsOK'
      BY <1>1 DEF AliasInv, RowsOK, Kept, Current, aliasVars
    <2>4. HandedOut'
      BY <1>1 DEF AliasInv, HandedOut, aliasVars
    <2>5. \A w \in Workers : WorkerOK(w)'
      BY <1>1 DEF AliasInv, WorkerOK, RowsOf, aliasVars
    <2> QED
      BY <2>1, <2>2, <2>3, <2>4, <2>5 DEF AliasInv
  <1>2. CASE AliasNext
    BY <1>2, AliasForKeeps, MoveKeeps, MintKeeps, InsertKeeps, RereadKeeps, CommitKeeps,
       RebindSelectKeeps, RebindDeleteKeeps, RebindUpdateKeeps, AbortKeeps, AfterLossKeeps
       DEF AliasNext
  <1> QED
    BY <1>1, <1>2

(* It holds always.                                                        *)
LEMMA AliasInvHolds == AliasSpec => []AliasInv
  BY AliasInitKeeps, AliasStepKeeps, PTL DEF AliasSpec

(* The tables, the counter and the connections keep their types, and every *)
(* committed alias is unique, names a unique id and is at or below the     *)
(* counter (ids.py:_mint_locked).                                          *)
THEOREM AliasesTyped == AliasSpec => []AliasTypeOK
  <1>1. AliasInv => AliasTypeOK
    BY DEF AliasInv
  <1> QED
    BY <1>1, AliasInvHolds, PTL

(* AliasMeansItem: what resolve() finds for an alias a caller holds is the *)
(* item it was handed out for, through moves, lost races and aborted       *)
(* transactions of any number of connections.                              *)
THEOREM AliasKeepsItsItem == AliasSpec => []AliasMeansItem
  <1>1. ASSUME AliasInv PROVE AliasMeansItem
    <2> SUFFICES ASSUME NEW h \in alhist.handed
                 PROVE  /\ h[1] \in alhist.dropped \/ resolve(h[1]) # {}
                        /\ \A id \in resolve(h[1]) :
                             /\ id[1] = h[2]
                             /\ \/ id = Current(h[2])
                                \/ h[1] \in alhist.loose
                                \/ \E w \in Workers :
                                      worker[w].id = Current(h[2])
                                      /\ worker[w].at \in {"rebind", "delete", "update"}
      BY DEF AliasMeansItem
    <2>1. /\ h[1] \in alhist.dropped \/ \E r \in aliases : r.alias = h[1]
          /\ \A r \in aliases : r.alias = h[1] => r.id[1] = h[2]
      BY <1>1 DEF AliasInv, HandedOut
    <2>2. \A r \in aliases : Kept(r)
      BY <1>1 DEF AliasInv, RowsOK
    <2>3. h[1] \in alhist.dropped \/ resolve(h[1]) # {}
      BY <2>1 DEF resolve
    <2>4. ASSUME NEW id \in resolve(h[1])
          PROVE  /\ id[1] = h[2]
                 /\ \/ id = Current(h[2])
                    \/ h[1] \in alhist.loose
                    \/ \E w \in Workers : worker[w].id = Current(h[2])
                                          /\ worker[w].at \in {"rebind", "delete", "update"}
      <3>1. PICK r \in aliases : r.alias = h[1] /\ r.id = id
        BY DEF resolve
      <3> QED
        BY <2>1, <2>2, <3>1 DEF Kept, Rebinding
    <2> QED
      BY <2>3, <2>4
  <1> QED
    BY <1>1, AliasInvHolds, PTL

-----------------------------------------------------------------------------
(* Embed.                                                                  *)

(* A row that is planned and has changed since is known to be stale; no    *)
(* message is planned with two bodies; a row that is gone is empty.        *)
PlannedIsKnown ==
    \A p \in pass.plan \union pass.request :
        row[p.msg].there /\ row[p.msg].body # p.body => p.msg \in ehist.stale

OneBody == \A p, q \in pass.plan \union pass.request : p.msg = q.msg => p.body = q.body

GoneIsEmpty == \A m \in Msgs : ~row[m].there => row[m] = NoRow

(* What every step of the pass and of the writers keeps.                   *)
EmbedInv == EmbedTypeOK /\ PlannedIsKnown /\ OneBody /\ GoneIsEmpty /\ ChunksCurrent

(* The pass.                                                               *)
PassType == [at : {"idle", "plan", "embed", "store"}, left : 0..Page - 1,
             plan : SUBSET Entry, request : SUBSET Entry, tries : 0..MaxAttempts - 1]

-----------------------------------------------------------------------------
(* The least of three numbers is at most the first.                        *)
LEMMA LeastOfThree ==
    ASSUME NEW a \in Nat, NEW b \in Nat, NEW c \in Nat
    PROVE  Min({a, b, c}) \in Nat /\ Min({a, b, c}) <= a
  <1>1. \E x \in {a, b, c} : \A y \in {a, b, c} : x <= y
    <2>1. CASE a <= b /\ a <= c
      BY <2>1
    <2>2. CASE b <= a /\ b <= c
      BY <2>2
    <2>3. CASE c <= a /\ c <= b
      BY <2>3
    <2> QED
      BY <2>1, <2>2, <2>3
  <1>2. Min({a, b, c}) \in {a, b, c} /\ Min({a, b, c}) <= a
    BY <1>1 DEF Min
  <1> QED
    BY <1>2

(* Between two passes.                                                     *)
LEMMA NoPassTyped ==
    /\ NoPass \in PassType /\ NoPass.plan = {} /\ NoPass.request = {}
    /\ Cardinality(NoPass.request) <= Batch
  <1>1. 0 \in 0..Page - 1 /\ 0 \in 0..MaxAttempts - 1 /\ 0 <= Batch
    BY EmbedAssumption
  <1>2. NoPass \in PassType /\ NoPass.plan = {} /\ NoPass.request = {}
    BY <1>1 DEF NoPass, PassType
  <1> QED
    BY <1>1, <1>2, FS_EmptySet

(* unembedded_messages: what a pass plans is what the rows hold, within    *)
(* its budget.                                                             *)
LEMMA ReadRowsIs ==
    ASSUME EmbedTypeOK, NEW left \in 0..Page
    PROVE  /\ ReadRows(left) \in PassType /\ Cardinality(ReadRows(left).request) <= Batch
           /\ \A p \in ReadRows(left).plan \union ReadRows(left).request :
                 p.body = row[p.msg].body
  <1> DEFINE n == Min({left, Page, Cardinality(Backlog)})
             rows == {m \in Backlog : Cardinality({x \in Backlog : x < m}) < n}
             plan == {[msg |-> m, body |-> row[m].body] : m \in rows}
  <1>1. IsFiniteSet(Backlog)
    <2>1. IsFiniteSet(Msgs)
      BY EmbedAssumption, FS_Interval DEF Msgs
    <2> QED
      BY <2>1, FS_Subset DEF Backlog
  <1>2. Cardinality(Backlog) \in Nat
    BY <1>1, FS_CardinalityType
  <1>3. left \in Nat /\ left <= Page /\ Page \in Nat
    BY EmbedAssumption
  <1>4. n \in Nat /\ n <= left
    BY <1>2, <1>3, LeastOfThree
  <1>5. plan \in SUBSET Entry /\ \A p \in plan : p.body = row[p.msg].body
    <2>1. \A m \in rows : m \in Msgs /\ row[m].body \in Bodies
      BY DEF EmbedTypeOK, Backlog, EmbedRow
    <2> HIDE DEF rows
    <2>2. \A m \in rows : [msg |-> m, body |-> row[m].body] \in Entry
      BY <2>1 DEF Entry
    <2> QED
      BY <2>2
  <1>6. ReadRows(left) = IF n = 0 THEN NoPass
                         ELSE [NoPass EXCEPT !.at = "plan", !.left = left - n, !.plan = plan]
    BY DEF ReadRows
  <1> HIDE DEF n, plan
  <1>7. CASE n = 0
    BY <1>6, <1>7, NoPassTyped
  <1>8. CASE n # 0
    <2> DEFINE rest == left - n
    <2>1. rest \in 0..Page - 1
      BY <1>3, <1>4, <1>8
    <2> HIDE DEF rest
    <2>2. ReadRows(left) = [NoPass EXCEPT !.at = "plan", !.left = rest, !.plan = plan]
      BY <1>6, <1>8 DEF rest
    <2>3. ReadRows(left) \in PassType
      BY <1>5, <2>1, <2>2, NoPassTyped DEF PassType
    <2>4. ReadRows(left).request = {} /\ ReadRows(left).plan = plan
      BY <2>2, NoPassTyped DEF PassType
    <2> QED
      BY <1>5, <2>3, <2>4, NoPassTyped
  <1> QED
    BY <1>7, <1>8

(* The pass moves on and the rows do not.                                  *)
LEMMA PassMoves ==
    ASSUME EmbedInv, UNCHANGED <<row, version>>, ehist'.stale = ehist.stale,
           EmbedTypeOK',
           \/ pass'.plan \union pass'.request \subseteq pass.plan \union pass.request
           \/ \A p \in pass'.plan \union pass'.request : p.body = row[p.msg].body
    PROVE  EmbedInv'
  <1>1. PlannedIsKnown'
    BY DEF EmbedInv, PlannedIsKnown
  <1>2. OneBody'
    BY DEF EmbedInv, OneBody
  <1>3. GoneIsEmpty' /\ ChunksCurrent'
    BY DEF EmbedInv, GoneIsEmpty, ChunksCurrent
  <1> QED
    BY <1>1, <1>2, <1>3 DEF EmbedInv

(* replace_chunks, for a row that is planned: its chunks are those of its  *)
(* body, or its body has changed since and it is known to be stale.        *)
LEMMA StoredKeeps ==
    ASSUME EmbedInv, NEW p \in pass.plan \union pass.request, Stored(p),
           UNCHANGED <<version, api>>, pass' \in PassType,
           Cardinality(pass'.request) <= Batch,
           pass'.plan \union pass'.request \subseteq pass.plan \union pass.request
    PROVE  EmbedInv'
  <1> DEFINE m == p.msg
             new == IF row[m].there THEN [row[m] EXCEPT !.stamped = TRUE, !.chunks = p.body]
                    ELSE row[m]
  <1>0. /\ m \in Msgs /\ p.body \in Bodies /\ row \in [Msgs -> EmbedRow] /\ row[m] \in EmbedRow
        /\ ehist \in [stale : SUBSET Msgs, mishaps : 0..MaxEmbedMishaps]
    BY DEF EmbedInv, EmbedTypeOK, Entry
  <1>1. /\ new \in EmbedRow /\ new.there = row[m].there /\ new.body = row[m].body
        /\ new.there => new.stamped = TRUE /\ new.chunks = p.body
        /\ ~new.there => new = row[m]
    <2>1. CASE row[m].there
      BY <1>0, <2>1 DEF EmbedRow
    <2>2. CASE ~row[m].there
      BY <1>0, <2>2
    <2> QED
      BY <2>1, <2>2
  <1>2. row' = [row EXCEPT ![m] = new]
    BY DEF Stored
  <1> HIDE DEF new
  <1>3. row'[m] = new /\ \A x \in Msgs : x # m => row'[x] = row[x]
    BY <1>0, <1>2
  <1>4. /\ ehist' \in [stale : SUBSET Msgs, mishaps : 0..MaxEmbedMishaps]
        /\ row[m].body = p.body => ehist'.stale = ehist.stale \ {m}
        /\ row[m].body # p.body => ehist'.stale = ehist.stale
    <2>1. CASE row[m].body = p.body
      <3> DEFINE less == ehist.stale \ {m}
      <3>1. ehist' = [ehist EXCEPT !.stale = less] /\ less \in SUBSET Msgs
        BY <1>0, <2>1 DEF Stored
      <3> HIDE DEF less
      <3>2. ehist' \in [stale : SUBSET Msgs, mishaps : 0..MaxEmbedMishaps] /\ ehist'.stale = less
        BY <1>0, <3>1
      <3> QED
        BY <2>1, <3>2 DEF less
    <2>2. CASE row[m].body # p.body
      BY <1>0, <2>2 DEF Stored
    <2> QED
      BY <2>1, <2>2
  <1>5. EmbedTypeOK'
    <2>1. row' \in [Msgs -> EmbedRow]
      BY <1>0, <1>1, <1>2
    <2> QED
      BY <1>4, <2>1 DEF EmbedInv, EmbedTypeOK, PassType
  <1>6. \A x \in Msgs : row'[x].there = row[x].there /\ row'[x].body = row[x].body
    BY <1>1, <1>3
  <1>7. PlannedIsKnown'
    <2> SUFFICES ASSUME NEW q \in pass'.plan \union pass'.request,
                        row'[q.msg].there, row'[q.msg].body # q.body
                 PROVE  q.msg \in ehist'.stale
      BY DEF PlannedIsKnown
    <2>1. q \in pass.plan \union pass.request /\ q.msg \in Msgs
      BY DEF EmbedInv, EmbedTypeOK, Entry
    <2>2. row[q.msg].there /\ row[q.msg].body # q.body
      BY <1>6, <2>1
    <2>3. q.msg \in ehist.stale
      BY <2>1, <2>2 DEF EmbedInv, PlannedIsKnown
    <2>4. q.msg = m => q.body = p.body
      BY <2>1 DEF EmbedInv, OneBody
    <2> QED
      BY <1>4, <2>2, <2>3, <2>4
  <1>8. OneBody'
    BY DEF EmbedInv, OneBody
  <1>9. GoneIsEmpty'
    BY <1>1, <1>3, <1>6 DEF EmbedInv, GoneIsEmpty
  <1>10. ChunksCurrent'
    <2> SUFFICES ASSUME NEW x \in Msgs
                 PROVE  x \notin ehist'.stale =>
                          \/ row'[x].chunks = row'[x].body
                          \/ row'[x].chunks = 0 /\ ~row'[x].stamped
      BY DEF ChunksCurrent
    <2>1. CASE x # m
      BY <1>3, <1>4, <2>1 DEF EmbedInv, ChunksCurrent
    <2>2. CASE x = m /\ row[m].there
      <3>1. row'[m].stamped = TRUE /\ row'[m].chunks = p.body /\ row'[m].body = row[m].body
        BY <1>1, <1>3, <2>2
      <3>2. row[m].body # p.body => m \in ehist'.stale
        BY <1>4, <2>2 DEF EmbedInv, PlannedIsKnown
      <3> QED
        BY <2>2, <3>1, <3>2
    <2>3. CASE x = m /\ ~row[m].there
      <3>1. row'[m] = NoRow
        BY <1>0, <1>1, <1>3, <2>3 DEF EmbedInv, GoneIsEmpty
      <3> QED
        BY <2>3, <3>1 DEF NoRow
    <2> QED
      BY <2>1, <2>2, <2>3
  <1> QED
    BY <1>5, <1>7, <1>8, <1>9, <1>10 DEF EmbedInv

(* A writer of ews.messages changes one row: a new body over chunks, under *)
(* a stamp or in a plan is known to be stale.                              *)
LEMMA RowChanges ==
    ASSUME EmbedInv, NEW m \in Msgs, NEW new \in EmbedRow, row' = [row EXCEPT ![m] = new],
           UNCHANGED <<api, pass>>, version' \in Bodies, NEW s \in SUBSET Msgs,
           ehist' = [ehist EXCEPT !.stale = s],
           \A x \in Msgs : x # m => (x \in s <=> x \in ehist.stale),
           m \in Planned /\ new.there => m \in s,
           ~new.there => new = NoRow,
           m \notin s => new.chunks = new.body \/ (new.chunks = 0 /\ ~new.stamped)
    PROVE  EmbedInv'
  <1>0. row \in [Msgs -> EmbedRow]
        /\ ehist \in [stale : SUBSET Msgs, mishaps : 0..MaxEmbedMishaps]
    BY DEF EmbedInv, EmbedTypeOK
  <1>1. row'[m] = new /\ \A x \in Msgs : x # m => row'[x] = row[x]
    BY <1>0
  <1>2. ehist' \in [stale : SUBSET Msgs, mishaps : 0..MaxEmbedMishaps] /\ ehist'.stale = s
    BY <1>0
  <1>3. row' \in [Msgs -> EmbedRow]
    BY <1>0
  <1>4. EmbedTypeOK'
    BY <1>2, <1>3 DEF EmbedInv, EmbedTypeOK
  <1>5. PlannedIsKnown'
    <2> SUFFICES ASSUME NEW p \in pass.plan \union pass.request,
                        row'[p.msg].there, row'[p.msg].body # p.body
                 PROVE  p.msg \in ehist'.stale
      BY DEF PlannedIsKnown
    <2>1. p.msg \in Msgs /\ p.msg \in Planned
      BY DEF EmbedInv, EmbedTypeOK, Entry, Planned
    <2>2. CASE p.msg = m
      BY <1>1, <1>2, <2>1, <2>2
    <2>3. CASE p.msg # m
      <3>1. row'[p.msg] = row[p.msg]
        BY <1>1, <2>1, <2>3
      <3> QED
        BY <1>2, <2>1, <2>3, <3>1 DEF EmbedInv, PlannedIsKnown
    <2> QED
      BY <2>2, <2>3
  <1>6. OneBody' /\ GoneIsEmpty'
    BY <1>1 DEF EmbedInv, OneBody, GoneIsEmpty
  <1>7. ChunksCurrent'
    BY <1>1, <1>2 DEF EmbedInv, ChunksCurrent
  <1> QED
    BY <1>4, <1>5, <1>6, <1>7 DEF EmbedInv

-----------------------------------------------------------------------------
(* The pass plans, asks, stores, backs off or gives up.                    *)
LEMMA PassStepKeeps ==
    ASSUME EmbedInv, PassStep PROVE EmbedInv'
  <1>0. /\ EmbedTypeOK /\ pass \in PassType /\ Cardinality(pass.request) <= Batch
        /\ Batch \in Nat /\ Page \in Nat
    BY EmbedAssumption DEF EmbedInv, EmbedTypeOK, PassType
  <1>f. \A S \in SUBSET Entry : IsFiniteSet(S)
    <2>1. IsFiniteSet(Msgs) /\ IsFiniteSet(Bodies)
      BY EmbedAssumption, FS_Interval DEF Msgs, Bodies
    <2>2. IsFiniteSet(Msgs \X Bodies)
      BY <2>1, FS_Product
    <2> DEFINE f == [x \in Msgs \X Bodies |-> [msg |-> x[1], body |-> x[2]]]
    <2>3. f \in [Msgs \X Bodies -> Entry]
      BY DEF Entry
    <2>4. f \in Surjection(Msgs \X Bodies, Entry)
      <3>1. ASSUME NEW e \in Entry PROVE \E x \in Msgs \X Bodies : f[x] = e
        <4>1. <<e.msg, e.body>> \in Msgs \X Bodies /\ e = [msg |-> e.msg, body |-> e.body]
          BY DEF Entry
        <4>2. f[<<e.msg, e.body>>] = e
          BY <4>1
        <4> QED
          BY <4>1, <4>2
      <3> QED
        BY <2>3, <3>1 DEF Surjection
    <2>5. IsFiniteSet(Entry)
      BY <2>2, <2>4, FS_Surjection
    <2> QED
      BY <2>5, FS_Subset
  <1>1. CASE BeginPass
    <2>1. pass' = ReadRows(Page) /\ UNCHANGED <<row, version, api, ehist>>
      BY <1>1 DEF BeginPass
    <2>2. Page \in 0..Page
      BY <1>0
    <2>3. /\ pass' \in PassType /\ Cardinality(pass'.request) <= Batch
          /\ \A p \in pass'.plan \union pass'.request : p.body = row[p.msg].body
      BY <1>0, <2>1, <2>2, ReadRowsIs
    <2>4. EmbedTypeOK'
      BY <1>0, <2>1, <2>3 DEF EmbedTypeOK, PassType
    <2> QED
      BY <2>1, <2>3, <2>4, PassMoves
  <1>2. CASE PlanEmpty
    <2>1. PICK p \in First(pass.plan) : Stored(p) /\ pass' = [pass EXCEPT !.plan = @ \ {p}]
      BY <1>2 DEF PlanEmpty
    <2>2. p \in pass.plan /\ UNCHANGED <<version, api>>
      BY <1>2 DEF First, PlanEmpty
    <2> DEFINE less == pass.plan \ {p}
    <2>3. less \in SUBSET Entry /\ less \subseteq pass.plan /\ pass' = [pass EXCEPT !.plan = less]
      BY <1>0, <2>1 DEF PassType
    <2> HIDE DEF less
    <2>4. pass' \in PassType /\ pass'.plan = less /\ pass'.request = pass.request
      BY <1>0, <2>3 DEF PassType
    <2> QED
      BY <1>0, <2>1, <2>2, <2>3, <2>4, StoredKeeps
  <1>3. CASE PlanText
    <2>1. PICK p \in First(pass.plan) :
            pass' = IF Cardinality(pass.request) = Batch
                    THEN [pass EXCEPT !.at = "embed", !.tries = 0]
                    ELSE [pass EXCEPT !.request = @ \union {p}, !.plan = @ \ {p}]
      BY <1>3 DEF PlanText
    <2>2. p \in pass.plan /\ UNCHANGED <<row, version, api, ehist>>
      BY <1>3 DEF First, PlanText
    <2>3. /\ pass' \in PassType /\ Cardinality(pass'.request) <= Batch
          /\ pass'.plan \union pass'.request \subseteq pass.plan \union pass.request
      <3>1. CASE Cardinality(pass.request) = Batch
        <4>1. pass' = [pass EXCEPT !.at = "embed", !.tries = 0] /\ 0 \in 0..MaxAttempts - 1
          BY <2>1, <3>1, EmbedAssumption
        <4>2. pass' \in PassType /\ pass'.plan = pass.plan /\ pass'.request = pass.request
          BY <1>0, <4>1 DEF PassType
        <4> QED
          BY <1>0, <4>2
      <3>2. CASE Cardinality(pass.request) # Batch
        <4> DEFINE more == pass.request \union {p}
                   less == pass.plan \ {p}
        <4>1. /\ pass' = [pass EXCEPT !.request = more, !.plan = less]
              /\ more \in SUBSET Entry /\ less \in SUBSET Entry
              /\ more \union less \subseteq pass.plan \union pass.request
          BY <1>0, <2>1, <2>2, <3>2 DEF PassType
        <4>2. Cardinality(more) <= Batch
          <5>1. IsFiniteSet(pass.request)
            BY <1>0, <1>f DEF PassType
          <5>2. Cardinality(pass.request) \in Nat
            BY <5>1, FS_CardinalityType
          <5>3. Cardinality(more) = Cardinality(pass.request)
                \/ Cardinality(more) = Cardinality(pass.request) + 1
            BY <5>1, FS_AddElement
          <5> HIDE DEF more
          <5> QED
            BY <1>0, <3>2, <5>2, <5>3
        <4> HIDE DEF more, less
        <4>3. pass' \in PassType /\ pass'.plan = less /\ pass'.request = more
          BY <1>0, <4>1 DEF PassType
        <4> QED
          BY <4>1, <4>2, <4>3
      <3> QED
        BY <3>1, <3>2
    <2>4. EmbedTypeOK'
      BY <1>0, <2>2, <2>3 DEF EmbedTypeOK, PassType
    <2> QED
      BY <2>2, <2>3, <2>4, PassMoves
  <1>4. CASE PlanDone
    <2>0. UNCHANGED <<row, version, api, ehist>>
      BY <1>4 DEF PlanDone
    <2>1. CASE pass.request # {}
      <3>1. pass' = [pass EXCEPT !.at = "embed", !.tries = 0] /\ 0 \in 0..MaxAttempts - 1
        BY <1>4, <2>1, EmbedAssumption DEF PlanDone
      <3>2. pass' \in PassType /\ pass'.plan = pass.plan /\ pass'.request = pass.request
        BY <1>0, <3>1 DEF PassType
      <3>3. EmbedTypeOK'
        BY <1>0, <2>0, <3>2 DEF EmbedTypeOK, PassType
      <3> QED
        BY <2>0, <3>2, <3>3, PassMoves
    <2>2. CASE pass.request = {} /\ pass.left > 0
      <3>1. pass' = ReadRows(pass.left)
        BY <1>4, <2>2 DEF PlanDone
      <3>2. pass.left \in 0..Page
        BY <1>0 DEF PassType
      <3>3. /\ pass' \in PassType /\ Cardinality(pass'.request) <= Batch
            /\ \A p \in pass'.plan \union pass'.request : p.body = row[p.msg].body
        BY <1>0, <3>1, <3>2, ReadRowsIs
      <3>4. EmbedTypeOK'
        BY <1>0, <2>0, <3>3 DEF EmbedTypeOK, PassType
      <3> QED
        BY <2>0, <3>3, <3>4, PassMoves
    <2>3. CASE pass' = NoPass
      <3>1. EmbedTypeOK'
        BY <1>0, <2>0, <2>3, NoPassTyped DEF EmbedTypeOK, PassType
      <3> QED
        BY <2>0, <2>3, <3>1, NoPassTyped, PassMoves
    <2> QED
      BY <1>4, <2>1, <2>2, <2>3 DEF PlanDone
  <1>5. CASE EmbedOk
    <2>1. pass' = [pass EXCEPT !.at = "store"] /\ UNCHANGED <<row, version, api, ehist>>
      BY <1>5 DEF EmbedOk
    <2>2. pass' \in PassType /\ pass'.plan = pass.plan /\ pass'.request = pass.request
      BY <1>0, <2>1 DEF PassType
    <2>3. EmbedTypeOK'
      BY <1>0, <2>1, <2>2 DEF EmbedTypeOK, PassType
    <2> QED
      BY <2>1, <2>2, <2>3, PassMoves
  <1>6. CASE EmbedFails
    <2>0. UNCHANGED <<row, version, api, ehist>>
      BY <1>6 DEF EmbedFails
    <2>1. CASE pass' = NoPass
      <3>1. EmbedTypeOK'
        BY <1>0, <2>0, <2>1, NoPassTyped DEF EmbedTypeOK, PassType
      <3> QED
        BY <2>0, <2>1, <3>1, NoPassTyped, PassMoves
    <2>2. CASE pass' # NoPass
      <3> DEFINE t == pass.tries + 1
      <3>1. pass' = [pass EXCEPT !.tries = t] /\ t # MaxAttempts
        BY <1>6, <2>2 DEF EmbedFails
      <3>2. t \in 0..MaxAttempts - 1
        <4>1. pass.tries \in 0..MaxAttempts - 1
          BY <1>0 DEF PassType
        <4> QED
          BY <3>1, <4>1, EmbedAssumption
      <3> HIDE DEF t
      <3>3. pass' \in PassType /\ pass'.plan = pass.plan /\ pass'.request = pass.request
        BY <1>0, <3>1, <3>2 DEF PassType
      <3>4. EmbedTypeOK'
        BY <1>0, <2>0, <3>3 DEF EmbedTypeOK, PassType
      <3> QED
        BY <2>0, <3>3, <3>4, PassMoves
    <2> QED
      BY <2>1, <2>2
  <1>7. CASE StoreChunks
    <2>1. PICK p \in First(pass.request) :
             IF row[p.msg].there
             THEN /\ Stored(p)
                  /\ pass' = [pass EXCEPT !.request = @ \ {p},
                                !.at = IF pass.request = {p} THEN "plan" ELSE "store"]
             ELSE /\ pass' = NoPass
                  /\ UNCHANGED <<row, ehist>>
      BY <1>7 DEF StoreChunks
    <2>2. p \in pass.request /\ UNCHANGED <<version, api>>
      BY <1>7 DEF First, StoreChunks
    <2>3. CASE row[p.msg].there
      <3> DEFINE less == pass.request \ {p}
                 at == IF pass.request = {p} THEN "plan" ELSE "store"
      <3>1. /\ pass' = [pass EXCEPT !.request = less, !.at = at]
            /\ less \in SUBSET Entry /\ less \subseteq pass.request /\ at \in {"plan", "store"}
        BY <1>0, <2>1, <2>3 DEF PassType
      <3>2. Cardinality(less) <= Batch
        <4>1. IsFiniteSet(pass.request)
          BY <1>0, <1>f DEF PassType
        <4>2. Cardinality(less) \in Nat /\ Cardinality(pass.request) \in Nat
              /\ Cardinality(less) <= Cardinality(pass.request)
          BY <3>1, <4>1, FS_Subset, FS_CardinalityType
        <4> HIDE DEF less
        <4> QED
          BY <1>0, <4>2
      <3> HIDE DEF less, at
      <3>3. pass' \in PassType /\ pass'.plan = pass.plan /\ pass'.request = less
        BY <1>0, <3>1 DEF PassType
      <3> QED
        BY <2>1, <2>2, <2>3, <3>1, <3>2, <3>3, StoredKeeps
    <2>4. CASE ~row[p.msg].there
      <3>1. EmbedTypeOK'
        BY <1>0, <2>1, <2>2, <2>4, NoPassTyped DEF EmbedTypeOK, PassType
      <3> QED
        BY <2>1, <2>2, <2>4, <3>1, NoPassTyped, PassMoves
    <2> QED
      BY <2>3, <2>4
  <1> QED
    BY <1>1, <1>2, <1>3, <1>4, <1>5, <1>6, <1>7 DEF PassStep

(* The process dies; the embedder goes down and comes back.                *)
LEMMA SurroundingsKeep ==
    ASSUME EmbedInv, EmbedCrash \/ ApiDown \/ ApiUp PROVE EmbedInv'
  <1>0. /\ EmbedTypeOK /\ ehist \in [stale : SUBSET Msgs, mishaps : 0..MaxEmbedMishaps]
        /\ api \in [up : BOOLEAN, refuses : SUBSET Msgs]
    BY DEF EmbedInv, EmbedTypeOK
  <1>1. ASSUME ehist.mishaps < MaxEmbedMishaps, ehist' = [ehist EXCEPT !.mishaps = @ + 1]
        PROVE  /\ ehist' \in [stale : SUBSET Msgs, mishaps : 0..MaxEmbedMishaps]
               /\ ehist'.stale = ehist.stale
    <2> DEFINE k == ehist.mishaps + 1
    <2>1. k \in 0..MaxEmbedMishaps
      BY <1>0, <1>1, EmbedAssumption
    <2>2. ehist' = [ehist EXCEPT !.mishaps = k]
      BY <1>1
    <2> HIDE DEF k
    <2> QED
      BY <1>0, <2>1, <2>2
  <1>2. CASE EmbedCrash
    <2>1. /\ pass' = NoPass /\ UNCHANGED <<row, version, api>>
          /\ ehist' \in [stale : SUBSET Msgs, mishaps : 0..MaxEmbedMishaps]
          /\ ehist'.stale = ehist.stale
      BY <1>1, <1>2 DEF EmbedCrash
    <2>2. EmbedTypeOK'
      BY <1>0, <2>1, NoPassTyped DEF EmbedTypeOK, PassType
    <2> QED
      BY <2>1, <2>2, NoPassTyped, PassMoves
  <1>3. CASE ApiDown
    <2>1. /\ UNCHANGED <<row, version, pass>>
          /\ ehist' \in [stale : SUBSET Msgs, mishaps : 0..MaxEmbedMishaps]
          /\ ehist'.stale = ehist.stale /\ api' \in [up : BOOLEAN, refuses : SUBSET Msgs]
      BY <1>0, <1>1, <1>3 DEF ApiDown
    <2>2. EmbedTypeOK'
      BY <1>0, <2>1 DEF EmbedTypeOK
    <2> QED
      BY <2>1, <2>2, PassMoves
  <1>4. CASE ApiUp
    <2>1. UNCHANGED <<row, version, pass, ehist>> /\ api' \in [up : BOOLEAN, refuses : SUBSET Msgs]
      BY <1>0, <1>4 DEF ApiUp
    <2>2. EmbedTypeOK'
      BY <1>0, <2>1 DEF EmbedTypeOK
    <2> QED
      BY <2>1, <2>2, PassMoves
  <1> QED
    BY <1>2, <1>3, <1>4

(* A sync, a repair or a deletion overtakes the pass.                      *)
LEMMA WritersKeep ==
    ASSUME EmbedInv, NEW m \in Msgs,
           Upsert(m) \/ DeleteRow(m) \/ \E b \in Bodies : UpdateBody(m, b)
    PROVE  EmbedInv'
  <1>0. /\ row[m] \in EmbedRow /\ version \in Bodies /\ row \in [Msgs -> EmbedRow]
        /\ ehist \in [stale : SUBSET Msgs, mishaps : 0..MaxEmbedMishaps]
    BY DEF EmbedInv, EmbedTypeOK
  <1>e. ehist = [ehist EXCEPT !.stale = ehist.stale]
    BY <1>0
  <1>1. CASE Upsert(m)
    <2> DEFINE v == version + 1
               new == [row[m] EXCEPT !.there = TRUE, !.body = v]
               s == IF row[m].stamped \/ row[m].chunks # 0 \/ m \in Planned
                    THEN ehist.stale \union {m} ELSE ehist.stale
    <2>1. v \in Bodies
      BY <1>0, <1>1, EmbedAssumption DEF Bodies, Upsert
    <2>2. /\ row' = [row EXCEPT ![m] = new] /\ UNCHANGED <<api, pass>> /\ version' = v
      BY <1>1 DEF Upsert
    <2>3. ehist' = [ehist EXCEPT !.stale = s]
      BY <1>1, <1>e DEF Upsert
    <2>4. /\ s \in SUBSET Msgs /\ \A x \in Msgs : x # m => (x \in s <=> x \in ehist.stale)
          /\ (row[m].stamped \/ row[m].chunks # 0 \/ m \in Planned => m \in s)
      BY <1>0
    <2> HIDE DEF v, s
    <2>5. /\ new \in EmbedRow /\ new.there = TRUE /\ new.stamped = row[m].stamped
          /\ new.chunks = row[m].chunks
      BY <1>0, <2>1 DEF EmbedRow
    <2> HIDE DEF new
    <2> QED
      BY <2>1, <2>2, <2>3, <2>4, <2>5, RowChanges
  <1>2. CASE DeleteRow(m)
    <2> DEFINE s == IF m \in Planned THEN ehist.stale ELSE ehist.stale \ {m}
    <2>1. /\ row' = [row EXCEPT ![m] = NoRow] /\ UNCHANGED <<version, api, pass>>
          /\ ehist' = [ehist EXCEPT !.stale = s]
      BY <1>2 DEF DeleteRow
    <2>2. s \in SUBSET Msgs /\ \A x \in Msgs : x # m => (x \in s <=> x \in ehist.stale)
      BY <1>0
    <2>3. /\ NoRow \in EmbedRow /\ NoRow.there = FALSE /\ NoRow.stamped = FALSE
          /\ NoRow.chunks = 0
      BY EmbedAssumption DEF NoRow, EmbedRow, Bodies
    <2> HIDE DEF s
    <2> QED
      BY <1>0, <2>1, <2>2, <2>3, RowChanges
  <1>3. ASSUME NEW b \in Bodies, UpdateBody(m, b) PROVE EmbedInv'
    <2> DEFINE new == [row[m] EXCEPT !.body = b, !.stamped = FALSE, !.chunks = 0]
               s == IF m \in Planned THEN ehist.stale \union {m} ELSE ehist.stale \ {m}
    <2>1. /\ row' = [row EXCEPT ![m] = new] /\ UNCHANGED <<api, pass>>
          /\ ehist' = [ehist EXCEPT !.stale = s] /\ version' \in Bodies /\ row[m].there
      BY <1>0, <1>3 DEF UpdateBody
    <2>2. /\ s \in SUBSET Msgs /\ \A x \in Msgs : x # m => (x \in s <=> x \in ehist.stale)
          /\ (m \in Planned => m \in s)
      BY <1>0
    <2>3. 0 \in Bodies
      BY EmbedAssumption DEF Bodies
    <2>4. /\ new \in EmbedRow /\ new.there = row[m].there /\ new.stamped = FALSE
          /\ new.chunks = 0
      BY <1>0, <2>3 DEF EmbedRow
    <2> HIDE DEF s, new
    <2> QED
      BY <2>1, <2>2, <2>4, RowChanges
  <1> QED
    BY <1>1, <1>2, <1>3

(* The invariant of the pass holds at the start.                           *)
LEMMA EmbedInitKeeps ==
    ASSUME EmbedInit PROVE EmbedInv
  <1>1. 0 \in Bodies /\ 1 \in Bodies /\ Messages \in Msgs /\ 0 \in 0..MaxEmbedMishaps
    BY EmbedAssumption DEF Bodies, Msgs
  <1>2. /\ NoRow \in EmbedRow /\ NoRow.stamped = FALSE /\ NoRow.chunks = 0
        /\ \A old \in {0, 1} :
             LET q == [NoRow EXCEPT !.there = TRUE, !.body = 1, !.chunks = old]
             IN /\ q \in EmbedRow /\ q.there = TRUE /\ q.stamped = FALSE
                /\ q.body = 1 /\ q.chunks = old
    BY <1>1 DEF NoRow, EmbedRow
  <1>3. /\ row \in [Msgs -> EmbedRow]
        /\ \A m \in Msgs : /\ row[m].stamped = FALSE
                           /\ row[m].chunks = 0 \/ row[m].chunks = row[m].body
                           /\ row[m] = NoRow \/ row[m].there = TRUE
    <2>1. PICK old \in {0, 1} :
            row = [m \in Msgs |->
              IF m = 1 THEN NoRow
              ELSE [NoRow EXCEPT !.there = TRUE, !.body = 1,
                                 !.chunks = IF m = Messages THEN old ELSE 0]]
      BY DEF EmbedInit
    <2>2. \A m \in Msgs : \/ row[m] = NoRow
                          \/ \E c \in {0, 1} :
                               row[m] = [NoRow EXCEPT !.there = TRUE, !.body = 1, !.chunks = c]
      BY <2>1
    <2>3. \A m \in Msgs : /\ row[m] \in EmbedRow /\ row[m].stamped = FALSE
                          /\ row[m].chunks = 0 \/ row[m].chunks = row[m].body
                          /\ row[m] = NoRow \/ row[m].there = TRUE
      <3> SUFFICES ASSUME NEW m \in Msgs
                   PROVE  /\ row[m] \in EmbedRow /\ row[m].stamped = FALSE
                          /\ row[m].chunks = 0 \/ row[m].chunks = row[m].body
                          /\ row[m] = NoRow \/ row[m].there = TRUE
        OBVIOUS
      <3>1. CASE row[m] = NoRow
        BY <1>2, <3>1
      <3>2. CASE row[m] # NoRow
        <4>1. PICK c \in {0, 1} :
                row[m] = [NoRow EXCEPT !.there = TRUE, !.body = 1, !.chunks = c]
          BY <2>2, <3>2
        <4>2. row[m] \in EmbedRow /\ row[m].there = TRUE /\ row[m].stamped = FALSE
              /\ row[m].body = 1 /\ row[m].chunks = c
          BY <1>2, <4>1
        <4> QED
          BY <4>2
      <3> QED
        BY <3>1, <3>2
    <2> QED
      BY <2>1, <2>3
  <1>4. /\ pass = NoPass /\ version \in Bodies /\ api \in [up : BOOLEAN, refuses : SUBSET Msgs]
        /\ ehist \in [stale : SUBSET Msgs, mishaps : 0..MaxEmbedMishaps]
    BY <1>1 DEF EmbedInit
  <1>5. EmbedTypeOK
    BY <1>3, <1>4, NoPassTyped DEF EmbedTypeOK, PassType
  <1>6. PlannedIsKnown /\ OneBody
    BY <1>4, NoPassTyped DEF PlannedIsKnown, OneBody
  <1>7. GoneIsEmpty /\ ChunksCurrent
    BY <1>3 DEF GoneIsEmpty, ChunksCurrent
  <1> QED
    BY <1>5, <1>6, <1>7 DEF EmbedInv

(* Every step keeps it.                                                    *)
LEMMA EmbedStepKeeps ==
    ASSUME EmbedInv, [EmbedNext]_embedVars PROVE EmbedInv'
  <1>1. CASE UNCHANGED embedVars
    BY <1>1 DEF EmbedInv, EmbedTypeOK, PlannedIsKnown, OneBody, GoneIsEmpty, ChunksCurrent,
       embedVars
  <1>2. CASE EmbedNext
    BY <1>2, PassStepKeeps, SurroundingsKeep, WritersKeep DEF EmbedNext
  <1> QED
    BY <1>1, <1>2

(* It holds always.                                                        *)
LEMMA EmbedInvHolds == EmbedSpec => []EmbedInv
  BY EmbedInitKeeps, EmbedStepKeeps, PTL DEF EmbedSpec

(* The pass keeps within its budget, its requests within the batch size    *)
(* and its tries within max_attempts (archive/embed.py:31, semantic.py:108,*)
(* embeddings.py:97).                                                      *)
THEOREM EmbedTyped == EmbedSpec => []EmbedTypeOK
  <1>1. EmbedInv => EmbedTypeOK
    BY DEF EmbedInv
  <1> QED
    BY <1>1, EmbedInvHolds, PTL

(* ChunksCurrent: a stamped message carries the chunks of its own body,    *)
(* for any number of messages, any page, batch and number of attempts,     *)
(* wherever a pass stops (store.py:728, semantic.py:83).                   *)
THEOREM ChunksAreCurrent == EmbedSpec => []ChunksCurrent
  <1>1. EmbedInv => ChunksCurrent
    BY DEF EmbedInv
  <1> QED
    BY <1>1, EmbedInvHolds, PTL

-----------------------------------------------------------------------------
(* AuditLog.                                                               *)

(* Every readable line is a link: its hash covers what it follows and its  *)
(* own record, made before the one now being written.                      *)
LinesAreLinks ==
    \A i \in Readable :
        /\ lines[i].h = Append(lines[i].prev, lines[i].rec)
        /\ lines[i].rec <= ahist.made
        /\ pending.at = "append" => lines[i].rec < ahist.made

(* The counts, and the record being written: it is the newest, and the     *)
(* head already stands for it.                                             *)
AuditBounds ==
    /\ head.seq <= ahist.made /\ state.seq <= ahist.made /\ Len(lines) <= ahist.made
    /\ pending.at = "append" => Len(lines) < ahist.made
    /\ pending.at # "idle" =>
         /\ pending.line.rec = ahist.made /\ ahist.made > 0
         /\ pending.line.seq = head.seq /\ head.seq > 0
         /\ pending.line.h = head.prev
         /\ pending.line.h = Append(pending.line.prev, ahist.made)

(* After a lost line the head is a hash no line has.                       *)
NoLineHas(p) == p # Genesis /\ \A i \in Readable : lines[i].h # p

(* After a lost line no line on disk leads to the head, and the next       *)
(* record will not follow any.                                             *)
LostIsAhead ==
    ahist.lost /\ ~ahist.after =>
        /\ pending.at = "idle" => NoLineHas(head.prev) /\ head.seq > 0
        /\ pending.at = "append" => NoLineHas(pending.line.prev) /\ pending.line.seq > 1
        /\ pending.at # "save"

(* Once another record was written after it, the loss is a break.          *)
LostShows == ahist.after /\ ~ahist.erased => LineBreaks

(* With no failed write and no crash inside a record, the lines are those  *)
(* of the records 1, 2, 3..., but for one if a line was taken out.         *)
Upto(n) == [k \in 1..n |-> k]
ChainAt(k) == [seq |-> k, rec |-> k, prev |-> Upto(k - 1), h |-> Upto(k)]

(* All lines of the first n records; all but one.                          *)
Whole(n) == Len(lines) = n /\ \A i \in 1..n : lines[i] = ChainAt(i)
Gap(n) == \E g \in 1..n :
            /\ Len(lines) = n - 1
            /\ \A i \in 1..(n - 1) : lines[i] = ChainAt(IF i < g THEN i ELSE i + 1)

(* The records on disk; the records chain.state stands for.                *)
Written == IF pending.at = "append" THEN ahist.made - 1 ELSE ahist.made
Saved == IF pending.at = "idle" THEN ahist.made ELSE ahist.made - 1

(* Without a failed write or a crash inside a record, disk and state are   *)
(* what the records say.                                                   *)
CleanRun ==
    ahist.failures = 0 /\ ~ahist.mid =>
        /\ ~ahist.lost /\ ~ahist.after
        /\ head = [prev |-> Upto(ahist.made), seq |-> ahist.made]
        /\ pending.at # "idle" => pending.line = ChainAt(ahist.made)
        /\ Saved = 0 => ~state.there /\ ~state.ok
        /\ Saved > 0 => state = [there |-> TRUE, ok |-> TRUE, prev |-> Upto(Saved), seq |-> Saved]
        /\ ~ahist.erased => Whole(Written)
        /\ ahist.erased => Gap(Written)

(* What every step of the log keeps.                                       *)
AuditInv == /\ AuditTypeOK /\ LinesAreLinks /\ AuditBounds /\ LostIsAhead /\ LostShows
            /\ CleanRun

-----------------------------------------------------------------------------
(* A set of indices that is not empty has a last one.                      *)
LEMMA LastIndexIs ==
    ASSUME NEW n \in Nat, NEW S \in SUBSET (1..n), S # {}
    PROVE  Max(S) \in S /\ \A y \in S : y <= Max(S)
  <1> DEFINE T == {n - s : s \in S}
  <1>1. T \in SUBSET Nat /\ T # {}
    <2>1. \A s \in S : n - s \in Nat
      OBVIOUS
    <2> QED
      BY <2>1
  <1>2. PICK x \in T : \A y \in T : ~(<<y, x>> \in OpToRel(<, Nat))
    <2> HIDE DEF T
    <2> QED
      BY <1>1, NatLessThanWellFounded, WFMin
  <1>3. PICK s \in S : x = n - s
    OBVIOUS
  <1>4. ASSUME NEW y \in S PROVE s >= y
    <2>1. n - y \in T /\ n - y \in Nat /\ n - s \in Nat
      OBVIOUS
    <2>2. ~(n - y < n - s)
      BY <1>2, <1>3, <2>1 DEF OpToRel
    <2> HIDE DEF T
    <2> QED
      BY <2>1, <2>2
  <1>5. Max(S) \in S /\ \A y \in S : Max(S) >= y
    <2> HIDE DEF T
    <2> QED
      BY <1>4 DEF Max
  <1>6. Max(S) \in Nat /\ \A y \in S : y \in Nat
    <2>1. \A y \in S : y \in Nat
      OBVIOUS
    <2> QED
      BY <1>5, <2>1
  <1> QED
    BY <1>5, <1>6

(* The hash of the first n records.                                        *)
LEMMA UptoIs ==
    ASSUME NEW n \in Nat
    PROVE  /\ Upto(n) \in Seq(Nat) /\ Len(Upto(n)) = n
           /\ \A i \in 1..n : Upto(n)[i] = i
  BY DEF Upto

(* One more record.                                                        *)
LEMMA UptoNext ==
    ASSUME NEW n \in Nat
    PROVE  Append(Upto(n), n + 1) = Upto(n + 1)
  <1>1. /\ Upto(n) \in Seq(Nat) /\ Len(Upto(n)) = n /\ \A i \in 1..n : Upto(n)[i] = i
        /\ Upto(n + 1) \in Seq(Nat) /\ Len(Upto(n + 1)) = n + 1
        /\ \A i \in 1..(n + 1) : Upto(n + 1)[i] = i
    BY UptoIs
  <1> DEFINE s == Append(Upto(n), n + 1)
  <1>2. /\ s \in Seq(Nat) /\ Len(s) = n + 1
        /\ \A i \in 1..(n + 1) : s[i] = IF i <= n THEN Upto(n)[i] ELSE n + 1
    BY <1>1, AppendProperties
  <1> HIDE DEF s
  <1>3. \A i \in 1..(n + 1) : s[i] = Upto(n + 1)[i]
    BY <1>1, <1>2
  <1>4. s = Upto(n + 1)
    BY <1>1, <1>2, <1>3, SeqEqual
  <1> QED
    BY <1>4 DEF s

(* No record.                                                              *)
LEMMA UptoZero == Upto(0) = Genesis
  <1>1. Upto(0) \in Seq(Nat) /\ Len(Upto(0)) = 0
    BY UptoIs
  <1> QED
    BY <1>1, EmptySeq DEF Genesis

(* Chains of different lengths have different hashes.                      *)
LEMMA UptoDiffers ==
    ASSUME NEW m \in Nat, NEW n \in Nat, m # n
    PROVE  Upto(m) # Upto(n)
  BY UptoIs

(* Hashes of different records differ, whatever they follow.               *)
LEMMA AppendTells ==
    ASSUME NEW S, NEW s \in Seq(S), NEW t \in Seq(S), NEW x \in S, NEW y \in S, x # y
    PROVE  Append(s, x) # Append(t, y)
  BY AppendInjective

(* What is left when a line is taken out.                                  *)
LEMMA RemoveAtIs ==
    ASSUME NEW S, NEW s \in Seq(S), NEW i \in 1..Len(s)
    PROVE  /\ RemoveAt(s, i) \in Seq(S) /\ Len(RemoveAt(s, i)) = Len(s) - 1
           /\ \A j \in 1..(Len(s) - 1) : RemoveAt(s, i)[j] = IF j < i THEN s[j] ELSE s[j + 1]
  <1> DEFINE n == Len(s)
             a == SubSeq(s, 1, i - 1)
             b == SubSeq(s, i + 1, n)
  <1>0. n \in Nat /\ i \in Int /\ \A j \in 1..n : s[j] \in S
    BY LenProperties
  <1>1. a \in Seq(S) /\ Len(a) = i - 1 /\ \A j \in 1..(i - 1) : a[j] = s[j]
    <2>1. /\ a \in Seq(S) /\ Len(a) = (IF 1 <= i - 1 THEN (i - 1) - 1 + 1 ELSE 0)
          /\ \A j \in 1..((i - 1) - 1 + 1) : a[j] = s[1 + j - 1]
      BY <1>0, SubSeqProperties
    <2> HIDE DEF a, n
    <2> QED
      BY <1>0, <2>1 DEF n
  <1>2. b \in Seq(S) /\ Len(b) = n - i /\ \A j \in 1..(n - i) : b[j] = s[i + j]
    <2>1. /\ b \in Seq(S) /\ Len(b) = (IF i + 1 <= n THEN n - (i + 1) + 1 ELSE 0)
          /\ \A j \in 1..(n - (i + 1) + 1) : b[j] = s[(i + 1) + j - 1]
      BY <1>0, SubSeqProperties
    <2> HIDE DEF b
    <2> QED
      BY <1>0, <2>1
  <1> HIDE DEF a, b
  <1>3. /\ a \o b \in Seq(S) /\ Len(a \o b) = Len(a) + Len(b)
        /\ \A j \in 1..(Len(a) + Len(b)) : (a \o b)[j] =
               IF j <= Len(a) THEN a[j] ELSE b[j - Len(a)]
    BY <1>1, <1>2, ConcatProperties
  <1>4. RemoveAt(s, i) = a \o b
    BY DEF RemoveAt, a, b
  <1>5. Len(a) + Len(b) = n - 1
    BY <1>0, <1>1, <1>2
  <1>6. ASSUME NEW j \in 1..(n - 1)
        PROVE  (a \o b)[j] = IF j < i THEN s[j] ELSE s[j + 1]
    <2>1. CASE j < i
      BY <1>0, <1>1, <1>3, <1>5, <2>1
    <2>2. CASE j >= i
      <3>1. (a \o b)[j] = b[j - (i - 1)] /\ j - (i - 1) \in 1..(n - i)
        BY <1>0, <1>1, <1>3, <1>5, <2>2
      <3>2. i + (j - (i - 1)) = j + 1
        BY <1>0
      <3>3. b[j - (i - 1)] = s[j + 1]
        BY <1>2, <3>1, <3>2
      <3> QED
        BY <1>0, <2>2, <3>1, <3>3
    <2>3. j < i \/ j >= i
      BY <1>0
    <2> QED
      BY <2>1, <2>2, <2>3
  <1> QED
    BY <1>3, <1>4, <1>5, <1>6

-----------------------------------------------------------------------------
(* A torn line is a line that is never readable.                           *)
LEMMA TornTyped == Torn \in ChainLine /\ Torn.seq = 0 /\ Glued.seq = 0
  <1>1. 0 \in Nums /\ << >> \in Seq(Nums)
    BY AuditAssumption, EmptySeq DEF Nums
  <1> QED
    BY <1>1 DEF Torn, Glued, ChainLine, Genesis

(* The lines, by their index.                                              *)
LEMMA LinesIndex ==
    ASSUME lines \in Seq(ChainLine)
    PROVE  /\ Len(lines) \in Nat /\ DOMAIN lines = 1..Len(lines)
           /\ \A i \in 1..Len(lines) : lines[i] \in ChainLine
  BY LenProperties, ElementOfSeq

(* What one more line does to a file: it is added, or swallowed by a torn  *)
(* one, and no break that showed before is covered up.                     *)
LEMMA WithLineGrows ==
    ASSUME lines \in Seq(ChainLine), NEW l \in ChainLine, 1 \in Nums, lines' = WithLine(l)
    PROVE  /\ lines' \in Seq(ChainLine) /\ Len(lines') <= Len(lines) + 1
           /\ \A i \in Readable' : \/ i \in Readable /\ lines'[i] = lines[i]
                                   \/ lines'[i] = l /\ l.seq # 0
           /\ LineBreaks => LineBreaks'
           /\ LineBreaks' \/ lines' = Append(lines, l)
  <1>0. PICK n \in Nat : /\ n = Len(lines) /\ DOMAIN lines = 1..n
                         /\ \A i \in 1..n : lines[i] \in ChainLine
    BY LinesIndex
  <1>1. CASE lines' = Append(lines, l)
    <2>1. /\ lines' \in Seq(ChainLine) /\ Len(lines') = n + 1
          /\ \A i \in 1..n : lines'[i] = lines[i]
          /\ lines'[n + 1] = l /\ DOMAIN lines' = 1..(n + 1)
      <3>1. /\ lines' \in Seq(ChainLine) /\ Len(lines') = Len(lines) + 1
            /\ \A i \in 1..(Len(lines) + 1) : lines'[i] = IF i <= Len(lines) THEN lines[i] ELSE l
        BY <1>1, AppendProperties
      <3>2. DOMAIN lines' = 1..Len(lines')
        BY <3>1, LenProperties
      <3> QED
        BY <1>0, <3>1, <3>2
    <2>2. \A i \in 1..n : i \in 1..(n + 1)
      BY <1>0
    <2>3. \A i \in Readable' : \/ i \in Readable /\ lines'[i] = lines[i]
                               \/ lines'[i] = l /\ l.seq # 0
      <3> SUFFICES ASSUME NEW i \in Readable'
                   PROVE  \/ i \in Readable /\ lines'[i] = lines[i]
                          \/ lines'[i] = l /\ l.seq # 0
        OBVIOUS
      <3>1. i \in 1..(n + 1) /\ lines'[i].seq # 0
        BY <2>1 DEF Readable, Unreadable
      <3>2. i \in 1..n \/ i = n + 1
        BY <1>0, <3>1
      <3> QED
        BY <1>0, <2>1, <3>1, <3>2 DEF Readable, Unreadable
    <2>4. ASSUME LineBreaks PROVE LineBreaks'
      <3>1. PICK i \in 1..n : \/ Unreadable(lines[i])
                              \/ lines[i].h # Append(Anchor(i), lines[i].rec)
                              \/ lines[i].prev # Anchor(i)
        BY <1>0, <2>4 DEF LineBreaks
      <3>2. Before(i)' = Before(i)
        <4>1. ASSUME NEW j PROVE j \in Before(i)' <=> j \in Before(i)
          <5>1. j \in Before(i)' <=> j \in 1..(n + 1) /\ lines'[j].seq # 0 /\ j < i
            BY <2>1 DEF Before, Readable, Unreadable
          <5>2. j \in Before(i) <=> j \in 1..n /\ lines[j].seq # 0 /\ j < i
            BY <1>0 DEF Before, Readable, Unreadable
          <5>3. j \in 1..(n + 1) /\ j < i => j \in 1..n
            BY <1>0
          <5> QED
            BY <2>1, <2>2, <5>1, <5>2, <5>3
        <4> QED
          BY <4>1
      <3>3. Before(i) # {} => Max(Before(i)) \in 1..n
        <4>1. Before(i) \in SUBSET (1..n)
          BY <1>0 DEF Before, Readable
        <4> QED
          BY <1>0, <4>1, LastIndexIs
      <3>4. Anchor(i)' = Anchor(i)
        BY <2>1, <3>2, <3>3 DEF Anchor
      <3>5. i \in DOMAIN lines' /\ lines'[i] = lines[i]
        BY <2>1, <2>2
      <3> QED
        BY <3>1, <3>4, <3>5 DEF LineBreaks, Unreadable
    <2>5. Len(lines') <= Len(lines) + 1
      BY <1>0, <2>1
    <2> QED
      BY <1>1, <2>1, <2>3, <2>4, <2>5
  <1>2. CASE lines' # Append(lines, l)
    <2>1. lines # << >> /\ lines[n] = Torn /\ n \in 1..n
      <3>1. lines # << >> /\ lines[n] = Torn
        BY <1>0, <1>2 DEF WithLine, Last
      <3>2. n # 0
        BY <1>0, <3>1, EmptySeq
      <3> QED
        BY <1>0, <3>1, <3>2
    <2>2. /\ lines' \in Seq(ChainLine) /\ Len(lines') = n
          /\ \A i \in 1..n : i # n => lines'[i] = lines[i]
          /\ lines'[n].seq = 0
      <3>1. CASE l = Torn
        <4>1. lines' = lines
          BY <1>0, <1>2, <2>1, <3>1 DEF WithLine, Last
        <4> QED
          BY <1>0, <2>1, <4>1, TornTyped
      <3>2. CASE l # Torn
        <4> DEFINE f == Front(lines)
        <4>1. lines' = Append(f, Glued)
          BY <1>2, <2>1, <3>2 DEF WithLine
        <4>2. f \in Seq(ChainLine) /\ Len(f) = n - 1 /\ \A i \in 1..(n - 1) : f[i] = lines[i]
          <5>1. \A i \in 1..(n - 1) : lines[i] \in ChainLine
            BY <1>0
          <5>2. f = SubSeq(lines, 1, n - 1)
            BY <1>0 DEF Front
          <5>3. /\ f \in Seq(ChainLine)
                /\ Len(f) = (IF 1 <= n - 1 THEN (n - 1) - 1 + 1 ELSE 0)
                /\ \A i \in 1..((n - 1) - 1 + 1) : f[i] = lines[1 + i - 1]
            BY <1>0, <5>1, <5>2, SubSeqProperties
          <5> HIDE DEF f
          <5> QED
            BY <1>0, <2>1, <5>3
        <4>3. Glued \in ChainLine
          BY TornTyped DEF Glued, ChainLine
        <4> HIDE DEF f
        <4>4. /\ lines' \in Seq(ChainLine) /\ Len(lines') = Len(f) + 1
              /\ \A i \in 1..(Len(f) + 1) : lines'[i] = IF i <= Len(f) THEN f[i] ELSE Glued
          BY <4>1, <4>2, <4>3, AppendProperties
        <4>5. Len(f) + 1 = n /\ lines'[n] = Glued /\ \A i \in 1..n : i # n => lines'[i] = lines[i]
          BY <1>0, <2>1, <4>2, <4>4
        <4> QED
          BY <4>4, <4>5, TornTyped
      <3> QED
        BY <3>1, <3>2
    <2>3. DOMAIN lines' = 1..n
      BY <2>2, LenProperties
    <2>4. LineBreaks'
      BY <2>1, <2>2, <2>3 DEF LineBreaks, Unreadable
    <2>5. \A i \in Readable' : i \in Readable /\ lines'[i] = lines[i]
      <3> SUFFICES ASSUME NEW i \in Readable' PROVE i \in Readable /\ lines'[i] = lines[i]
        OBVIOUS
      <3>1. i \in 1..n /\ lines'[i].seq # 0
        BY <2>3 DEF Readable, Unreadable
      <3> QED
        BY <1>0, <2>2, <3>1 DEF Readable, Unreadable
    <2> QED
      BY <1>0, <2>2, <2>4, <2>5
  <1> QED
    BY <1>1, <1>2

(* In a file of links, a line after a lost one has a prev no line before   *)
(* it has as its hash.                                                     *)
LEMMA LostLineShows ==
    ASSUME lines \in Seq(ChainLine), NEW l \in ChainLine, lines' = Append(lines, l),
           l.seq > 1, NoLineHas(l.prev)
    PROVE  LineBreaks'
  <1>0. PICK n \in Nat : n = Len(lines) /\ DOMAIN lines = 1..n
    BY LinesIndex
  <1>1. /\ \A i \in 1..n : lines'[i] = lines[i]
        /\ lines'[n + 1] = l /\ DOMAIN lines' = 1..(n + 1)
    <2>1. /\ lines' \in Seq(ChainLine) /\ Len(lines') = Len(lines) + 1
          /\ \A i \in 1..(Len(lines) + 1) : lines'[i] = IF i <= Len(lines) THEN lines[i] ELSE l
      BY AppendProperties
    <2>2. DOMAIN lines' = 1..Len(lines')
      BY <2>1, LenProperties
    <2> QED
      BY <1>0, <2>1, <2>2
  <1>2. n + 1 \in DOMAIN lines' /\ lines'[n + 1].seq # 1 /\ lines'[n + 1].prev = l.prev
    <2>1. l.seq # 1
      BY DEF ChainLine, Nums
    <2>2. n + 1 \in 1..(n + 1)
      BY <1>0
    <2> QED
      BY <1>1, <2>1, <2>2
  <1>3. \A j \in Before(n + 1)' : j \in Readable /\ lines'[j] = lines[j]
    <2> SUFFICES ASSUME NEW j \in Before(n + 1)' PROVE j \in Readable /\ lines'[j] = lines[j]
      OBVIOUS
    <2>1. j \in 1..(n + 1) /\ j < n + 1 /\ lines'[j].seq # 0
      BY <1>1 DEF Before, Readable, Unreadable
    <2>2. j \in 1..n
      BY <1>0, <2>1
    <2> QED
      BY <1>0, <1>1, <2>1, <2>2 DEF Readable, Unreadable
  <1>4. Before(n + 1)' # {} => Max(Before(n + 1)') \in Before(n + 1)'
    <2>1. Before(n + 1)' \in SUBSET (1..n)
      BY <1>0, <1>3 DEF Readable
    <2> QED
      BY <1>0, <2>1, LastIndexIs
  <1>5. Anchor(n + 1)' # l.prev
    <2>1. CASE Before(n + 1)' = {}
      BY <1>2, <2>1 DEF Anchor, NoLineHas
    <2>2. CASE Before(n + 1)' # {}
      <3>1. Anchor(n + 1)' = lines'[Max(Before(n + 1)')].h
        BY <1>2, <2>2 DEF Anchor
      <3> QED
        BY <1>3, <1>4, <2>2, <3>1 DEF NoLineHas
    <2> QED
      BY <2>1, <2>2
  <1> QED
    BY <1>2, <1>5 DEF LineBreaks

-----------------------------------------------------------------------------
HistType == [made : Nums, crashes : 0..MaxCrashes, failures : 0..MaxFailures,
             mid : BOOLEAN, erased : BOOLEAN, lost : BOOLEAN, after : BOOLEAN]

(* What the invariant says, field by field.                                *)
LEMMA AuditParts ==
    ASSUME AuditInv
    PROVE  /\ head \in [prev : Seq(Nums), seq : Nums]
           /\ head.prev \in Seq(Nums) /\ head.seq \in Nat /\ head.seq <= ahist.made
           /\ pending \in [at : {"idle", "append", "save"}, line : ChainLine]
           /\ pending.line \in ChainLine /\ pending.line.prev \in Seq(Nums)
           /\ pending.line.seq \in Nat /\ pending.line.h \in Seq(Nums)
           /\ lines \in Seq(ChainLine) /\ Len(lines) \in Nat /\ Len(lines) <= ahist.made
           /\ DOMAIN lines = 1..Len(lines) /\ \A i \in 1..Len(lines) : lines[i] \in ChainLine
           /\ state \in [there : BOOLEAN, ok : BOOLEAN, prev : Seq(Nums), seq : Nums]
           /\ state.seq \in Nat /\ state.seq <= ahist.made
           /\ ahist \in HistType /\ ahist.made \in Nat /\ ahist.made <= MaxRecords
           /\ MaxRecords \in Nat /\ ahist.failures \in Nat /\ ahist.crashes \in Nat
           /\ 0 \in Nums /\ ahist.made \in Nums
  <1>1. MaxRecords \in Nat /\ MaxCrashes \in Nat /\ MaxFailures \in Nat
    BY AuditAssumption
  <1>2. /\ head \in [prev : Seq(Nums), seq : Nums]
        /\ pending \in [at : {"idle", "append", "save"}, line : ChainLine]
        /\ lines \in Seq(ChainLine)
        /\ state \in [there : BOOLEAN, ok : BOOLEAN, prev : Seq(Nums), seq : Nums]
        /\ ahist \in HistType
    BY DEF AuditInv, AuditTypeOK, HistType
  <1>3. head.seq <= ahist.made /\ state.seq <= ahist.made /\ Len(lines) <= ahist.made
    BY DEF AuditInv, AuditBounds
  <1>4. /\ Len(lines) \in Nat /\ DOMAIN lines = 1..Len(lines)
        /\ \A i \in 1..Len(lines) : lines[i] \in ChainLine
    BY <1>2, LinesIndex
  <1>5. \A x \in Nums : x \in Nat /\ x <= MaxRecords
    BY <1>1 DEF Nums
  <1>6. /\ ahist.made \in Nums /\ ahist.failures \in 0..MaxFailures
        /\ ahist.crashes \in 0..MaxCrashes
    BY <1>2 DEF HistType
  <1>7. ahist.failures \in Nat /\ ahist.crashes \in Nat /\ 0 \in Nums
    BY <1>1, <1>6 DEF Nums
  <1>8. /\ pending.line \in ChainLine /\ pending.line.prev \in Seq(Nums)
        /\ pending.line.seq \in Nums /\ pending.line.h \in Seq(Nums)
    BY <1>2 DEF ChainLine
  <1> QED
    BY <1>1, <1>2, <1>3, <1>4, <1>5, <1>6, <1>7, <1>8

(* The counts are numbers within their bounds.                             *)
LEMMA AuditNumbers ==
    ASSUME AuditInv
    PROVE  /\ MaxRecords \in Nat /\ ahist.made \in Nat /\ ahist.made <= MaxRecords
           /\ head.seq \in Nat /\ head.seq <= ahist.made
           /\ state.seq \in Nat /\ state.seq <= ahist.made
           /\ Len(lines) \in Nat /\ Len(lines) <= ahist.made
  BY AuditParts

(* The counts of mishaps are numbers.                                      *)
LEMMA AuditLimits ==
    ASSUME AuditInv
    PROVE  /\ ahist.failures \in Nat /\ ahist.crashes \in Nat
           /\ MaxFailures \in Nat /\ MaxCrashes \in Nat
  BY AuditParts, AuditAssumption

(* A step that leaves the files alone leaves what is read from them.       *)
LEMMA SameLines ==
    ASSUME lines' = lines
    PROVE  /\ Readable' = Readable /\ (LineBreaks <=> LineBreaks')
           /\ \A n : (Whole(n) <=> Whole(n)') /\ (Gap(n) <=> Gap(n)')
           /\ \A p : NoLineHas(p) <=> NoLineHas(p)'
  <1>1. Readable' = Readable
    BY DEF Readable
  <1>2. LineBreaks <=> LineBreaks'
    BY DEF LineBreaks, Anchor, Before, Readable
  <1>3. \A n : (Whole(n) <=> Whole(n)') /\ (Gap(n) <=> Gap(n)')
    BY DEF Whole, Gap
  <1>4. \A p : NoLineHas(p) <=> NoLineHas(p)'
    BY <1>1 DEF NoLineHas
  <1> QED
    BY <1>1, <1>2, <1>3, <1>4

(* record() takes the lock and moves the head.                             *)
LEMMA RecordKeeps ==
    ASSUME AuditInv, Record PROVE AuditInv'
  <1>m. PICK m \in Nat : m = ahist.made
    BY AuditNumbers
  <1> DEFINE r == ahist.made + 1
             h == Append(head.prev, r)
             s == head.seq + 1
             l == [seq |-> s, rec |-> r, prev |-> head.prev, h |-> h]
  <1>1. /\ pending.at = "idle" /\ lines' = lines /\ state' = state
        /\ pending' = [at |-> "append", line |-> l] /\ head' = [prev |-> h, seq |-> s]
        /\ ahist' = [ahist EXCEPT !.made = r]
    BY DEF Record
  <1>2. r \in Nums /\ s \in Nums /\ r > 0 /\ s > 0 /\ s <= r
    <2>1. ahist.made < MaxRecords
      BY DEF Record
    <2> QED
      BY <2>1, AuditNumbers DEF Nums
  <1>3. h \in Seq(Nums)
    BY <1>2, AuditParts, AppendProperties
  <1>4. l \in ChainLine /\ l.seq = s /\ l.rec = r /\ l.prev = head.prev /\ l.h = h
    BY <1>2, <1>3, AuditParts DEF ChainLine
  <1>5. r = ahist.made + 1 /\ s = head.seq + 1 /\ h = Append(head.prev, r)
    OBVIOUS
  <1> HIDE DEF l, r, h, s
  <1>6. /\ ahist' \in HistType /\ ahist'.made = r
        /\ ahist'.lost = ahist.lost /\ ahist'.after = ahist.after /\ ahist'.mid = ahist.mid
        /\ ahist'.erased = ahist.erased /\ ahist'.failures = ahist.failures
    BY <1>1, <1>2, AuditParts DEF HistType
  <1>7. /\ head' \in [prev : Seq(Nums), seq : Nums] /\ head'.prev = h /\ head'.seq = s
        /\ pending' \in [at : {"idle", "append", "save"}, line : ChainLine]
        /\ pending'.at = "append" /\ pending'.line = l
    BY <1>1, <1>2, <1>3, <1>4
  <1>8. AuditTypeOK'
    BY <1>1, <1>6, <1>7 DEF AuditInv, AuditTypeOK, HistType
  <1>9. LinesAreLinks'
    <2> SUFFICES ASSUME NEW i \in Readable
                 PROVE  /\ lines[i].h = Append(lines[i].prev, lines[i].rec)
                        /\ lines[i].rec <= r /\ lines[i].rec < r
      BY <1>1, <1>6, <1>7, SameLines DEF LinesAreLinks
    <2>1. lines[i].h = Append(lines[i].prev, lines[i].rec) /\ lines[i].rec <= ahist.made
      BY DEF AuditInv, LinesAreLinks
    <2>2. lines[i].rec \in Nat
      BY AuditParts DEF Readable, ChainLine, Nums
    <2> QED
      BY <1>5, <2>1, <2>2, AuditNumbers
  <1>10. AuditBounds'
    <2>1. s <= r /\ state.seq <= r /\ Len(lines) <= r /\ Len(lines) < r
      BY <1>2, <1>5, AuditNumbers
    <2> QED
      BY <1>1, <1>2, <1>4, <1>5, <1>6, <1>7, <2>1 DEF AuditBounds
  <1>11. LostIsAhead'
    <2>1. ASSUME ahist.lost, ~ahist.after PROVE NoLineHas(head.prev) /\ s > 1
      <3>1. NoLineHas(head.prev) /\ head.seq > 0
        BY <1>1, <2>1 DEF AuditInv, LostIsAhead
      <3> QED
        BY <1>5, <3>1, AuditNumbers
    <2> QED
      BY <1>1, <1>4, <1>6, <1>7, <2>1, SameLines DEF LostIsAhead
  <1>12. LostShows'
    BY <1>1, <1>6, SameLines DEF AuditInv, LostShows
  <1>13. CleanRun'
    <2> SUFFICES ASSUME ahist.failures = 0, ~ahist.mid
                 PROVE  CleanRun'
      BY <1>6 DEF CleanRun
    <2>1. /\ ~ahist.lost /\ ~ahist.after /\ head = [prev |-> Upto(m), seq |-> m]
          /\ m = 0 => ~state.there /\ ~state.ok
          /\ m > 0 => state = [there |-> TRUE, ok |-> TRUE, prev |-> Upto(m), seq |-> m]
          /\ ~ahist.erased => Whole(m)
          /\ ahist.erased => Gap(m)
      BY <1>m, <1>1 DEF AuditInv, CleanRun, Written, Saved
    <2>2. r = m + 1 /\ s = m + 1 /\ h = Upto(m + 1) /\ head.prev = Upto(m)
      BY <1>m, <1>5, <2>1, UptoNext
    <2>3. l = ChainAt(m + 1)
      <3>1. (m + 1) - 1 = m
        OBVIOUS
      <3> QED
        BY <2>2, <3>1 DEF l, ChainAt
    <2>4. Written' = m /\ Saved' = m
      BY <1>6, <1>7, <2>2 DEF Written, Saved
    <2>5. /\ ahist'.made = m + 1 /\ head' = [prev |-> Upto(m + 1), seq |-> m + 1]
          /\ pending'.line = ChainAt(m + 1)
      BY <1>1, <1>6, <1>7, <2>2, <2>3
    <2>6. /\ ~ahist.erased => Whole(Written)'
          /\ ahist.erased => Gap(Written)'
      BY <1>1, <2>1, <2>4 DEF Whole, Gap
    <2> QED
      BY <1>1, <1>6, <2>1, <2>4, <2>5, <2>6 DEF CleanRun
  <1> QED
    BY <1>8, <1>9, <1>10, <1>11, <1>12, <1>13 DEF AuditInv

(* The line is written.                                                    *)
LEMMA AppendLineKeeps ==
    ASSUME AuditInv, AppendLine PROVE AuditInv'
  <1>m. PICK m \in Nat : m = ahist.made
    BY AuditNumbers
  <1>k. PICK l \in ChainLine : l = pending.line
    BY AuditParts
  <1>1. /\ pending.at = "append" /\ head' = head /\ state' = state
        /\ pending' = [pending EXCEPT !.at = "save"] /\ lines' = WithLine(l)
        /\ ahist' = [ahist EXCEPT !.after = ahist.after \/ ahist.lost]
    BY <1>k DEF AppendLine
  <1>2. /\ m > 0 /\ Len(lines) < m /\ l.rec = m /\ l.h = Append(l.prev, m)
        /\ l.seq = head.seq /\ l.h = head.prev /\ head.seq > 0
    BY <1>m, <1>k, <1>1 DEF AuditInv, AuditBounds
  <1>3. 1 \in Nums
    BY <1>m, <1>2, AuditNumbers DEF Nums
  <1>4. /\ lines' \in Seq(ChainLine) /\ Len(lines') <= Len(lines) + 1
        /\ \A i \in Readable' : \/ i \in Readable /\ lines'[i] = lines[i]
                                \/ lines'[i] = l /\ l.seq # 0
        /\ LineBreaks => LineBreaks'
        /\ LineBreaks' \/ lines' = Append(lines, l)
    BY <1>1, <1>3, AuditParts, WithLineGrows
  <1>5. /\ pending' \in [at : {"idle", "append", "save"}, line : ChainLine]
        /\ pending'.at = "save" /\ pending'.line = l
    BY <1>k, <1>1, AuditParts
  <1>6. /\ ahist' \in HistType /\ ahist'.made = m
        /\ ahist'.lost = ahist.lost /\ ahist'.after = (ahist.after \/ ahist.lost)
        /\ ahist'.mid = ahist.mid
        /\ ahist'.erased = ahist.erased /\ ahist'.failures = ahist.failures
    <2> DEFINE b == ahist.after \/ ahist.lost
    <2>1. b \in BOOLEAN /\ ahist' = [ahist EXCEPT !.after = b]
      BY <1>1
    <2> HIDE DEF b
    <2>2. /\ ahist' \in HistType /\ ahist'.made = m
          /\ ahist'.lost = ahist.lost /\ ahist'.after = b /\ ahist'.mid = ahist.mid
          /\ ahist'.erased = ahist.erased /\ ahist'.failures = ahist.failures
      BY <1>m, <2>1, AuditParts DEF HistType
    <2> QED
      BY <2>2 DEF b
  <1>7. Len(lines') \in Nat /\ Len(lines') <= m
    <2>1. Len(lines') \in Nat
      BY <1>4, LenProperties
    <2> QED
      BY <1>2, <1>4, <2>1, AuditNumbers
  <1>8. AuditTypeOK'
    <2>1. Len(lines') <= MaxRecords
      BY <1>m, <1>7, AuditNumbers
    <2> QED
      BY <1>1, <1>4, <1>5, <1>6, <2>1 DEF AuditInv, AuditTypeOK, HistType
  <1>9. LinesAreLinks'
    <2> SUFFICES ASSUME NEW i \in Readable'
                 PROVE  lines'[i].h = Append(lines'[i].prev, lines'[i].rec) /\ lines'[i].rec <= m
      BY <1>5, <1>6 DEF LinesAreLinks
    <2>1. CASE i \in Readable /\ lines'[i] = lines[i]
      BY <1>m, <2>1 DEF AuditInv, LinesAreLinks
    <2>2. CASE lines'[i] = l
      <3>1. l.h = Append(l.prev, l.rec) /\ l.rec = m /\ m <= m
        BY <1>2
      <3> QED
        BY <2>2, <3>1
    <2> QED
      BY <1>4, <2>1, <2>2
  <1>10. AuditBounds'
    <2>1. head.seq <= m /\ state.seq <= m
      BY <1>m, AuditNumbers
    <2> QED
      BY <1>1, <1>2, <1>5, <1>6, <1>7, <2>1 DEF AuditBounds
  <1>11. LostIsAhead'
    BY <1>6 DEF LostIsAhead
  <1>12. LostShows'
    <2> SUFFICES ASSUME ahist.after \/ ahist.lost, ~ahist.erased PROVE LineBreaks'
      BY <1>6 DEF LostShows
    <2>1. CASE ahist.after
      BY <1>4, <2>1 DEF AuditInv, LostShows
    <2>2. CASE ahist.lost /\ ~ahist.after /\ lines' = Append(lines, l)
      <3>1. NoLineHas(l.prev) /\ l.seq > 1
        BY <1>k, <1>1, <2>2 DEF AuditInv, LostIsAhead
      <3> QED
        BY <2>2, <3>1, AuditParts, LostLineShows
    <2> QED
      BY <1>4, <2>1, <2>2
  <1>13. CleanRun'
    <2> SUFFICES ASSUME ahist.failures = 0, ~ahist.mid
                 PROVE  CleanRun'
      BY <1>6 DEF CleanRun
    <2>1. /\ ~ahist.lost /\ ~ahist.after /\ head = [prev |-> Upto(m), seq |-> m]
          /\ l = ChainAt(m)
          /\ m - 1 = 0 => ~state.there /\ ~state.ok
          /\ m - 1 > 0 => state = [there |-> TRUE, ok |-> TRUE, prev |-> Upto(m - 1),
                                   seq |-> m - 1]
          /\ ~ahist.erased => Whole(m - 1)
          /\ ahist.erased => Gap(m - 1)
      BY <1>m, <1>k, <1>1 DEF AuditInv, CleanRun, Written, Saved
    <2>2. Written' = m /\ Saved' = m - 1
      BY <1>5, <1>6 DEF Written, Saved
    <2>3. \A i \in 1..Len(lines) : lines[i].seq # 0
      <3>1. \A k \in Nat : ChainAt(k).seq = k
        BY DEF ChainAt
      <3>2. CASE ~ahist.erased
        BY <1>2, <2>1, <3>1, <3>2 DEF Whole
      <3>3. CASE ahist.erased
        <4>1. PICK g \in 1..(m - 1) : 
                 /\ Len(lines) = (m - 1) - 1
                 /\ \A i \in 1..((m - 1) - 1) : lines[i] = ChainAt(IF i < g THEN i ELSE i + 1)
          BY <2>1, <3>3 DEF Gap
        <4>2. \A i \in 1..((m - 1) - 1) : LET k == IF i < g THEN i ELSE i + 1
                                          IN k \in Nat /\ k # 0
          OBVIOUS
        <4> QED
          BY <3>1, <4>1, <4>2
      <3> QED
        BY <3>2, <3>3
    <2>4. lines' = Append(lines, l)
      <3>1. CASE lines = << >>
        BY <1>1, <3>1 DEF WithLine
      <3>2. CASE lines # << >>
        <4>1. Len(lines) \in 1..Len(lines)
          BY <3>2, AuditParts, EmptySeq
        <4>2. Last(lines) # Torn
          BY <2>3, <4>1, TornTyped DEF Last
        <4> QED
          BY <1>1, <4>2 DEF WithLine
      <3> QED
        BY <3>1, <3>2
    <2>5. /\ Len(lines') = Len(lines) + 1 /\ \A i \in 1..Len(lines) : lines'[i] = lines[i]
          /\ lines'[Len(lines) + 1] = l
      <3>1. /\ Len(lines') = Len(lines) + 1
            /\ \A i \in 1..(Len(lines) + 1) : lines'[i] = IF i <= Len(lines) THEN lines[i] ELSE l
        BY <2>4, AuditParts, AppendProperties
      <3> QED
        BY <3>1, AuditNumbers
    <2>6. ~ahist.erased => Whole(Written)'
      <3> SUFFICES ASSUME ~ahist.erased
                   PROVE  Len(lines') = m /\ \A i \in 1..m : lines'[i] = ChainAt(i)
        BY <2>2 DEF Whole
      <3>1. Len(lines) = m - 1 /\ \A i \in 1..(m - 1) : lines[i] = ChainAt(i)
        BY <2>1 DEF Whole
      <3>2. (m - 1) + 1 = m /\ \A i \in 1..m : i \in 1..(m - 1) \/ i = m
        OBVIOUS
      <3> QED
        BY <2>1, <2>5, <3>1, <3>2
    <2>7. ahist.erased => Gap(Written)'
      <3> SUFFICES ASSUME ahist.erased
                   PROVE  \E g \in 1..m :
                            /\ Len(lines') = m - 1
                            /\ \A i \in 1..(m - 1) : lines'[i] = ChainAt(IF i < g THEN i ELSE i + 1)
        BY <2>2 DEF Gap
      <3>1. PICK g \in 1..(m - 1) :
                 /\ Len(lines) = (m - 1) - 1
                 /\ \A i \in 1..((m - 1) - 1) : lines[i] = ChainAt(IF i < g THEN i ELSE i + 1)
        BY <2>1 DEF Gap
      <3>2. /\ Len(lines) + 1 = m - 1 /\ g \in 1..m /\ ~(m - 1 < g) /\ (m - 1) + 1 = m
            /\ \A i \in 1..(m - 1) : i \in 1..((m - 1) - 1) \/ i = m - 1
        BY <3>1
      <3>3. ASSUME NEW i \in 1..(m - 1)
            PROVE  lines'[i] = ChainAt(IF i < g THEN i ELSE i + 1)
        <4>1. CASE i \in 1..((m - 1) - 1)
          BY <2>5, <3>1, <4>1
        <4>2. CASE i = m - 1
          <5>1. lines'[i] = ChainAt(m)
            BY <2>1, <2>5, <3>2, <4>2
          <5>2. (IF i < g THEN i ELSE i + 1) = m
            BY <3>2, <4>2
          <5> QED
            BY <5>1, <5>2
        <4> QED
          BY <3>2, <4>1, <4>2
      <3> QED
        BY <2>5, <3>2, <3>3
    <2> QED
      BY <1>1, <1>5, <1>6, <2>1, <2>2, <2>6, <2>7 DEF CleanRun
  <1> QED
    BY <1>8, <1>9, <1>10, <1>11, <1>12, <1>13 DEF AuditInv

(* chain.state is replaced.                                                *)
LEMMA SaveStateKeeps ==
    ASSUME AuditInv, SaveState PROVE AuditInv'
  <1>m. PICK m \in Nat : m = ahist.made
    BY AuditNumbers
  <1>1. /\ pending.at = "save" /\ head' = head /\ lines' = lines /\ ahist' = ahist
        /\ pending' = Free
        /\ state' = [there |-> TRUE, ok |-> TRUE, prev |-> head.prev, seq |-> head.seq]
    BY DEF SaveState
  <1>2. /\ state' \in [there : BOOLEAN, ok : BOOLEAN, prev : Seq(Nums), seq : Nums]
        /\ state'.seq = head.seq
    BY <1>1, AuditParts
  <1>3. /\ pending' \in [at : {"idle", "append", "save"}, line : ChainLine]
        /\ pending'.at = "idle"
    BY <1>1, TornTyped DEF Free
  <1>4. AuditTypeOK'
    BY <1>1, <1>2, <1>3 DEF AuditInv, AuditTypeOK
  <1>5. LinesAreLinks'
    BY <1>1, <1>3, SameLines DEF AuditInv, LinesAreLinks
  <1>6. AuditBounds'
    BY <1>1, <1>2, <1>3 DEF AuditInv, AuditBounds
  <1>7. LostIsAhead' /\ LostShows'
    BY <1>1, <1>3, SameLines DEF AuditInv, LostIsAhead, LostShows
  <1>8. CleanRun'
    <2> SUFFICES ASSUME ahist.failures = 0, ~ahist.mid
                 PROVE  CleanRun'
      BY <1>1 DEF CleanRun
    <2>1. /\ ~ahist.lost /\ ~ahist.after /\ head = [prev |-> Upto(m), seq |-> m]
          /\ ~ahist.erased => Whole(m)
          /\ ahist.erased => Gap(m)
      BY <1>m, <1>1 DEF AuditInv, CleanRun, Written
    <2>2. Written' = m /\ Saved' = m /\ m > 0
      BY <1>m, <1>1, <1>3 DEF Written, Saved, AuditInv, AuditBounds
    <2>3. state' = [there |-> TRUE, ok |-> TRUE, prev |-> Upto(m), seq |-> m]
      BY <1>1, <2>1
    <2>4. /\ ~ahist.erased => Whole(Written)'
          /\ ahist.erased => Gap(Written)'
      BY <1>1, <2>1, <2>2 DEF Whole, Gap
    <2> QED
      BY <1>m, <1>1, <1>3, <2>1, <2>2, <2>3, <2>4 DEF CleanRun
  <1> QED
    BY <1>4, <1>5, <1>6, <1>7, <1>8 DEF AuditInv

(* chain.state cannot be written.                                          *)
LEMMA SaveFailsKeeps ==
    ASSUME AuditInv, SaveFails PROVE AuditInv'
  <1> DEFINE k == ahist.failures + 1
  <1>1. /\ pending.at = "save" /\ head' = head /\ lines' = lines /\ pending' = Free
        /\ state' = [state EXCEPT !.there = TRUE, !.ok = FALSE]
        /\ ahist' = [ahist EXCEPT !.failures = k]
    BY DEF SaveFails
  <1>2. k \in 0..MaxFailures /\ k # 0
    BY AuditLimits DEF SaveFails
  <1> HIDE DEF k
  <1>3. /\ ahist' \in HistType /\ ahist'.made = ahist.made
        /\ ahist'.lost = ahist.lost /\ ahist'.after = ahist.after
        /\ ahist'.erased = ahist.erased /\ ahist'.failures = k
    BY <1>1, <1>2, AuditParts DEF HistType
  <1>4. /\ state' \in [there : BOOLEAN, ok : BOOLEAN, prev : Seq(Nums), seq : Nums]
        /\ state'.seq = state.seq
    BY <1>1, AuditParts
  <1>5. /\ pending' \in [at : {"idle", "append", "save"}, line : ChainLine]
        /\ pending'.at = "idle"
    BY <1>1, TornTyped DEF Free
  <1>6. AuditTypeOK'
    BY <1>1, <1>3, <1>4, <1>5 DEF AuditInv, AuditTypeOK, HistType
  <1>7. LinesAreLinks'
    BY <1>1, <1>3, <1>5, SameLines DEF AuditInv, LinesAreLinks
  <1>8. AuditBounds'
    BY <1>1, <1>3, <1>4, <1>5 DEF AuditInv, AuditBounds
  <1>9. LostIsAhead' /\ LostShows'
    BY <1>1, <1>3, <1>5, SameLines DEF AuditInv, LostIsAhead, LostShows
  <1>10. CleanRun'
    BY <1>2, <1>3 DEF CleanRun
  <1> QED
    BY <1>6, <1>7, <1>8, <1>9, <1>10 DEF AuditInv

(* A lost line: the head covers a record that no line does.                *)
LEMMA AppendFailsKeeps ==
    ASSUME AuditInv, NEW torn \in BOOLEAN, AppendFails(torn) PROVE AuditInv'
  <1> DEFINE k == ahist.failures + 1
  <1>1. /\ pending.at = "append" /\ head' = head /\ state' = state /\ pending' = Free
        /\ lines' = (IF torn THEN WithLine(Torn) ELSE lines)
        /\ ahist' = [ahist EXCEPT !.failures = k, !.lost = TRUE]
    BY DEF AppendFails
  <1>2. k \in 0..MaxFailures /\ k # 0
    BY AuditLimits DEF AppendFails
  <1> HIDE DEF k
  <1>3. /\ ahist' \in HistType /\ ahist'.made = ahist.made
        /\ ahist'.lost = TRUE /\ ahist'.after = ahist.after
        /\ ahist'.erased = ahist.erased /\ ahist'.failures = k
    BY <1>1, <1>2, AuditParts DEF HistType
  <1>4. /\ pending' \in [at : {"idle", "append", "save"}, line : ChainLine]
        /\ pending'.at = "idle"
    BY <1>1, TornTyped DEF Free
  <1>5. /\ Len(lines) < ahist.made /\ head.prev = Append(pending.line.prev, ahist.made)
        /\ head.seq > 0 /\ ahist.made > 0
    BY <1>1 DEF AuditInv, AuditBounds
  <1>6. /\ lines' \in Seq(ChainLine) /\ Len(lines') <= Len(lines) + 1
        /\ \A i \in Readable' : i \in Readable /\ lines'[i] = lines[i]
        /\ LineBreaks => LineBreaks'
    <2>1. CASE torn
      <3>1. 1 \in Nums
        BY <1>5, AuditNumbers DEF Nums
      <3>2. lines' = WithLine(Torn)
        BY <1>1, <2>1
      <3> QED
        BY <3>1, <3>2, AuditParts, TornTyped, WithLineGrows
    <2>2. CASE ~torn
      <3>1. lines' = lines
        BY <1>1, <2>2
      <3>2. Len(lines') <= Len(lines) + 1
        BY <3>1, AuditNumbers
      <3> QED
        BY <3>1, <3>2, AuditParts, SameLines
    <2> QED
      BY <2>1, <2>2
  <1>7. Len(lines') \in Nat /\ Len(lines') <= ahist.made /\ Len(lines') <= MaxRecords
    <2>1. Len(lines') \in Nat
      BY <1>6, LenProperties
    <2> QED
      BY <1>5, <1>6, <2>1, AuditNumbers
  <1>8. AuditTypeOK'
    BY <1>1, <1>3, <1>4, <1>6, <1>7 DEF AuditInv, AuditTypeOK, HistType
  <1>9. \A i \in Readable' :
           /\ lines'[i].h = Append(lines'[i].prev, lines'[i].rec)
           /\ lines'[i].rec < ahist.made /\ lines'[i].rec \in Nums /\ lines'[i].prev \in Seq(Nums)
    <2> SUFFICES ASSUME NEW i \in Readable
                 PROVE  /\ lines[i].h = Append(lines[i].prev, lines[i].rec)
                        /\ lines[i].rec < ahist.made /\ lines[i].rec \in Nums
                        /\ lines[i].prev \in Seq(Nums)
      BY <1>6
    <2>1. lines[i] \in ChainLine
      BY AuditParts DEF Readable
    <2> QED
      BY <1>1, <2>1 DEF AuditInv, LinesAreLinks, ChainLine
  <1>10. LinesAreLinks'
    <2>1. \A i \in Readable' : lines'[i].rec <= ahist.made
      <3>1. \A x \in Nums : x < ahist.made => x <= ahist.made
        BY AuditNumbers DEF Nums
      <3> QED
        BY <1>9, <3>1
    <2> QED
      BY <1>3, <1>4, <1>9, <2>1 DEF LinesAreLinks
  <1>11. AuditBounds'
    BY <1>1, <1>3, <1>4, <1>7 DEF AuditInv, AuditBounds
  <1>12. NoLineHas(head.prev)'
    <2>1. pending.line.prev \in Seq(Nums) /\ ahist.made \in Nums
      BY AuditParts
    <2>2. head.prev # Genesis
      <3>1. Len(Append(pending.line.prev, ahist.made)) = Len(pending.line.prev) + 1
            /\ Len(pending.line.prev) \in Nat
        BY <2>1, AppendProperties, LenProperties
      <3>2. Len(Genesis) = 0
        BY EmptySeq DEF Genesis
      <3>3. Len(head.prev) # 0
        BY <1>5, <3>1
      <3> QED
        BY <3>2, <3>3
    <2>3. ASSUME NEW i \in Readable' PROVE lines'[i].h # head.prev
      <3>1. /\ lines'[i].h = Append(lines'[i].prev, lines'[i].rec)
            /\ lines'[i].rec < ahist.made /\ lines'[i].rec \in Nums
            /\ lines'[i].prev \in Seq(Nums)
        BY <1>9
      <3>2. lines'[i].rec # ahist.made
        BY <3>1, AuditNumbers DEF Nums
      <3> QED
        BY <1>5, <2>1, <3>1, <3>2, AppendTells
    <2> QED
      BY <1>1, <2>2, <2>3 DEF NoLineHas
  <1>13. LostIsAhead'
    BY <1>1, <1>4, <1>5, <1>12 DEF LostIsAhead
  <1>14. LostShows'
    BY <1>3, <1>6 DEF AuditInv, LostShows
  <1>15. CleanRun'
    BY <1>2, <1>3 DEF CleanRun
  <1> QED
    BY <1>8, <1>10, <1>11, <1>13, <1>14, <1>15 DEF AuditInv

(* The process dies and starts again from chain.state.                     *)
LEMMA RestartKeeps ==
    ASSUME AuditInv, Restart PROVE AuditInv'
  <1> DEFINE k == ahist.crashes + 1
             b == ahist.mid \/ pending.at # "idle"
             hd == IF state.ok THEN [prev |-> state.prev, seq |-> state.seq]
                   ELSE [prev |-> Genesis, seq |-> 0]
  <1>1. /\ head' = hd /\ state' = state /\ pending' = Free /\ lines' = lines
        /\ ahist' = [ahist EXCEPT !.crashes = k, !.lost = FALSE, !.mid = b]
    BY DEF Restart
  <1>2. k \in 0..MaxCrashes /\ b \in BOOLEAN
    BY AuditLimits DEF Restart
  <1>3. hd \in [prev : Seq(Nums), seq : Nums] /\ hd.seq <= ahist.made
    <2>1. CASE state.ok
      BY <2>1, AuditParts
    <2>2. CASE ~state.ok
      <3>1. Genesis \in Seq(Nums)
        BY EmptySeq DEF Genesis
      <3>2. 0 <= ahist.made /\ 0 \in Nums
        BY AuditParts
      <3> QED
        BY <2>2, <3>1, <3>2
    <2> QED
      BY <2>1, <2>2
  <1> HIDE DEF k, b
  <1>4. /\ ahist' \in HistType /\ ahist'.made = ahist.made
        /\ ahist'.lost = FALSE /\ ahist'.after = ahist.after /\ ahist'.mid = b
        /\ ahist'.erased = ahist.erased /\ ahist'.failures = ahist.failures
    BY <1>1, <1>2, AuditParts DEF HistType
  <1>5. /\ pending' \in [at : {"idle", "append", "save"}, line : ChainLine]
        /\ pending'.at = "idle"
    BY <1>1, TornTyped DEF Free
  <1>6. AuditTypeOK'
    <2> HIDE DEF hd
    <2> QED
      BY <1>1, <1>3, <1>4, <1>5 DEF AuditInv, AuditTypeOK, HistType
  <1>7. LinesAreLinks'
    BY <1>1, <1>4, <1>5, SameLines DEF AuditInv, LinesAreLinks
  <1>8. AuditBounds'
    <2> HIDE DEF hd
    <2> QED
      BY <1>1, <1>3, <1>4, <1>5 DEF AuditInv, AuditBounds
  <1>9. LostIsAhead' /\ LostShows'
    BY <1>1, <1>4, SameLines DEF AuditInv, LostIsAhead, LostShows
  <1>10. CleanRun'
    <2> SUFFICES ASSUME ahist.failures = 0, ~b
                 PROVE  CleanRun'
      BY <1>4 DEF CleanRun
    <2>m. PICK m \in Nat : m = ahist.made
      BY AuditNumbers
    <2>1. ~ahist.mid /\ pending.at = "idle"
      BY DEF b
    <2>2. /\ ~ahist.lost /\ ~ahist.after /\ head = [prev |-> Upto(m), seq |-> m]
          /\ m = 0 => ~state.there /\ ~state.ok
          /\ m > 0 => state = [there |-> TRUE, ok |-> TRUE, prev |-> Upto(m), seq |-> m]
          /\ ~ahist.erased => Whole(m)
          /\ ahist.erased => Gap(m)
      BY <2>m, <2>1 DEF AuditInv, CleanRun, Written, Saved
    <2>3. Written' = m /\ Saved' = m
      BY <1>4, <1>5, <2>m DEF Written, Saved
    <2>4. hd = [prev |-> Upto(m), seq |-> m]
      <3>1. CASE m = 0
        BY <2>2, <3>1, UptoZero
      <3>2. CASE m > 0
        BY <2>2, <3>2
      <3> QED
        BY <3>1, <3>2
    <2>5. /\ ~ahist.erased => Whole(Written)'
          /\ ahist.erased => Gap(Written)'
      BY <1>1, <2>2, <2>3 DEF Whole, Gap
    <2> HIDE DEF hd
    <2> QED
      BY <1>1, <1>4, <1>5, <2>m, <2>2, <2>3, <2>4, <2>5 DEF CleanRun
  <1> QED
    BY <1>6, <1>7, <1>8, <1>9, <1>10 DEF AuditInv

(* A line is taken out.                                                    *)
LEMMA EraseKeeps ==
    ASSUME AuditInv, NEW e \in DOMAIN lines, Erase(e) PROVE AuditInv'
  <1>n. PICK n \in Nat : n = Len(lines)
    BY AuditNumbers
  <1>1. /\ pending.at = "idle" /\ ~ahist.erased /\ head' = head /\ state' = state
        /\ pending' = pending /\ lines' = RemoveAt(lines, e)
        /\ ahist' = [ahist EXCEPT !.erased = TRUE]
    BY DEF Erase
  <1>2. e \in 1..n
    BY <1>n, AuditParts
  <1>3. /\ lines' \in Seq(ChainLine) /\ Len(lines') = n - 1 /\ DOMAIN lines' = 1..(n - 1)
        /\ \A j \in 1..(n - 1) : lines'[j] = IF j < e THEN lines[j] ELSE lines[j + 1]
    <2>1. /\ lines' \in Seq(ChainLine) /\ Len(lines') = Len(lines) - 1
          /\ \A j \in 1..(Len(lines) - 1) : lines'[j] = IF j < e THEN lines[j] ELSE lines[j + 1]
      <3>1. lines \in Seq(ChainLine) /\ e \in 1..Len(lines)
        BY <1>n, <1>2, AuditParts
      <3> QED
        BY <1>1, <3>1, RemoveAtIs
    <2>2. DOMAIN lines' = 1..Len(lines')
      BY <2>1, LenProperties
    <2> QED
      BY <1>n, <2>1, <2>2
  <1>4. ASSUME NEW i \in Readable' PROVE \E j \in Readable : lines'[i] = lines[j]
    <2>1. i \in 1..(n - 1) /\ lines'[i].seq # 0
      BY <1>3 DEF Readable, Unreadable
    <2>2. PICK j \in 1..n : lines'[i] = lines[j]
      BY <1>3, <2>1
    <2>3. j \in Readable
      BY <1>n, <2>1, <2>2, AuditParts DEF Readable, Unreadable
    <2> QED
      BY <2>2, <2>3
  <1>5. /\ ahist' \in HistType /\ ahist'.made = ahist.made
        /\ ahist'.lost = ahist.lost /\ ahist'.after = ahist.after /\ ahist'.mid = ahist.mid
        /\ ahist'.erased = TRUE /\ ahist'.failures = ahist.failures
    BY <1>1, AuditParts DEF HistType
  <1>6. Len(lines') <= ahist.made /\ Len(lines') <= MaxRecords
    BY <1>n, <1>2, <1>3, AuditNumbers
  <1>7. AuditTypeOK'
    BY <1>1, <1>3, <1>5, <1>6 DEF AuditInv, AuditTypeOK, HistType
  <1>8. LinesAreLinks'
    <2> SUFFICES ASSUME NEW i \in Readable'
                 PROVE  /\ lines'[i].h = Append(lines'[i].prev, lines'[i].rec)
                        /\ lines'[i].rec <= ahist.made
      BY <1>1, <1>5 DEF LinesAreLinks
    <2>1. PICK j \in Readable : lines'[i] = lines[j]
      BY <1>4
    <2> QED
      BY <2>1 DEF AuditInv, LinesAreLinks
  <1>9. AuditBounds'
    BY <1>1, <1>5, <1>6 DEF AuditInv, AuditBounds
  <1>10. LostIsAhead'
    <2>1. NoLineHas(head.prev) => NoLineHas(head.prev)'
      BY <1>1, <1>4 DEF NoLineHas
    <2> QED
      BY <1>1, <1>5, <2>1 DEF AuditInv, LostIsAhead
  <1>11. LostShows'
    BY <1>5 DEF LostShows
  <1>12. CleanRun'
    <2> SUFFICES ASSUME ahist.failures = 0, ~ahist.mid
                 PROVE  CleanRun'
      BY <1>5 DEF CleanRun
    <2>m. PICK m \in Nat : m = ahist.made
      BY AuditNumbers
    <2>1. /\ ~ahist.lost /\ ~ahist.after /\ head = [prev |-> Upto(m), seq |-> m]
          /\ m = 0 => ~state.there /\ ~state.ok
          /\ m > 0 => state = [there |-> TRUE, ok |-> TRUE, prev |-> Upto(m), seq |-> m]
          /\ Whole(m)
      BY <1>1, <2>m DEF AuditInv, CleanRun, Written, Saved
    <2>2. Written' = m /\ Saved' = m
      BY <1>1, <1>5, <2>m DEF Written, Saved
    <2>3. m = n /\ \A i \in 1..n : lines[i] = ChainAt(i)
      BY <1>n, <2>1 DEF Whole
    <2>4. \A j \in 1..(n - 1) : lines'[j] = ChainAt(IF j < e THEN j ELSE j + 1)
      <3> SUFFICES ASSUME NEW j \in 1..(n - 1)
                   PROVE  lines'[j] = ChainAt(IF j < e THEN j ELSE j + 1)
        OBVIOUS
      <3>1. j \in 1..n /\ j + 1 \in 1..n
        OBVIOUS
      <3>2. CASE j < e
        BY <1>3, <2>3, <3>1, <3>2
      <3>3. CASE ~(j < e)
        BY <1>3, <2>3, <3>1, <3>3
      <3> QED
        BY <3>2, <3>3
    <2>5. Gap(Written)'
      BY <1>2, <1>3, <2>2, <2>3, <2>4 DEF Gap
    <2> QED
      BY <1>1, <1>5, <2>m, <2>1, <2>2, <2>5 DEF CleanRun
  <1> QED
    BY <1>7, <1>8, <1>9, <1>10, <1>11, <1>12 DEF AuditInv

(* The invariant of the log holds at the start.                            *)
LEMMA AuditInitKeeps ==
    ASSUME AuditInit PROVE AuditInv
  <1>1. /\ 0 \in Nums /\ 0 \in 0..MaxCrashes /\ 0 \in 0..MaxFailures /\ 0 <= MaxRecords
        /\ Genesis \in Seq(Nums) /\ lines \in Seq(ChainLine) /\ Len(lines) = 0
    BY AuditAssumption, EmptySeq DEF Nums, Genesis, AuditInit
  <1>2. /\ head \in [prev : Seq(Nums), seq : Nums] /\ head.seq = 0 /\ head.prev = Genesis
        /\ pending \in [at : {"idle", "append", "save"}, line : ChainLine]
        /\ pending.at = "idle"
        /\ state \in [there : BOOLEAN, ok : BOOLEAN, prev : Seq(Nums), seq : Nums]
        /\ state.seq = 0 /\ ~state.there /\ ~state.ok
    BY <1>1, TornTyped DEF AuditInit, Free
  <1>3. /\ ahist \in HistType /\ ahist.made = 0 /\ ~ahist.lost /\ ~ahist.after /\ ~ahist.erased
    BY <1>1 DEF AuditInit, HistType
  <1>4. AuditTypeOK
    BY <1>1, <1>2, <1>3 DEF AuditTypeOK, HistType
  <1>5. Readable = {}
    <2>1. DOMAIN lines = 1..0
      BY <1>1, LenProperties
    <2> QED
      BY <2>1 DEF Readable
  <1>6. LinesAreLinks /\ LostIsAhead /\ LostShows
    BY <1>3, <1>5 DEF LinesAreLinks, LostIsAhead, LostShows
  <1>7. AuditBounds
    BY <1>1, <1>2, <1>3 DEF AuditBounds
  <1>8. CleanRun
    <2>1. Written = 0 /\ Saved = 0 /\ Whole(0)
      BY <1>1, <1>2, <1>3 DEF Written, Saved, Whole
    <2>2. head = [prev |-> Upto(0), seq |-> 0]
      BY UptoZero DEF AuditInit
    <2> QED
      BY <1>2, <1>3, <2>1, <2>2 DEF CleanRun
  <1> QED
    BY <1>4, <1>6, <1>7, <1>8 DEF AuditInv

(* Every step keeps it.                                                    *)
LEMMA AuditStepKeeps ==
    ASSUME AuditInv, [AuditNext]_auditVars PROVE AuditInv'
  <1>1. CASE UNCHANGED auditVars
    <2>0. /\ head' = head /\ pending' = pending /\ lines' = lines /\ state' = state
          /\ ahist' = ahist
      BY <1>1 DEF auditVars
    <2>1. AuditTypeOK'
      BY <2>0 DEF AuditInv, AuditTypeOK
    <2>2. LinesAreLinks' /\ LostIsAhead' /\ LostShows'
      BY <2>0, SameLines DEF AuditInv, LinesAreLinks, LostIsAhead, LostShows
    <2>3. AuditBounds'
      BY <2>0 DEF AuditInv, AuditBounds
    <2>4. CleanRun'
      <3>1. Written' = Written /\ Saved' = Saved
        BY <2>0 DEF Written, Saved
      <3>2. (Whole(Written) => Whole(Written)') /\ (Gap(Written) => Gap(Written)')
        BY <2>0, <3>1 DEF Whole, Gap
      <3> QED
        BY <2>0, <3>1, <3>2 DEF AuditInv, CleanRun
    <2> QED
      BY <2>1, <2>2, <2>3, <2>4 DEF AuditInv
  <1>2. CASE AuditNext
    BY <1>2, RecordKeeps, AppendLineKeeps, SaveStateKeeps, SaveFailsKeeps, RestartKeeps,
       AppendFailsKeeps, EraseKeeps DEF AuditNext
  <1> QED
    BY <1>1, <1>2

(* It holds always.                                                        *)
LEMMA AuditInvHolds == AuditSpec => []AuditInv
  BY AuditInitKeeps, AuditStepKeeps, PTL DEF AuditSpec

(* The head, the record being written, the lines and chain.state keep      *)
(* their types, and no more lines are written than records made.           *)
THEOREM AuditTyped == AuditSpec => []AuditTypeOK
  <1>1. AuditInv => AuditTypeOK
    BY DEF AuditInv
  <1> QED
    BY <1>1, AuditInvHolds, PTL

-----------------------------------------------------------------------------
(* The line of record k, field by field.                                   *)
LEMMA ChainLinks ==
    ASSUME NEW k \in Nat, k > 0
    PROVE  /\ ChainAt(k).seq = k /\ ChainAt(k).rec = k /\ ChainAt(k).h = Upto(k)
           /\ ChainAt(k).prev = Upto(k - 1) /\ ~Unreadable(ChainAt(k))
           /\ ChainAt(k).h = Append(ChainAt(k).prev, ChainAt(k).rec)
  <1>1. /\ ChainAt(k).seq = k /\ ChainAt(k).rec = k /\ ChainAt(k).h = Upto(k)
        /\ ChainAt(k).prev = Upto(k - 1)
    BY DEF ChainAt
  <1>2. k - 1 \in Nat /\ (k - 1) + 1 = k
    OBVIOUS
  <1>3. Upto(k) = Append(Upto(k - 1), k)
    BY <1>2, UptoNext
  <1> QED
    BY <1>1, <1>3 DEF Unreadable

(* Where all lines are readable, the one before i is the last before it.   *)
LEMMA AllReadable ==
    ASSUME NEW n \in Nat, DOMAIN lines = 1..n, \A i \in 1..n : ~Unreadable(lines[i])
    PROVE  /\ Readable = 1..n
           /\ n > 0 => Readable # {} /\ Max(Readable) = n
           /\ \A i \in 1..n : i > 1 => Before(i) # {} /\ Max(Before(i)) = i - 1
           /\ \A i \in 1..n : i = 1 => Before(i) = {}
  <1>1. Readable = 1..n
    BY DEF Readable
  <1>2. ASSUME n > 0 PROVE Readable # {} /\ Max(Readable) = n
    <2>1. n \in Readable /\ Readable \in SUBSET (1..n)
      BY <1>1, <1>2
    <2>2. Max(Readable) \in Readable /\ \A y \in Readable : y <= Max(Readable)
      BY <2>1, LastIndexIs
    <2>3. Max(Readable) \in 1..n /\ n <= Max(Readable)
      BY <2>1, <2>2
    <2> QED
      BY <2>1, <2>3
  <1>3. ASSUME NEW i \in 1..n, i > 1 PROVE Before(i) # {} /\ Max(Before(i)) = i - 1
    <2>1. Before(i) = {j \in 1..n : j < i}
      BY <1>1 DEF Before
    <2>2. i - 1 \in Before(i) /\ Before(i) \in SUBSET (1..n)
      BY <1>3, <2>1
    <2>3. Max(Before(i)) \in Before(i) /\ \A y \in Before(i) : y <= Max(Before(i))
      BY <2>2, LastIndexIs
    <2>4. Max(Before(i)) \in 1..n /\ Max(Before(i)) < i /\ i - 1 <= Max(Before(i))
      BY <2>1, <2>2, <2>3
    <2> QED
      BY <2>2, <2>4
  <1>4. ASSUME NEW i \in 1..n, i = 1 PROVE Before(i) = {}
    BY <1>1, <1>4 DEF Before
  <1> QED
    BY <1>1, <1>2, <1>3, <1>4

(* The whole chain verifies.                                               *)
LEMMA WholeVerifies ==
    ASSUME NEW n \in Nat, DOMAIN lines = 1..n, n > 0, \A i \in 1..n : lines[i] = ChainAt(i),
           state = [there |-> TRUE, ok |-> TRUE, prev |-> Upto(n), seq |-> n]
    PROVE  ~Breaks
  <1>0. \A i \in 1..n : i \in Nat /\ i > 0
    OBVIOUS
  <1>1. \A i \in 1..n : ~Unreadable(lines[i])
    BY <1>0, ChainLinks
  <1>2. ASSUME NEW i \in 1..n PROVE Anchor(i) = Upto(i - 1)
    <2>1. CASE i = 1
      <3>1. lines[i].seq = 1
        BY <1>0, <2>1, ChainLinks
      <3>2. i - 1 = 0
        BY <2>1
      <3> QED
        BY <3>1, <3>2, UptoZero DEF Anchor
    <2>2. CASE i > 1
      <3>1. lines[i].seq # 1
        BY <1>0, <2>2, ChainLinks
      <3>2. Before(i) # {} /\ Max(Before(i)) = i - 1
        BY <1>1, <2>2, AllReadable
      <3>3. i - 1 \in 1..n
        BY <2>2
      <3>4. lines[i - 1].h = Upto(i - 1)
        BY <1>0, <3>3, ChainLinks
      <3> QED
        BY <3>1, <3>2, <3>4 DEF Anchor
    <2> QED
      BY <1>0, <2>1, <2>2
  <1>3. ~LineBreaks
    <2> SUFFICES ASSUME NEW i \in 1..n
                 PROVE  /\ lines[i].h = Append(Anchor(i), lines[i].rec)
                        /\ lines[i].prev = Anchor(i)
      BY <1>1 DEF LineBreaks
    <2>0. i \in Nat /\ i > 0 /\ lines[i] = ChainAt(i)
      BY <1>0
    <2>1. ChainAt(i).prev = Upto(i - 1) /\ ChainAt(i).h = Append(ChainAt(i).prev, ChainAt(i).rec)
      BY <2>0, ChainLinks
    <2> QED
      BY <1>2, <2>0, <2>1
  <1>4. ~HeadBreaks
    <2>1. Max(Readable) = n /\ n \in 1..n
      BY <1>1, AllReadable
    <2>2. lines[n].h = Upto(n) /\ lines[n].seq = n
      BY <2>1, ChainLinks
    <2>3. state.ok = TRUE /\ state.prev = Upto(n) /\ state.seq = n
      OBVIOUS
    <2> QED
      BY <2>1, <2>2, <2>3 DEF HeadBreaks
  <1> QED
    BY <1>3, <1>4 DEF Breaks

(* A chain with a line missing does not, unless nothing else is left.      *)
LEMMA GapBreaks ==
    ASSUME NEW n \in Nat, NEW g \in 1..n, DOMAIN lines = 1..(n - 1), n - 1 > 0,
           \A i \in 1..(n - 1) : lines[i] = ChainAt(IF i < g THEN i ELSE i + 1),
           state = [there |-> TRUE, ok |-> TRUE, prev |-> Upto(n), seq |-> n]
    PROVE  Breaks
  <1>0. n - 1 \in Nat /\ \A i \in 1..(n - 1) : LET k == IF i < g THEN i ELSE i + 1
                                                IN k \in Nat /\ k > 0
    OBVIOUS
  <1>1. \A i \in 1..(n - 1) : ~Unreadable(lines[i])
    BY <1>0, ChainLinks
  <1>2. CASE g = n
    <2>1. Max(Readable) = n - 1 /\ Readable # {} /\ n - 1 \in 1..(n - 1)
      BY <1>0, <1>1, AllReadable
    <2>2. lines[n - 1] = ChainAt(n - 1)
      BY <1>2, <2>1
    <2>3. lines[n - 1].seq = n - 1
      BY <1>0, <2>2, ChainLinks
    <2>4. state.there = TRUE /\ state.seq # n - 1
      OBVIOUS
    <2> QED
      BY <2>1, <2>3, <2>4 DEF HeadBreaks, Breaks
  <1>3. CASE g # n
    <2>0. g \in 1..(n - 1) /\ g + 1 \in Nat /\ g + 1 > 1 /\ (g + 1) - 1 = g /\ g - 1 \in Nat
          /\ g \in Nat /\ g # g - 1
      BY <1>3
    <2>1. lines[g] = ChainAt(g + 1)
      BY <2>0
    <2>2. lines[g].seq = g + 1 /\ lines[g].prev = Upto(g)
      BY <2>0, <2>1, ChainLinks
    <2>3. Anchor(g) = Upto(g - 1)
      <3>0. lines[g].seq # 1
        BY <2>0, <2>2
      <3>1. CASE g = 1
        <4>1. Before(g) = {} /\ g - 1 = 0
          BY <1>0, <1>1, <2>0, <3>1, AllReadable
        <4> QED
          BY <4>1, UptoZero DEF Anchor
      <3>2. CASE g > 1
        <4>1. Before(g) # {} /\ Max(Before(g)) = g - 1
          BY <1>0, <1>1, <2>0, <3>2, AllReadable
        <4>2. g - 1 \in 1..(n - 1) /\ g - 1 < g /\ g - 1 > 0
          BY <2>0, <3>2
        <4>3. lines[g - 1] = ChainAt(g - 1)
          BY <4>2
        <4>4. lines[g - 1].h = Upto(g - 1)
          BY <2>0, <4>2, <4>3, ChainLinks
        <4> QED
          BY <3>0, <4>1, <4>4 DEF Anchor
      <3> QED
        BY <2>0, <3>1, <3>2
    <2>4. Upto(g - 1) # Upto(g)
      BY <2>0, UptoDiffers
    <2> QED
      BY <2>0, <2>2, <2>3, <2>4 DEF LineBreaks, Breaks
  <1> QED
    BY <1>2, <1>3

(* VerifyIsExact: without failed writes the verifier reports a break       *)
(* exactly when a line was taken out, for chains of any length and any     *)
(* number of restarts; and a line lost to a failed write shows once the    *)
(* same run has recorded another.                                          *)
THEOREM VerifierIsExact == AuditSpec => []VerifyIsExact
  <1>1. ASSUME AuditInv PROVE VerifyIsExact
    <2> SUFFICES ASSUME pending.at = "idle"
                 PROVE  /\ ahist.failures = 0 /\ ~ahist.mid /\ lines # << >> =>
                              (Breaks <=> ahist.erased)
                        /\ ahist.after /\ ~ahist.erased => Breaks
      BY DEF VerifyIsExact
    <2>1. ahist.after /\ ~ahist.erased => Breaks
      BY <1>1 DEF AuditInv, LostShows, Breaks
    <2>2. ASSUME ahist.failures = 0, ~ahist.mid, lines # << >>
          PROVE  Breaks <=> ahist.erased
      <3>m. PICK m \in Nat : m = ahist.made
        BY <1>1, AuditNumbers
      <3>1. /\ m > 0 => state = [there |-> TRUE, ok |-> TRUE, prev |-> Upto(m), seq |-> m]
            /\ ~ahist.erased => Whole(m)
            /\ ahist.erased => Gap(m)
        BY <1>1, <2>2, <3>m DEF AuditInv, CleanRun, Written, Saved
      <3>2. Len(lines) \in Nat /\ Len(lines) > 0 /\ DOMAIN lines = 1..Len(lines)
        BY <1>1, <2>2, AuditParts, EmptySeq
      <3>3. CASE ~ahist.erased
        <4>1. Len(lines) = m /\ \A i \in 1..m : lines[i] = ChainAt(i)
          BY <3>1, <3>3 DEF Whole
        <4>2. ~Breaks
          BY <3>1, <3>2, <4>1, WholeVerifies
        <4> QED
          BY <3>3, <4>2
      <3>4. CASE ahist.erased
        <4>1. PICK g \in 1..m :
                 /\ Len(lines) = m - 1
                 /\ \A i \in 1..(m - 1) : lines[i] = ChainAt(IF i < g THEN i ELSE i + 1)
          BY <3>1, <3>4 DEF Gap
        <4>2. m > 0 /\ m - 1 > 0 /\ DOMAIN lines = 1..(m - 1)
          BY <3>2, <4>1
        <4>3. Breaks
          BY <3>1, <4>1, <4>2, GapBreaks
        <4> QED
          BY <3>4, <4>3
      <3> QED
        BY <3>3, <3>4
    <2> QED
      BY <2>1, <2>2
  <1> QED
    BY <1>1, AuditInvHolds, PTL

-----------------------------------------------------------------------------
(* Tasks.                                                                  *)

(* The lane; what update_task has answered.                                *)
LanePlace == {"idle", "replace", "tasks", "upsert", "delete", "save"}
LaneType == [at : LanePlace, view : 0..MaxChange, changes : [Todo -> 0..MaxChange],
             upto : SUBSET Todo]
AnsweredType == [ok : [Todo -> 0..MaxChange], faults : 0..MaxLaneFaults]

(* A lane between two passes, at whichever place it is. *)
LEMMA AsleepTyped ==
  ASSUME NEW p \in LanePlace
  PROVE  Asleep \in LaneType /\ [Asleep EXCEPT !.at = p] \in LaneType
<1>1. 0 \in 0..MaxChange
  BY TasksAssumption
<1>2. [t \in Todo |-> 0] \in [Todo -> 0..MaxChange]
  BY <1>1
<1>3. Asleep \in LaneType
  BY <1>1, <1>2 DEF Asleep, LaneType, LanePlace
<1> QED
  BY <1>3 DEF LaneType

(* Every version of a task the lane or a tool writes is one Exchange had. *)
LEMMA TasksInductive == TasksTypeOK /\ [TasksNext]_taskVars => TasksTypeOK'
<1> SUFFICES ASSUME TasksTypeOK, [TasksNext]_taskVars PROVE TasksTypeOK'
  OBVIOUS
<1>t. /\ task \in [Todo -> 0..MaxChange] /\ trow \in [Todo -> 0..MaxChange]
      /\ token \in [Todo -> 0..MaxChange]
      /\ calendar \in 0..MaxChange /\ events \in 0..MaxChange
      /\ lane \in LaneType /\ thist \in AnsweredType
  BY DEF TasksTypeOK, LaneType, LanePlace, AnsweredType
<1>m. MaxChange \in Nat /\ MaxChange > 0 /\ MaxLaneFaults \in Nat
  BY TasksAssumption
<1>f. /\ lane.view \in 0..MaxChange /\ lane.changes \in [Todo -> 0..MaxChange]
      /\ thist.ok \in [Todo -> 0..MaxChange] /\ thist.faults \in 0..MaxLaneFaults
  BY <1>t DEF LaneType, AnsweredType
<1>q. ASSUME task' \in [Todo -> 0..MaxChange], trow' \in [Todo -> 0..MaxChange],
             token' \in [Todo -> 0..MaxChange],
             calendar' \in 0..MaxChange, events' \in 0..MaxChange,
             lane' \in LaneType, thist' \in AnsweredType
      PROVE  TasksTypeOK'
  BY <1>q DEF TasksTypeOK, LaneType, LanePlace, AnsweredType
<1> USE <1>t
<1>1. CASE ViewEvents
  <2>1. lane' \in LaneType
    BY <1>1 DEF ViewEvents, LaneType, LanePlace
  <2> QED
    BY <1>1, <1>q, <2>1 DEF ViewEvents
<1>2. CASE ReplaceEvents
  <2>1. lane' \in LaneType
    BY <1>2, AsleepTyped DEF ReplaceEvents, LanePlace
  <2> QED
    BY <1>2, <1>f, <1>q, <2>1 DEF ReplaceEvents
<1>3. CASE SyncItems
  <2>1. lane' \in LaneType
    BY <1>3 DEF SyncItems, LaneType, LanePlace
  <2> QED
    BY <1>3, <1>q, <2>1 DEF SyncItems
<1>4. CASE UpsertTasks \/ DeleteTasks
  <2>1. lane' \in LaneType
    BY <1>4 DEF UpsertTasks, DeleteTasks, LaneType, LanePlace
  <2>2. trow' \in [Todo -> 0..MaxChange]
    BY <1>4, <1>f, <1>m DEF UpsertTasks, DeleteTasks
  <2> QED
    BY <1>4, <1>q, <2>1, <2>2 DEF UpsertTasks, DeleteTasks
<1>5. CASE SaveTaskToken
  <2>1. lane' \in LaneType
    BY <1>5, AsleepTyped DEF SaveTaskToken, LanePlace
  <2> QED
    BY <1>5, <1>f, <1>q, <2>1 DEF SaveTaskToken
<1>6. CASE LaneFails
  <2>1. lane' \in LaneType
    BY <1>6, AsleepTyped DEF LaneFails, LanePlace
  <2>2. thist.faults + 1 \in 0..MaxLaneFaults
    BY <1>6, <1>f, <1>m DEF LaneFails
  <2>3. thist' \in AnsweredType
    BY <1>6, <2>2 DEF LaneFails, AnsweredType
  <2> QED
    BY <1>6, <1>q, <2>1, <2>3 DEF LaneFails
<1>7. CASE OwnerSchedules
  BY <1>7, <1>m, <1>q DEF OwnerSchedules
<1>8. ASSUME NEW t \in Todo, OwnerEdits(t) \/ UpdateTask(t) \/ UpdateTaskHalf(t)
      PROVE  TasksTypeOK'
  <2>1. task[t] + 1 \in 0..MaxChange /\ 0 \in 0..MaxChange
    BY <1>8, <1>m DEF OwnerEdits, UpdateTask, UpdateTaskHalf
  <2>2. task' \in [Todo -> 0..MaxChange]
    BY <1>8, <2>1 DEF OwnerEdits, UpdateTask, UpdateTaskHalf
  <2>3. thist' \in AnsweredType
    <3>1. [thist.ok EXCEPT ![t] = task[t] + 1] \in [Todo -> 0..MaxChange]
      BY <1>f, <2>1
    <3>2. [thist EXCEPT !.ok[t] = task[t] + 1] \in AnsweredType
      BY <1>f, <3>1 DEF AnsweredType
    <3> QED
      BY <1>8, <3>2 DEF OwnerEdits, UpdateTask, UpdateTaskHalf
  <2> QED
    BY <1>8, <1>q, <2>2, <2>3 DEF OwnerEdits, UpdateTask, UpdateTaskHalf
<1>9. CASE UNCHANGED taskVars
  BY <1>9, <1>q DEF taskVars
<1> QED
  BY <1>1, <1>2, <1>3, <1>4, <1>5, <1>6, <1>7, <1>8, <1>9 DEF TasksNext, Lane

(* Through the owner's edits, half-done updates and failed passes, the     *)
(* task rows, the event rows and the saved token only ever hold versions   *)
(* that Exchange has had.                                                  *)
THEOREM TasksTyped == TasksSpec => []TasksTypeOK
<1>1. TasksInit => TasksTypeOK
  <2> SUFFICES ASSUME TasksInit PROVE TasksTypeOK
    OBVIOUS
  <2>1. 0 \in 0..MaxChange /\ 1 \in 0..MaxChange /\ 0 \in 0..MaxLaneFaults
    BY TasksAssumption
  <2>2. lane \in LaneType
    BY AsleepTyped DEF TasksInit, LanePlace
  <2>3. thist \in AnsweredType
    BY <2>1 DEF TasksInit, AnsweredType
  <2> QED
    BY <2>1, <2>2, <2>3 DEF TasksInit, TasksTypeOK, LaneType, LanePlace, AnsweredType
<1> QED
  BY <1>1, TasksInductive, PTL DEF TasksSpec

=============================================================================
