-------------------------------- MODULE Rails --------------------------------
(***************************************************************************)
(* The dates that gate the archive (archive/policy.py): when a message may *)
(* be captured, when it may leave the mailbox, and how the age of the last *)
(* backup holds deletion.  One message, a clock in half days, every        *)
(* setting an operator may write and every `before' a caller may pass.     *)
(***************************************************************************)
EXTENDS Integers

CONSTANTS AfterDays, GraceDays, CaptureDays,  \* the settings tried
          MaxAge, HoldDays,                   \* backup_max_age, in half days;
                                              \* backup_hold_max_days
          Dated,                              \* the message's date_ts
          Horizon                             \* bound: the clock

ASSUME RailsAssumption ==
    /\ AfterDays \subseteq Int /\ GraceDays \subseteq Int /\ CaptureDays \subseteq Int
    /\ {MaxAge, HoldDays, Horizon} \subseteq Nat /\ Dated \in 0..Horizon

Day == 2
Unset == 99   \* ARCHIVE_CAPTURE_AFTER_DAYS, or `before', not given
Never == -1

VARIABLES settings, now, stamp, verifiedAt, archived, exit

railVars == <<settings, now, stamp, verifiedAt, archived, exit>>

(* after 1 day, a day of grace, capture with deletion, no backup rail.     *)
Defaults == [after |-> 1, grace |-> 1, capture |-> Unset, backup |-> FALSE]

RailsInit ==
    /\ settings \in [after : AfterDays, grace : GraceDays, capture : CaptureDays \union {Unset},
                     backup : BOOLEAN]
    /\ now = Dated
    /\ stamp = Never          \* the marker file: its mtime, Never: none
    /\ verifiedAt = Never
    /\ archived = "live"
    /\ exit = [at |-> Never, stamp |-> Never, asked |-> FALSE]   \* history: the deletion

grace_unfloored(days) == days
grace_days(days) == IF days < 1 THEN 1 ELSE days

age_cutoff(days, before) == IF before # Unset THEN before ELSE now - days * Day

capture_cutoff(before) ==
    LET asked == IF settings.capture < 0 THEN 0 ELSE settings.capture
    IN age_cutoff(IF settings.capture = Unset \/ asked > settings.after
                  THEN settings.after ELSE asked, before)

delete_cutoff(before) == age_cutoff(settings.after, before) - grace_days(settings.grace) * Day

grace_instant == now - grace_days(settings.grace) * Day

backup_state ==
    CASE ~settings.backup -> "off"
      [] settings.backup /\ stamp = Never -> "missing"
      [] settings.backup /\ stamp # Never ->
           IF now - stamp <= MaxAge THEN "fresh"
           ELSE IF now - stamp <= HoldDays * Day THEN "stale" ELSE "expired"

-----------------------------------------------------------------------------
Tick ==
    /\ now < Horizon
    /\ now' = now + 1
    /\ UNCHANGED <<settings, stamp, verifiedAt, archived, exit>>

(* The backup job touches its marker, or the marker is lost.               *)
BackUp(t) ==
    /\ settings.backup /\ t \in {now, Never}
    /\ stamp' = t
    /\ UNCHANGED <<settings, now, verifiedAt, archived, exit>>

CaptureRun(before) ==
    /\ archived = "live" /\ Dated <= capture_cutoff(before)
    /\ archived' = "captured"
    /\ UNCHANGED <<settings, now, stamp, verifiedAt, exit>>

VerifyRun ==
    /\ archived = "captured"
    /\ archived' = "verified" /\ verifiedAt' = now
    /\ UNCHANGED <<settings, now, stamp, exit>>

(* reset_to_live: the copy is unusable or the item was edited.             *)
ResetCapture ==
    /\ archived \in {"captured", "verified"}
    /\ archived' = "live" /\ verifiedAt' = Never
    /\ UNCHANGED <<settings, now, stamp, exit>>

DeleteRun(before) ==
    /\ backup_state \notin {"stale", "missing"}
    /\ archived = "verified"
    /\ Dated <= delete_cutoff(before) /\ verifiedAt <= grace_instant
    /\ archived' = "deleted"
    /\ exit' = [at |-> now, stamp |-> stamp, asked |-> before # Unset]
    /\ UNCHANGED <<settings, now, stamp, verifiedAt>>

Befores == {Unset} \union 0..(Horizon + Day)

RailsNext ==
    \/ Tick \/ VerifyRun \/ ResetCapture
    \/ \E t \in {now, Never} : BackUp(t)
    \/ \E b \in Befores : CaptureRun(b) \/ DeleteRun(b)

RailsSpec == RailsInit /\ [][RailsNext]_railVars

-----------------------------------------------------------------------------
Instants == 0..Horizon \union {Never}

RailsTypeOK ==
    /\ settings \in [after : AfterDays, grace : GraceDays, capture : CaptureDays \union {Unset},
                     backup : BOOLEAN]
    /\ now \in Dated..Horizon
    /\ stamp \in Instants /\ verifiedAt \in Instants
    /\ archived \in {"live", "captured", "verified", "deleted"}
    /\ exit \in [at : Instants, stamp : Instants, asked : BOOLEAN]

(* Whatever the operator set and the caller passed: a message leaves the   *)
(* mailbox a full day after its verification at the earliest, and, without *)
(* an explicit `before', not before after_days and a day have passed; with *)
(* the backup rail on it never leaves without a marker, and under an old   *)
(* one only once the hold has run out; and whatever may be deleted may     *)
(* also be captured, so no setting starves the mailbox of room             *)
(* (policy.py:66, 98, 119).                                                *)
RailsHold ==
    /\ archived = "deleted" =>
          /\ exit.at - verifiedAt >= Day
          /\ ~exit.asked => exit.at - Dated >= (settings.after + 1) * Day
          /\ settings.backup =>
                /\ exit.stamp # Never
                /\ exit.at - exit.stamp > MaxAge => exit.at - exit.stamp > HoldDays * Day
    /\ \A b \in Befores : delete_cutoff(b) <= capture_cutoff(b)
=============================================================================
