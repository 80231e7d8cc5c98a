------------------------------- MODULE MCOwner -------------------------------
(***************************************************************************)
(* One owner of a realm (RealmOwner, whose variables are this module's),   *)
(* in which a timer is a deadline and a realm is one; the timers behind    *)
(* that deadline (TimerSchedule), for which an entry is one step; and the  *)
(* realms inside a page's realm, the cards of its <frame> elements         *)
(* (Frames), for which the owner is what ends an entry.  One of the three  *)
(* `runs' and the others stand still in their first states.                *)
(***************************************************************************)
EXTENDS RealmOwner, TLC

CONSTANTS
  MaxNow, MaxArms, MaxTurns, Delays, ClampedNesting, ClampedDelay, \* TimerSchedule's
  Srcs, NoSrc, MaxCards, MaxDepth, MaxActs  \* Frames'

VARIABLES
  runs,  \* "owner", "timers" or "cards"
  t_now, t_armed, t_order, t_next_id, t_nesting, t_scheduled, t_at, t_batch,
  t_deadline, t_entries, t_cleared, t_streak,
  f_frame, f_card, f_asked, f_flying, f_jobs, f_stack, f_entry, f_events,
  f_batch, f_changes, f_taken, f_pageBts, f_acts

T == INSTANCE TimerSchedule WITH
  MaxEntries <- MaxTurns, now <- t_now, armed <- t_armed, order <- t_order,
  next_id <- t_next_id, nesting <- t_nesting, scheduled <- t_scheduled,
  at <- t_at, batch <- t_batch, deadline <- t_deadline, entries <- t_entries,
  cleared <- t_cleared, streak <- t_streak

F == INSTANCE Frames WITH
  frame <- f_frame, card <- f_card, asked <- f_asked, flying <- f_flying,
  jobs <- f_jobs, stack <- f_stack, entry <- f_entry, events <- f_events,
  batch <- f_batch, changes <- f_changes, taken <- f_taken,
  pageBts <- f_pageBts, acts <- f_acts

ASSUME TimersAssumption == T!ScheduleAssumption
ASSUME CardsAssumption == F!FramesAssumption

t_vars == <<t_now, t_armed, t_order, t_next_id, t_nesting, t_scheduled, t_at,
            t_batch, t_deadline, t_entries, t_cleared, t_streak>>
f_vars == <<f_frame, f_card, f_asked, f_flying, f_jobs, f_stack, f_entry,
            f_events, f_batch, f_changes, f_taken, f_pageBts, f_acts>>
all == <<runs, vars, t_vars, f_vars>>

Symmetry == Permutations(Owners) \cup Permutations(Tasks)

PartsInit == runs \in {"owner", "timers", "cards"} /\ Init /\ T!Init /\ F!Init

(* The cards may come to rest; an owner or timers for which nothing can    *)
(* happen would be a deadlock.                                             *)
PartsNext ==
  /\ UNCHANGED runs
  /\ \/ runs = "owner" /\ Next /\ UNCHANGED <<t_vars, f_vars>>
     \/ runs = "timers" /\ T!Next /\ UNCHANGED <<vars, f_vars>>
     \/ runs = "cards" /\ (F!Next \/ UNCHANGED f_vars)
                       /\ UNCHANGED <<vars, t_vars>>

PartsSpec == PartsInit /\ [][PartsNext]_all

-----------------------------------------------------------------------------
(* The realm's table and the host's schedule agree, the earliest deadline  *)
(* is the one published, and a chain is clamped (timers.rs, timers.ts).    *)
TimersHold == T!TimersHold

(* A timer a script has cleared does not run again (timers.rs,             *)
(* run_due_timers).                                                        *)
ClearedStaysCleared == T!ClearedStaysCleared

(* A card boots into a page of its own and is let go of, its last list of  *)
(* disappearances posted before its background thread is asked to dispose  *)
(* of itself (frame.ts, frame-boot.ts).                                    *)
CardsAreKept == F!FreshPage /\ F!NoOrphan /\ F!LastListPosted

(* Whoever waits for a card or for a frame will be told (child.rs).        *)
WaitersAreTold == F!WaitersAreTold
=============================================================================
