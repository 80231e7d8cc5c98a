------------------------------ MODULE MCClock ------------------------------
(***************************************************************************)
(* The clocks of a runtime's realms (RealmClock) under names of their own, *)
(* so that a module may speak of them and of the sleeps they await.        *)
(***************************************************************************)
EXTENDS Naturals

CONSTANTS Realms, NoJob, MaxInstant, MaxEntries, MaxArms

VARIABLES k_now, k_timers, k_ended, k_deadline, k_moved, k_unseen, k_foreign,
          k_clock, k_armed, k_queue, k_job, k_at, k_entries, k_arms

K == INSTANCE RealmClock WITH
  MaxNow <- MaxInstant, now <- k_now, timers <- k_timers, ended <- k_ended,
  deadline <- k_deadline, moved <- k_moved, unseen <- k_unseen,
  foreign <- k_foreign, clock <- k_clock, armed <- k_armed, queue <- k_queue,
  job <- k_job, at <- k_at, entries <- k_entries, arms <- k_arms

ASSUME ClocksAssumed == K!ClockAssumption

ClocksSpec == K!FairSpec

(* A clock task that waits, waits for its realm's earliest timer, however  *)
(* entries, checkpoints and sleeps interleave (serve_clock).               *)
NothingForgotten == K!NothingForgotten

(* A realm's clock has one settle out at a time (serve_clock).             *)
SettlesDoNotPile == K!SettlesDoNotPile

(* Timers fire, and two realms' clocks come to rest (serve_clock).         *)
ClocksServeAndRest == K!ClocksServeAndRest
=============================================================================
