------------------------------ MODULE MCShared ------------------------------
(***************************************************************************)
(* Three things a page has in common with another thread: its scroll       *)
(* containers, which the painter moves too (ScrollSync, whose variables    *)
(* are this module's), the workers it created (WorkerLife) and its         *)
(* background thread (Background).  They share nothing the models keep, so *)
(* one of them `runs' and the rest stand still in their first states.      *)
(***************************************************************************)
EXTENDS ScrollSync, TLC

CONSTANTS
  Workers, NoWorker, Aborts, MaxPosts,  \* WorkerLife's
  MaxSent, MaxSaid                      \* Background's

VARIABLES
  runs,  \* "scroll", "workers" or "background"
  l_released, l_constructing, l_created, l_live, l_sources, l_posted, l_ends,
  l_commands, l_messages, l_events, l_thread, l_reporters, l_told, l_task,
  l_root, l_held, l_flushed, l_jobs, l_delivered, l_terminal_reported,
  l_panic_reported,
  b_view, b_burst, b_dropped, b_connected, b_handle, b_ended_known,
  b_disposal, b_pending, b_sent, b_inbox, b_events, b_bts, b_entry, b_waiting,
  b_handled, b_said, b_cleanups

L == INSTANCE WorkerLife WITH
  released <- l_released, constructing <- l_constructing,
  created <- l_created, live <- l_live, sources <- l_sources,
  posted <- l_posted, ends <- l_ends, commands <- l_commands,
  messages <- l_messages, events <- l_events, thread <- l_thread,
  reporters <- l_reporters, told <- l_told, task <- l_task, root <- l_root,
  held <- l_held, flushed <- l_flushed, jobs <- l_jobs,
  delivered <- l_delivered, terminal_reported <- l_terminal_reported,
  panic_reported <- l_panic_reported

B == INSTANCE Background WITH
  view <- b_view, burst <- b_burst, dropped <- b_dropped,
  connected <- b_connected, handle <- b_handle,
  ended_known <- b_ended_known, disposal <- b_disposal,
  pending <- b_pending, sent <- b_sent, inbox <- b_inbox,
  events <- b_events, bts <- b_bts, entry <- b_entry, waiting <- b_waiting,
  handled <- b_handled, said <- b_said, cleanups <- b_cleanups

ASSUME ContainerAssumption == ScrollAssumption
ASSUME CreatorAssumption == L!WorkerAssumption
ASSUME ExchangeAssumption == B!BoundAssumption

l_vars == <<l_released, l_constructing, l_created, l_live, l_sources,
            l_posted, l_ends, l_commands, l_messages, l_events, l_thread,
            l_reporters, l_told, l_task, l_root, l_held, l_flushed, l_jobs,
            l_delivered, l_terminal_reported, l_panic_reported>>
b_vars == <<b_view, b_burst, b_dropped, b_connected, b_handle, b_ended_known,
            b_disposal, b_pending, b_sent, b_inbox, b_events, b_bts, b_entry,
            b_waiting, b_handled, b_said, b_cleanups>>
all == <<runs, vars, l_vars, b_vars>>

Symmetry == Permutations(Workers)

SharedInit ==
  runs \in {"scroll", "workers", "background"} /\ Init /\ L!Init /\ B!Init

(* The exchange with the background thread comes to an end; nothing to     *)
(* scroll with and a creator with nothing to do would be deadlocks.        *)
SharedNext ==
  /\ UNCHANGED runs
  /\ \/ runs = "scroll" /\ Next /\ UNCHANGED <<l_vars, b_vars>>
     \/ runs = "workers" /\ L!Next /\ UNCHANGED <<vars, b_vars>>
     \/ runs = "background" /\ (B!Next \/ UNCHANGED b_vars)
                            /\ UNCHANGED <<vars, l_vars>>

SharedSpec == SharedInit /\ [][SharedNext]_all

-----------------------------------------------------------------------------
(* The end of a worker is announced while its creator keeps it, and        *)
(* reported once; what it is sent is delivered in order, its boot's answer *)
(* past what is held for it (thread.rs, workers.rs).                       *)
WorkersAreTold == L!WorkersAreTold

(* No Start is sent behind a report of the trap (report_thread_trap).      *)
NoStartBehindReport == L!NoStartBehindReport

(* What the page says to its background thread arrives in order, the end   *)
(* of it last (main-thread-runtime.ts).                                    *)
HandshakeHolds == B!HandshakeHolds
=============================================================================
