------------------------------ MODULE MCAnswers ------------------------------
(***************************************************************************)
(* The two tables in which somebody's question waits for an answer that    *)
(* another thread is to bring: the Futures of a realm (FutureTable, whose  *)
(* variables are this module's) and the pictures views asked for           *)
(* (ImagePipeline).  No operation of the one is one of the other, so one   *)
(* of the two `runs' and the other stands still in its first state.        *)
(***************************************************************************)
EXTENDS FutureTable

CONSTANTS
  Views, Sources, Documents, Full, First, Budgets, Permits,  \* ImagePipeline's
  MaxActs

VARIABLES
  runs,  \* "futures" or "images"
  i_entries, i_waiters, i_refining, i_bitmaps, i_older, i_pinned, i_budget,
  i_fresh, i_requested, i_jobs, i_permits, i_completions, i_turn, i_lost,
  i_asked, i_told, i_acts

I == INSTANCE ImagePipeline WITH
  entries <- i_entries, waiters <- i_waiters, refining <- i_refining,
  bitmaps <- i_bitmaps, older <- i_older, pinned <- i_pinned,
  budget <- i_budget, fresh <- i_fresh, requested <- i_requested,
  jobs <- i_jobs, permits <- i_permits, completions <- i_completions,
  turn <- i_turn, lost <- i_lost, asked <- i_asked, told <- i_told,
  acts <- i_acts

ASSUME PicturesAssumption == I!ImagesAssumption

i_vars == <<i_entries, i_waiters, i_refining, i_bitmaps, i_older, i_pinned,
              i_budget, i_fresh, i_requested, i_jobs, i_permits,
              i_completions, i_turn, i_lost, i_asked, i_told, i_acts>>
all == <<runs, vars, i_vars>>

AnswersInit == runs \in {"futures", "images"} /\ Init /\ I!Init

AnswersNext ==
  /\ UNCHANGED runs
  /\ \/ runs = "futures" /\ Next /\ UNCHANGED i_vars
     \/ runs = "images" /\ I!Next /\ UNCHANGED vars

(* Each module's own Fairness, while it is the one that runs.              *)
FuturesFairness ==
  LET Here == runs = "futures" /\ UNCHANGED <<runs, i_vars>> IN
  /\ \A f \in Futures : WF_all(Here /\ Complete(f))
  /\ WF_all(Here /\ \E e \in awaiting : Settle(e))
  /\ SF_all(Here /\ Deliver) /\ SF_all(Here /\ Return)
  /\ WF_all(Here /\ WaitSettled) /\ WF_all(Here /\ WaitEnded)

ImagesFairness ==
  LET Here == runs = "images" /\ UNCHANGED <<runs, vars>> IN
  /\ WF_all(Here /\ \E j \in i_jobs : I!Step(j))
  /\ WF_all(Here /\ I!Service) /\ WF_all(Here /\ I!Apply)

AnswersSpec ==
  AnswersInit /\ [][AnswersNext]_all /\ FuturesFairness /\ ImagesFairness

-----------------------------------------------------------------------------
(* Every request for a picture is answered once, to the view that made it  *)
(* (images.rs).                                                            *)
EveryoneIsTold == I!EveryoneIsTold

(* The frame being drawn keeps its pictures, and nothing else is kept over *)
(* the budget (cache/memory.rs).                                           *)
FrameStays == I!FrameStays

(* What is asked is answered in the end, whatever fails (executor.rs).     *)
RequestsEnd == I!RequestsEnd
=============================================================================
