----------------------------- MODULE OwnerLife -----------------------------
(***************************************************************************)
(* What one engine thread promises about the realms it hosts, with nothing *)
(* said of jobs, tasks or queues: the JavaScript of one owner is on the    *)
(* stack at a time, a realm is entered only while its owner is live, and a *)
(* realm is released once, after its owner ended, with no JavaScript of    *)
(* any owner on the stack.  Owners in Disposing run JavaScript once more   *)
(* between their end and their release: a view's disposal exchange.        *)
(*                                                                         *)
(* RealmOwner is shown to implement this.                                  *)
(***************************************************************************)

CONSTANTS
  Owners,     \* the views, or the workers, of one engine thread
  Disposing,  \* those of Owners whose JavaScript runs again after their end
  Nobody      \* no owner's JavaScript is on the stack

VARIABLES
  life,   \* life[o]: "live", "ended" or "released"
  stack   \* the owner whose JavaScript is on the stack, or Nobody

vars == <<life, stack>>

Init ==
  /\ life = [o \in Owners |-> "live"]
  /\ stack = Nobody

(* JavaScript of o begins: o is live, or it ended and is disposing. *)
Enter(o) ==
  /\ stack = Nobody
  /\ \/ life[o] = "live"
     \/ life[o] = "ended" /\ o \in Disposing
  /\ stack' = o
  /\ UNCHANGED life

(* The JavaScript on the stack returns, and may have ended its owner. *)
Leave ==
  /\ stack # Nobody
  /\ stack' = Nobody
  /\ \/ UNCHANGED life
     \/ /\ life[stack] = "live"
        /\ life' = [life EXCEPT ![stack] = "ended"]

(* An end reaches o at any time, its own JavaScript on the stack included. *)
End(o) ==
  /\ life[o] = "live"
  /\ life' = [life EXCEPT ![o] = "ended"]
  /\ UNCHANGED stack

(* The realm of o goes, under nobody's JavaScript. *)
Release(o) ==
  /\ stack = Nobody
  /\ life[o] = "ended"
  /\ life' = [life EXCEPT ![o] = "released"]
  /\ UNCHANGED stack

Next == Leave \/ \E o \in Owners : Enter(o) \/ End(o) \/ Release(o)

Spec == Init /\ [][Next]_vars
=============================================================================
