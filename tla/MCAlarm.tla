------------------------------ MODULE MCAlarm ------------------------------
EXTENDS Alarm, TLC

(* Behind, exact and ahead. *)
MCSkews == {-1, 0, 1}

(* Tasks are alike, and so are futures.                                    *)
Alike == {f @@ g : f \in Permutations(Sleeps), g \in Permutations(Wakers)}
=============================================================================
