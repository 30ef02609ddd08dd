----------------------------- MODULE AlarmClock -----------------------------
(***************************************************************************)
(* What a list of timeouts is for: a set of alarms, each with the time it  *)
(* has left.  Time passes for all of them alike; setting one disturbs no   *)
(* other; the one that rings is one with the least left, and the others    *)
(* lose what it had left.                                                  *)
(*                                                                         *)
(* Timers, whose list stores the differences only, implements this.        *)
(***************************************************************************)
EXTENDS Naturals

CONSTANTS Alarms, Durations   \* Durations: how long alarms are set for

VARIABLE left    \* the milliseconds left of each alarm that is set

Init == left = [a \in {} |-> 0]

Earliest(a) == a \in DOMAIN left /\ \A b \in DOMAIN left : left[a] <= left[b]

Set ==
  \E a \in Alarms \ DOMAIN left, d \in Durations :
    left' = [b \in DOMAIN left \cup {a} |-> IF b = a THEN d ELSE left[b]]

\* Time passes up to the earliest alarm.
Pass ==
  \E a \in DOMAIN left :
    /\ Earliest(a)
    /\ \E d \in 1..left[a] : left' = [b \in DOMAIN left |-> left[b] - d]

\* The alarm that rang may be set again at once.
Ring ==
  \E a \in DOMAIN left :
    /\ Earliest(a)
    /\ LET others == [b \in DOMAIN left \ {a} |-> left[b] - left[a]]
       IN  \/ left' = others
           \/ \E d \in Durations :
                left' = [b \in DOMAIN left |-> IF b = a THEN d ELSE others[b]]

Next == Set \/ Pass \/ Ring

Spec == Init /\ [][Next]_left
=============================================================================
