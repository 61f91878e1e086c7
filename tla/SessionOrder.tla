--------------------------- MODULE SessionOrder ---------------------------
(***************************************************************************)
(* What the index of a workspace promises its users: the sessions stand in *)
(* an order, and nothing ever happens to that order but that one session   *)
(* joins it, leaves it or moves in it, or that sessions join at its end.   *)
(* There is no half-done change, whoever dies in the middle of one.        *)
(***************************************************************************)
CONSTANT Sessions

VARIABLES listed,       \* the sessions that have a place in the order
          before        \* the pairs <<a, b>> with a before b

Among(pairs, set) == {p \in pairs : p[1] \in set /\ p[2] \in set}

Init == listed = {} /\ before = {}

\* One session joins, leaves or moves: the others keep their order.
Change(s) ==
    LET others == Sessions \ {s}
    IN  /\ listed' \ {s} = listed \ {s}
        /\ Among(before', others) = Among(before, others)

\* Sessions join at the end.
Join == /\ listed \subseteq listed'
        /\ Among(before', listed) = before
        /\ \A a \in listed, b \in listed' \ listed : <<a, b>> \in before' /\ <<b, a>> \notin before'

Next == (\E s \in Sessions : Change(s)) \/ Join

Spec == Init /\ [][Next]_<<listed, before>>
=============================================================================
