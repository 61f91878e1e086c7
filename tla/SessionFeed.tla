---------------------------- MODULE SessionFeed ----------------------------
(***************************************************************************)
(* What the feed of a session promises a terminal UI, whatever crashes,    *)
(* reconnects and replays lie between them: there is one log, it only      *)
(* grows, and the UI shows its records one at a time, in the order of the  *)
(* log, each exactly once.                                                 *)
(***************************************************************************)
EXTENDS Naturals, Sequences

CONSTANT Kinds          \* what a record can be

VARIABLES log,          \* the records, in the order of their commit
          shown         \* the positions of the log the UI has applied, in order

Init == log = << >> /\ shown = << >>

Commit == \E k \in Kinds : log' = Append(log, k) /\ UNCHANGED shown

Show == /\ Len(shown) < Len(log)
        /\ shown' = Append(shown, Len(shown) + 1)
        /\ UNCHANGED log

Next == Commit \/ Show

Spec == Init /\ [][Next]_<<log, shown>>
=============================================================================
