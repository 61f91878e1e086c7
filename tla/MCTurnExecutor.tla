---------------------------- MODULE MCTurnExecutor ----------------------------
EXTENDS TurnExecutor, TLC

\* Two sessions, one of them with bodies that may run at once.
MCSession == "a1" :> "a" @@ "a2" :> "a" @@ "a3" :> "a" @@ "b1" :> "b"
MCBodies  == DOMAIN MCSession
=============================================================================
