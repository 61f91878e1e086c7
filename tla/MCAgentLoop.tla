---------------------------- MODULE MCAgentLoop ----------------------------
EXTENDS AgentLoop, TLC

\* A prompt, a steer and a compaction, of which the inbox may hold two.
Chat      == "p" :> "send" @@ "s" :> "steer" @@ "k" :> "compact"
ChatCalls == DOMAIN Chat

\* A prompt, a context that starts no turn, and an activateSession beside them.
Poked      == "p" :> "send" @@ "i" :> "inject" @@ "a" :> "activate"
PokedCalls == DOMAIN Poked
=============================================================================
