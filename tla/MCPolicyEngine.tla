---------------------------- MODULE MCPolicyEngine ---------------------------
(***************************************************************************)
(* TLC instance of PolicyEngine.  The text of a Decision does not steer    *)
(* the engine, so every answer comes with one text.                        *)
(***************************************************************************)
EXTENDS PolicyEngine, TLC

MCVerdicts == [answer : Outcomes \cup {"raises", "malformed"}, text : {"ok"}]

\* All calls have ended.
Terminated == (\A c \in Calls : Concluded(c)) /\ UNCHANGED engineVars

MCNext == EngineNext \/ Terminated
MCSpec == EngineInit /\ [][MCNext]_engineVars
MCFairSpec == MCSpec /\ \A c \in Calls : WF_engineVars(EngineStep(c))
=============================================================================
