---------------------------- MODULE MCAgentThread ----------------------------
EXTENDS AgentThread, TLC

MCTurns == Permutations(Turn)
=============================================================================
