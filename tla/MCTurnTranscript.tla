-------------------------- MODULE MCTurnTranscript --------------------------
EXTENDS TurnTranscript

MCIndex == {1, 2}
MCNamed == {1}
MCLoose == {1}
=============================================================================
