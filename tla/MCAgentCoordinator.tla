------------------------- MODULE MCAgentCoordinator -------------------------
EXTENDS AgentCoordinator

CONSTANTS poll, edit, before, after

OneEditor == {edit}
TwoDecisions == {before, after}
=============================================================================
