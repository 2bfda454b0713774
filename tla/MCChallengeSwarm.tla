-------------------------- MODULE MCChallengeSwarm --------------------------
EXTENDS ChallengeSwarm

CONSTANTS m1, m2, f1, f2
=============================================================================
