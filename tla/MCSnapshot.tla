------------------------------ MODULE MCSnapshot ------------------------------
EXTENDS Snapshot, TLC

CONSTANTS h1, h2, a, b, main, develop

MCTwoHooks == {h1, h2}
MCOneHook == {h1}
MCBranches == {a, b}
MCTrunks == {main, develop}
MCAssumed == {main}
=============================================================================
