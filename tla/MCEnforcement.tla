---------------------------- MODULE MCEnforcement ----------------------------
EXTENDS Enforcement, TLC

CONSTANTS h1, h2

(* The branch main|opus with no model stated, and main with the model opus.*)
MCHooks == {h1, h2}
MCQuestions ==
    {[checkout |-> [repository |-> <<"r">>, branch |-> <<"main", "|", "opus">>], model |-> <<>>],
     [checkout |-> [repository |-> <<"r">>, branch |-> <<"main">>], model |-> <<"opus">>]}
MCAdvice == {NoAdvice, 0}
=============================================================================
