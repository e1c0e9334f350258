--------------------------- MODULE MCCfx3Session ---------------------------
(* Values for the constants of Cfx3Session.                                *)
EXTENDS Cfx3Session

CONSTANTS c1, t1, t2, v1

MCOneTopic == {t1}
MCTwoTopics == {t1, t2}
MCValues == {v1}
MCCallers == {c1}
=============================================================================
