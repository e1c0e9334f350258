----------------------------- MODULE MCSession -----------------------------
(* Values for the constants of Session.                                    *)
EXTENDS Session

CONSTANTS c1, c2, t1, v1, v2

MCTopics == {t1}
MCValues == {v1, v2}
MCOneValue == {v1}
MCOneCaller == {c1}
MCTwoCallers == {c1, c2}
=============================================================================
