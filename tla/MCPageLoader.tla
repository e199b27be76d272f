----------------------------- MODULE MCPageLoader -----------------------------
(***************************************************************************)
(* Small instances of PageLoader.                                          *)
(***************************************************************************)
EXTENDS PageLoader

CONSTANTS w1, w2, v1, v2, l1

OneWorker == [p \in Pages |-> w1]
TwoWorkers == [p \in Pages |-> IF p % 2 = 1 THEN w1 ELSE w2]
FirstTwo == {1, 2}
AllPages == Pages
=============================================================================
