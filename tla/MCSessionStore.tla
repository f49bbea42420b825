--------------------------- MODULE MCSessionStore ---------------------------
(* SessionStore with two workers of one thread each. *)
EXTENDS SessionStore

CONSTANTS w1, w2, t1, t2

TwoWorkers == [t \in {t1, t2} |-> IF t = t1 THEN w1 ELSE w2]

(* The workers change places together with their threads. *)
Symmetry ==
    {[x \in {w1, w2, t1, t2} |->
        CASE x = w1 -> w2 [] x = w2 -> w1 [] x = t1 -> t2 [] x = t2 -> t1]}
=============================================================================
