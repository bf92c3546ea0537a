----------------------------- MODULE MCImThread -----------------------------
(* One or two IM threads and clients, as model values. *)
EXTENDS ImThread
CONSTANTS t1, t2, c1, c2, m1, m2
OneThread   == {t1}
TwoThreads  == {t1, t2}
OneClient   == {c1}
TwoClients  == {c1, c2}
TwoMessages == {m1, m2}
=============================================================================
