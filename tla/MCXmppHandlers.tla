---------------------------- MODULE MCXmppHandlers ----------------------------
EXTENDS XmppHandlers, TLC
CONSTANTS f1, f2, f3, i1, i2, t1, id1, id2
MCHashKey == id1 :> 0 @@ id2 :> 0 @@ EmptyId :> 0
MCSymmetry == Permutations(Items)
=============================================================================
