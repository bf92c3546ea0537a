---------------------------- MODULE MCXmppStanza ----------------------------
(* XmppStanza for TLC: the addresses are interchangeable.                  *)
EXTENDS XmppStanza, TLC

MCSymmetry == Permutations(Nodes)
=============================================================================
