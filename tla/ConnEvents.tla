----------------------------- MODULE ConnEvents -----------------------------
(***************************************************************************)
(* What the application is promised about the callback it gives to         *)
(* xmpp_connect_client (xmpp_conn_handler, called at xmpp-conn.c:325 and   *)
(* xmpp-auth.c:501 and 527): each attempt ends in CONNECT or DISCONNECT,   *)
(* CONNECT comes at most once and never after DISCONNECT, and nothing      *)
(* comes before the next attempt once DISCONNECT has been given.           *)
(***************************************************************************)
VARIABLE stage

Stages == {"new", "connecting", "up", "down"}

Init == stage = "new"

Connect    == stage \in {"new", "down"} /\ stage' = "connecting"
Connected  == stage = "connecting" /\ stage' = "up"
Disconnect == stage \in {"connecting", "up"} /\ stage' = "down"

Next == Connect \/ Connected \/ Disconnect

Spec == /\ Init
        /\ [][Next]_stage
        /\ WF_stage(stage = "connecting" /\ (Connected \/ Disconnect))
=============================================================================
