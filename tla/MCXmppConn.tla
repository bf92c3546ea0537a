---- MODULE MCXmppConn ----
EXTENDS XmppConn
MCOffers == {{"starttls", "PLAIN"}, {"PLAIN", "DIGEST-MD5"}, {"bind"}, {"bind", "session"}, {}}
FewOffers == {{"starttls"}, {"PLAIN"}}
====
