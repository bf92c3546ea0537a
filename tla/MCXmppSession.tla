---- MODULE MCXmppSession ----
EXTENDS XmppSession
MCOffers == {{"starttls", "PLAIN"}, {"PLAIN", "DIGEST-MD5"}, {"DIGEST-MD5"}, {"bind"}, {"bind", "session"}, {}}
====
