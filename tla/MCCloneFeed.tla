---------------------------- MODULE MCCloneFeed ----------------------------
EXTENDS CloneFeed
=============================================================================
