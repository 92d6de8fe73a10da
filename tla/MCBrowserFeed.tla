---------------------------- MODULE MCBrowserFeed ----------------------------
EXTENDS BrowserFeed
=============================================================================
