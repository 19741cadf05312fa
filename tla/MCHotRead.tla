------------------------------- MODULE MCHotRead -------------------------------
\* HotRead for TLC.
EXTENDS HotRead
=============================================================================
