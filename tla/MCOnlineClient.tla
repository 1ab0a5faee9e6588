-------------------------- MODULE MCOnlineClient --------------------------
(* Instances of OnlineClient for TLC.                                      *)
EXTENDS OnlineClient
=============================================================================
