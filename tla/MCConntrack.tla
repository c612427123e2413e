---------------------------- MODULE MCConntrack ----------------------------
(* Instantiates Conntrack for TLC; the protocol and the bounds come from  *)
(* the .cfg files.                                                        *)
EXTENDS Conntrack
============================================================================
