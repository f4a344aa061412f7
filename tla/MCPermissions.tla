---------------------------- MODULE MCPermissions ----------------------------
(* Instance of Permissions for TLC.                                        *)
EXTENDS Permissions, TLC
==============================================================================
