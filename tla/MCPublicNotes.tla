---------------------------- MODULE MCPublicNotes ----------------------------
(* Instance of PublicNotes for TLC.                                        *)
EXTENDS PublicNotes, TLC
==============================================================================
