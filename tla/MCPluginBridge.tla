--------------------------- MODULE MCPluginBridge ---------------------------
(* Instance of PluginBridge for TLC.                                       *)
EXTENDS PluginBridge
=============================================================================
