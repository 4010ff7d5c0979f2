--------------------------- MODULE MCPluginWorker ---------------------------
(* Small instances of PluginWorker for TLC. *)
EXTENDS PluginWorker
=============================================================================
