-------------------------- MODULE MCSettingsCache ---------------------------
(* A small instance of SettingsCache. *)
EXTENDS SettingsCache
=============================================================================
