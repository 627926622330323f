----------------------------- MODULE MCSettingsPage ----------------------------
(* Instances of SettingsPage for TLC. *)
EXTENDS SettingsPage
CONSTANTS own, a, b
MCEntries == {own, a, b}
MCSlots == 1 .. 2
================================================================================
