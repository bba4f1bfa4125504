---------------------------- MODULE MCSaveDrive ----------------------------
(* Two presses or settings of the player and of other mods, at any moment;    *)
(* with and without a save, with menus whose memory looks like a title or     *)
(* does not once they were left.                                              *)
EXTENDS SaveDrive
=============================================================================
