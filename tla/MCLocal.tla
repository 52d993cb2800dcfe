------------------------------- MODULE MCLocal -------------------------------
(* Values for the constants of Local: const.go's, scaled to a screen on which *)
(* a race is short; a list with room for one of two players; as many          *)
(* snapshots as the channel and the ring hold together; lengths on either     *)
(* side of the limit of a toot.                                               *)
EXTENDS Local

MCFlapImpulse == 0 - 3

-----------------------------------------------------------------------------
(* SkelLink: a file, and a .config with an emacs and a sway directory *)

config == <<"config">>
emacs == <<"config", "emacs">>
sway == <<"config", "sway">>

MCSkelDirs == {config, emacs, sway}
MCSkelFiles == {<<"zshrc">>, Append(emacs, "init"), Append(sway, "bar")}
MCOwn == {Append(config, "own"), Append(emacs, "local"), Append(sway, "extra")}
MCCopyPaths == {emacs}

=============================================================================
