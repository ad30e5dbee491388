--------------------------- MODULE MCMediaSession ---------------------------
(* Instances of MediaSession for TLC. *)
EXTENDS MediaSession

Sound == [streams |-> {"audio"}, heldBack |-> 0, perPacket |-> 1, lastGen |-> 2]
Picture == [streams |-> {"video"}, heldBack |-> 1, perPacket |-> 2, lastGen |-> 2]

Played == {Sound, Picture}
OnlySound == {Sound}
=============================================================================
