------------------------------ MODULE MCImport ------------------------------
(* Instances of Import for TLC. *)
EXTENDS Import

\* a photo with its sidecar, and another photo of the same name
PhotoSidecarTwin == <<"photo", "sidecar", "twin">>
TheirNames == [photo |-> "a.jpg", sidecar |-> "a.xmp", twin |-> "a.jpg"]
TheirSidecars == [photo |-> <<"sidecar">>, sidecar |-> <<>>, twin |-> <<>>]
=============================================================================
