-------------------------------- MODULE View --------------------------------
(***************************************************************************)
(* The page of items, the pictures of those selected and the media files   *)
(* that are open for them, side by side so that one run checks all three.  *)
(* A behaviour is one part's from its beginning to its end, and the others *)
(* stay where they begin.                                                  *)
(***************************************************************************)
EXTENDS Browse, Texture, FileHandles

VARIABLES part

ViewInit ==
    /\ part \in {"page", "picture", "media"}
    /\ Init /\ TextureInit /\ MediaInit
    /\ part # "page" => disk = {}
    /\ part # "picture" => ~rawPreview

ViewNext ==
    \/ part = "page" /\ Next /\ UNCHANGED <<part, textureVars, mediaVars>>
    \/ part = "picture" /\ TextureNext /\ UNCHANGED <<part, vars, mediaVars>>
    \/ part = "media" /\ MediaNext /\ UNCHANGED <<part, vars, textureVars>>

ViewSpec == ViewInit /\ [][ViewNext]_<<part, vars, textureVars, mediaVars>>

TypesOK == TypeOK /\ TextureTypeOK /\ MediaTypeOK
=============================================================================
