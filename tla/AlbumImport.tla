----------------------------- MODULE AlbumImport -----------------------------
(***************************************************************************)
(* What the import of one album promises, whatever the publish strategy,   *)
(* whichever of commit and recovery does the work and however often it is  *)
(* interrupted: the album appears on the library's shelf complete and      *)
(* sealed or not at all, is catalogued in the database only then, and the  *)
(* user's own files are touched only after that.                           *)
(***************************************************************************)
CONSTANTS
    Images,   \* the images of the album
    Mode      \* "copy": archive the source album; "move": remove the images

VARIABLES
    shelf,       \* "complete" when the sealed album directory is there
    catalogue,   \* "present" when the library rows are
    archived,    \* "present" when the source album is in the archive
    removed,     \* the images whose source files are gone
    report       \* what the transaction says: "open" or "done"

importVars == <<shelf, catalogue, archived, removed, report>>

ImportInit ==
    /\ shelf = "absent" /\ catalogue = "absent"
    /\ archived = "absent" /\ removed = {} /\ report = "open"

\* An album the catalogue lists is never published a second time.
Publish ==
    /\ shelf = "absent" /\ catalogue = "absent"
    /\ shelf' = "complete"
    /\ UNCHANGED <<catalogue, archived, removed, report>>

Catalogue ==
    /\ shelf = "complete" /\ catalogue = "absent"
    /\ catalogue' = "present"
    /\ UNCHANGED <<shelf, archived, removed, report>>

Archive ==
    /\ Mode = "copy" /\ catalogue = "present" /\ archived = "absent"
    /\ archived' = "present"
    /\ UNCHANGED <<shelf, catalogue, removed, report>>

\* Removal has no backup but the published file, so the album must be there.
RemoveImage(img) ==
    /\ Mode = "move" /\ catalogue = "present" /\ shelf = "complete"
    /\ removed' = removed \cup {img}
    /\ UNCHANGED <<shelf, catalogue, archived, report>>

Finish ==
    /\ catalogue = "present"
    /\ IF Mode = "copy" THEN archived = "present" ELSE removed = Images
    /\ report' = "done"
    /\ UNCHANGED <<shelf, catalogue, archived, removed>>

\* Something outside the program damages or deletes the published album.
Damage ==
    /\ shelf = "complete"
    /\ shelf' = "absent"
    /\ UNCHANGED <<catalogue, archived, removed, report>>

ImportNext ==
    \/ Publish \/ Catalogue \/ Archive \/ Finish \/ Damage
    \/ \E img \in Images : RemoveImage(img)

ImportSpec == ImportInit /\ [][ImportNext]_importVars
=============================================================================
