----------------------------- MODULE SfsPublish -----------------------------
(***************************************************************************)
(* What replacing an image promises to whoever reads x.sfs: the shelf is   *)
(* the set of versions of which the directory holds a complete image,      *)
(* shown the version x.sfs reads as.  The shelf is never empty; a version  *)
(* is shown only once it stands complete on the shelf, so no reader opens  *)
(* an image that is still being written; between two versions x.sfs may be *)
(* missing for a moment.                                                   *)
(***************************************************************************)
EXTENDS Naturals

CONSTANTS Versions, NoVersion     \* NoVersion is not one of the Versions

VARIABLES shelf, shown

Init == shelf = {0} /\ shown = 0

Step ==
  /\ \E v \in Versions : shelf' \subseteq shelf \cup {v}
  /\ shelf' # {}
  /\ shown' \in (shelf \cap shelf') \cup {NoVersion}

Spec == Init /\ [][Step]_<<shelf, shown>>
=============================================================================
