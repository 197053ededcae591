--------------------------- MODULE MCVersionHistory ---------------------------
(***************************************************************************)
(* VersionHistory for two users, two templates and two initial versions.   *)
(***************************************************************************)
EXTENDS VersionHistory

CONSTANTS a, b, p1, p2

MCFirst == <<a, b>>
=============================================================================
