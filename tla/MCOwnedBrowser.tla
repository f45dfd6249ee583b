--------------------------- MODULE MCOwnedBrowser ----------------------------
(* The instance of OwnedBrowser that is checked.                            *)
EXTENDS OwnedBrowser
=============================================================================
