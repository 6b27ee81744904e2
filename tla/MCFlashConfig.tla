--------------------------- MODULE MCFlashConfig ---------------------------
(***************************************************************************)
(* TLC instance of FlashConfig: three images, the four pages of the real   *)
(* blob, this firmware and an older one (see FlashConfig.cfg).             *)
(***************************************************************************)
EXTENDS FlashConfig

MCVersions == {6, 7}
=============================================================================
