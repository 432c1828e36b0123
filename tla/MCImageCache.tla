--------------------------- MODULE MCImageCache ---------------------------
(***************************************************************************)
(* A small instance of ImageCache for TLC: two images, three requests.     *)
(***************************************************************************)
EXTENDS ImageCache

CONSTANTS cover, banner
=============================================================================
