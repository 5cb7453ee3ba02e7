-------------------------- MODULE MCPageThumbnails --------------------------
(* Two pages with two scenes each, and room for one stored image: enough to  *)
(* redraw and go back, and for the image of one page to be evicted when that *)
(* of the other is stored.                                                   *)
EXTENDS PageThumbnails
=============================================================================
