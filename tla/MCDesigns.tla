------------------------------ MODULE MCDesigns ------------------------------
(* A small instance of the design page: two requests at a time, two versions. *)
EXTENDS Designs
=============================================================================
