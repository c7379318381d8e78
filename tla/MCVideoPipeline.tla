-------------------------- MODULE MCVideoPipeline ---------------------------
(***************************************************************************)
(* A small instance of VideoPipeline: an encode queue of one frame and so  *)
(* two staging slots, a mux queue of one packet, so that both queues fill, *)
(* displace and block within a few frames.                                 *)
(***************************************************************************)
EXTENDS VideoPipeline

CONSTANTS s1, s2

TwoSlots == {s1, s2}
=============================================================================
