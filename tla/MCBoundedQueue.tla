--------------------------- MODULE MCBoundedQueue ---------------------------
(***************************************************************************)
(* Small instances of BoundedQueue.  MuxQueue is the mux queue (Block;     *)
(* venc and aenc push, mux pops); EncodeQueue is the encode queue          *)
(* (DropOldest; capture pushes, venc pops, a device rebuild reopens it).   *)
(***************************************************************************)
EXTENDS BoundedQueue

CONSTANTS capture, venc, aenc, mux

MuxProducers == {venc, aenc}
MuxConsumers == {mux}
EncodeProducers == {capture}
EncodeConsumers == {venc}
=============================================================================
