-------------------------------- MODULE Clock --------------------------------
(* What the parts of the RAG service share: its calls, and time.monotonic.   *)
CONSTANT Requests
VARIABLE now
=============================================================================
