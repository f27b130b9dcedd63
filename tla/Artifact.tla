------------------------------ MODULE Artifact ------------------------------
(* The temporary file that holds a source, and the limit on its size.        *)
CONSTANTS MaxBytes, None
VARIABLE disk  \* None, or what is in the file
=============================================================================
