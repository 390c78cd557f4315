----------------------------- MODULE MCGpuBatch -----------------------------
(***************************************************************************)
(* Small instances of GpuBatch: two batches, so that everything the first  *)
(* one leaves in the buffers is there for the second.                      *)
(***************************************************************************)
EXTENDS GpuBatch
=============================================================================
