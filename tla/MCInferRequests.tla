--------------------------- MODULE MCInferRequests ---------------------------
(***************************************************************************)
(* The inference requests on small instances.  In the first the calls that *)
(* may throw are those before anything was dispatched; in the second the   *)
(* outputs may fail to be copied once.                                     *)
(***************************************************************************)
EXTENDS InferRequests

BeforeDispatch == {"queued", "upload"}
AtTheOutputs == {"copy"}
==============================================================================
