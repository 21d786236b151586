---------------------------- MODULE MCRenderPipeline ----------------------------
(* A few sessions in a row over a shallow frame lane. *)
EXTENDS RenderPipeline
=============================================================================
