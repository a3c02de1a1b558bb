------------------------- MODULE MCTemplateLifecycle -------------------------
(***************************************************************************)
(* Bounds for the runs of TemplateLifecycle are in their cfg files.        *)
(***************************************************************************)
EXTENDS TemplateLifecycle
=============================================================================
