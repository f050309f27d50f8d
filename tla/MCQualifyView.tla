---------------------------- MODULE MCQualifyView ----------------------------
(* QualifyView, with the bounds of qualify_view.cfg.                       *)
EXTENDS QualifyView

=============================================================================
