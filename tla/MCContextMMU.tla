---------------------------- MODULE MCContextMMU ----------------------------
(***************************************************************************)
(* The ratios of the code on 40 tokens; up to four pieces of evidence of   *)
(* up to five tokens each; two page faults of up to three tokens.          *)
(***************************************************************************)
EXTENDS ContextMMU

CONSTANTS a, b

MCSources == {a, b}
=============================================================================
