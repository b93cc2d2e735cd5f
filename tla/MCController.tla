---------------------------- MODULE MCController ----------------------------
(***************************************************************************)
(* A server that receives two requests, with a halt before, between or     *)
(* during them.  All five templates are used, at their real sizes.         *)
(***************************************************************************)
EXTENDS Controller
=============================================================================
