------------------------------- MODULE MCExpr -------------------------------
(***************************************************************************)
(* Bounded instances of Expr.  Two leaves share a key and no value there,  *)
(* so that a fold empties a container, or itself, where its shape does not *)
(* foresee it; a third is wider, so that an AND narrows.                   *)
(***************************************************************************)
EXTENDS Expr

MCLeaves == << {<< 1, 1 >>}, {<< 1, 2 >>}, {<< 1, 1 >>, << 1, 2 >>, << 2, 1 >>} >>
=============================================================================
