-------------------------- MODULE MCCodeGenerator --------------------------
(***************************************************************************)
(* Instantiates CodeGenerator over the planner's query graphs of           *)
(* MCQueryPlanner: the planner runs to the end, then the chosen plan is    *)
(* compiled into operators.                                                *)
(***************************************************************************)
EXTENDS CodeGenerator, MCQueryPlanner
=============================================================================
