---------------------------- MODULE MCWrapperAsm ----------------------------
(* One call with two arguments on the stack. *)
EXTENDS WrapperAsm

TwoArguments == <<Sym("argument 6"), Sym("argument 7")>>
=============================================================================
