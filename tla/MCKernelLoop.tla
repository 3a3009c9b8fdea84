---------------------------- MODULE MCKernelLoop ----------------------------
(* KernelLoop.tla for TLC: the plans.                                        *)
EXTENDS KernelLoop

EndsInModify == <<"modify", "verify", "modify">>
BeginsWithAnalysis == <<"analyze", "modify", "verify", "modify">>
EndsInVerify == <<"modify", "verify">>
=============================================================================
