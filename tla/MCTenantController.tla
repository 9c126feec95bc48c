-------------------------- MODULE MCTenantController --------------------------
(* Values of the constants of TenantController for the model checker.        *)
EXTENDS TenantController

CONSTANTS free, pro

\* A change from one to the other changes plan and isolation at once.
TwoSpecs == {[plan |-> free, isolated |-> TRUE], [plan |-> pro, isolated |-> FALSE]}
=============================================================================
