------------------------- MODULE MCTestRegistration -------------------------
(***************************************************************************)
(* test_register_sgx_instance on a chain of at most 4 blocks: enough for   *)
(* the other users' registrations, the test's transaction and the second  *)
(* confirmation to happen in every order.  A balance of 6 pays for the     *)
(* gas at price 1 only, and stops paying once the other run of the test    *)
(* has spent 4; a balance of 12 pays at both prices.                      *)
(***************************************************************************)
EXTENDS TestRegistration

MCMaxHeight == 4
MCInitBalances == {6, 12}

=============================================================================
