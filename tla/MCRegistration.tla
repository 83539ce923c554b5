--------------------------- MODULE MCRegistration ---------------------------
(***************************************************************************)
(* register_sgx_instance on the quotes of MCQuoteDecoder.                  *)
(***************************************************************************)
EXTENDS Registration, MCQuoteDecoder

=============================================================================
