---------------------------- MODULE TextRequestMC ----------------------------
(* TextRequest with three requests in flight at once.                      *)
EXTENDS TextRequest
=============================================================================
