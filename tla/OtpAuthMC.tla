------------------------------ MODULE OtpAuthMC ------------------------------
(* Small instances of OtpAuth for TLC. *)
EXTENDS OtpAuth, TLC

Interchangeable == Permutations(Verifiers) \cup Permutations(Requesters)
=============================================================================
