-------------------------- MODULE MCSecureChannel --------------------------
(* Model values for the run of SecureChannel. *)
EXTENDS SecureChannel

CONSTANTS t1, t2

TwoSenders == {t1, t2}

=============================================================================
