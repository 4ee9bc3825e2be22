-------------------------- MODULE MCDigestClient --------------------------
(* DigestClient for TLC: a count of few values reaches its end.            *)
EXTENDS DigestClient
=============================================================================
