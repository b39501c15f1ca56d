------------------------ MODULE MCTlsCertificateStore ------------------------
(* Two bundles, so that halves can be mixed, one of them compiled in.        *)
EXTENDS TlsCertificateStore
=============================================================================
