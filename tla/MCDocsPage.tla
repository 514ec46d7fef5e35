----------------------------- MODULE MCDocsPage -----------------------------
(* Instance of DocsPage for TLC.                                           *)
EXTENDS DocsPage
=============================================================================
