-------------------------- MODULE MCProdLifecycle --------------------------
(* A small instance of ProdLifecycle for TLC.                              *)
EXTENDS ProdLifecycle, TLC
=============================================================================
