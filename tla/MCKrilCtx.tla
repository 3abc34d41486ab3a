------------------------------ MODULE MCKrilCtx ------------------------------
EXTENDS KrilCtxInvariant
=============================================================================
