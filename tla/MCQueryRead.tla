------------------------------ MODULE MCQueryRead ------------------------------
EXTENDS QueryRead
=============================================================================
