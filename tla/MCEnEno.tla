------------------------------ MODULE MCEnEno --------------------------------
EXTENDS EnEno
=============================================================================
