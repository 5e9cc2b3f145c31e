------------------------------ MODULE MCExport ------------------------------
EXTENDS Export, TLC

CONSTANTS f1, f2, d1, d2

MCSumOf == f1 :> d1 @@ f2 :> d2

Symmetry == Permutations(Roots)
=============================================================================
