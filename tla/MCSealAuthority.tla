-------------------------- MODULE MCSealAuthority --------------------------
(* Small instances of SealAuthority.                                       *)
EXTENDS SealAuthority

CONSTANTS t1, l1, g1, g2, k1, k2, w1, w2

Alone == {{a} : a \in Asks}
AloneOrRuled == Alone \cup {{g1, g2}}
=============================================================================
