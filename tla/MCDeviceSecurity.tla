-------------------------- MODULE MCDeviceSecurity --------------------------
(* Instances of DeviceSecurity for TLC: one process with every request,    *)
(* and one that sets a first passphrase, removes it and erases with it.    *)
EXTENDS DeviceSecurity

CONSTANTS p1, p2, a, b

All == Requests
Some == {r \in Requests : /\ r.op \in {"set", "remove", "crypto"}
                          /\ r.old # a /\ r.new # a /\ (r.old = None <=> r.op = "set")}
AskedByTwo == [p \in {p1, p2} |-> IF p = p1 THEN All ELSE Some]
TwoSkus == {{"passphrase", "unlock", "overwrite", "crypto"}, {"overwrite", "crypto"}}
=============================================================================
