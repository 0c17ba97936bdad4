-------------------------------- MODULE MCNet --------------------------------
(* Small networks for SovereignNet.  Ids are ordered by time, then by signer,   *)
(* then by what is named; Later is the opposite order.                          *)
EXTENDS SovereignNet

CONSTANTS p, b, w1, w2, v1, v2, x

NodeOrder == <<p, b, w1, w2, v1, v2>>
Place(n) == CHOOSE i \in DOMAIN NodeOrder : NodeOrder[i] = n
Named(e) == CASE e.type = "lease" -> 10 * Place(e.worker) + (IF e.role = "data" THEN 0 ELSE 1)
              [] e.type = "result" -> 10 * Place(e.lease.signer) + e.lease.ts
              [] e.type = "attest" -> 10 * Place(e.result.signer) + Place(e.result.lease.signer)
              [] OTHER -> 0
Digest(e) == 1000 * e.ts + 100 * Place(e.signer) + Named(e)
Earlier(e, f) == Digest(e) < Digest(f)
Later(e, f) == Digest(e) > Digest(f)

Task(backups, minVerifiers) ==
    [entity |-> x, minVerifiers |-> minVerifiers, leaseMs |-> 1, deadline |-> 4, maxAttempts |-> 2,
     backups |-> backups, funding |-> "commercial", budget |-> 1000]

Plain == {Task(<< >>, 1)}
Backed == {Task(<<b>>, 1)}
=============================================================================
