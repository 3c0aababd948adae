---------------------------- MODULE MCConnection ----------------------------
(* A request without a body, a POST that is answered at once and one that  *)
(* waits for its run, a POST without Content-Length, one that is no        *)
(* request and one whose head is too long.                                 *)
EXTENDS Connection
K(head, body, declared, bad, blocking) ==
  [head |-> head, body |-> body, declared |-> declared, bad |-> bad,
   blocking |-> blocking]
MCKinds == {K(2, 0, TRUE, FALSE, FALSE), K(1, 2, TRUE, FALSE, FALSE),
            K(1, 1, TRUE, FALSE, TRUE), K(1, 1, FALSE, FALSE, FALSE),
            K(1, 0, TRUE, TRUE, FALSE), K(3, 0, TRUE, FALSE, FALSE)}
=============================================================================
