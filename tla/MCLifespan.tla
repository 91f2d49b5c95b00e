----------------------------- MODULE MCLifespan -----------------------------
(* Lifespan on four missions files: shared, missing and distinct databases,   *)
(* and an id that is used twice.                                              *)
EXTENDS Lifespan

CONSTANTS alpha, beta, gamma, db1, db2

Entry(i, d) == [id |-> i, dsn |-> d]

MissionFiles ==
    {<<Entry(alpha, db1), Entry(beta, db1), Entry(gamma, db2)>>,
     <<Entry(alpha, db1), Entry(beta, NoDsn), Entry(gamma, db1)>>,
     <<Entry(alpha, db1), Entry(beta, db2), Entry(alpha, db2)>>,
     <<Entry(alpha, NoDsn)>>}
=============================================================================
