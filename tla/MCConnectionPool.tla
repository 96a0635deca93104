-------------------------- MODULE MCConnectionPool --------------------------
(* Instances of ConnectionPool.                                            *)
EXTENDS ConnectionPool
=============================================================================
