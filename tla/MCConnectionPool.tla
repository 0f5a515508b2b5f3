-------------------------- MODULE MCConnectionPool --------------------------
EXTENDS ConnectionPool, TLC

CONSTANTS l1, l2, l3, prospect, attorney

=============================================================================
