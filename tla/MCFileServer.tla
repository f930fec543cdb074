---------------------------- MODULE MCFileServer ----------------------------
(* TLC instance of FileServer: transfers, which do not look at the clock or  *)
(* the table, are only followed before the first failed login.               *)
EXTENDS FileServer, TLC

CONSTANTS tunnel, h1, h2, h3, n1, n2

HostSymmetry == Permutations({h2, h3}) \cup Permutations({n1, n2})

\* The folder stays as it is once logins are counted.
Untouched == changes = 0 /\ path.kind = "gone" /\ Free

Apart == (DOMAIN failures = {} /\ now = 0) \/ Untouched
=============================================================================
