----------------------------- MODULE MCAppHost ------------------------------
(* An application with two versions; both ask for one platform permission.  *)
EXTENDS AppHost

MCVersions == {1, 2}
MCPackages == {[ver |-> 1, sha |-> 1], [ver |-> 1, sha |-> 2], [ver |-> 2, sha |-> 3]}
MCDeclares == [v \in MCVersions |-> Perms]
=============================================================================
