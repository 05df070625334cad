------------------------ MODULE MCAuthDriverRegistry ------------------------
(***************************************************************************)
(* Four driver packages, two of which register the same name, and a      *)
(* configuration that may name a driver no package registers.             *)
(***************************************************************************)
EXTENDS AuthDriverRegistry

CONSTANTS keystoneA, keystoneB, trivial, ldap, NoDriverValue

MCPackages == {keystoneA, keystoneB, trivial, ldap}
MCDriverName == [p \in MCPackages |->
                    IF p \in {keystoneA, keystoneB} THEN "keystone"
                    ELSE IF p = trivial THEN "trivial" ELSE "ldap"]
MCConfigNames == {"keystone", "trivial", "ldap", "oauth"}
=============================================================================
