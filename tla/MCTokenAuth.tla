----------------------------- MODULE MCTokenAuth -----------------------------
(***************************************************************************)
(* Model of the token endpoint for TLC. Scope strings are all strings of  *)
(* up to three atoms, plus every well-shaped scope  type:name:actions     *)
(* with a name of up to three atoms and up to two actions. The length     *)
(* limit 256 is scaled to 9: "registry" is 8 characters, so names reach   *)
(* the limit (9) and pass it (10).                                         *)
(***************************************************************************)
EXTENDS TokenAuth, TLC

CONSTANTS NoScopeValue, NoAccountValue

MCAtoms == {"registry", "repository", "catalog", "pull", "push", "a",
            "-", "/", ":", ",", "*", "A"}

MCNameAtoms == {"a", "-", "/", "catalog", "registry"}
MCActions   == {<<"pull">>, <<"push">>, <<>>, <<"a">>, <<"*">>}

MCShortInputs == BoundedSeq(MCAtoms, 3)
MCScopeShaped ==
    { ScopeString(<<t>>, n, acts) :
        t \in {"registry", "repository"},
        n \in BoundedSeq(MCNameAtoms, 3),
        acts \in BoundedSeq(MCActions, 2) \ {<<>>} }
MCScopeInputs == MCShortInputs \cup MCScopeShaped

MCAccountNames == {<<"a">>, <<"registry">>}

MCAccessLevels ==
    [CanViewAccounts : BOOLEAN,
     CanViewAccount : {{}, {<<"a">>}},
     CanChangeAccount : {{}, {<<"a">>}, MCAccountNames}]

\* One access level for the runs about parsing alone.
MCAccessOne == {[CanViewAccounts |-> TRUE, CanViewAccount |-> {<<"a">>},
                 CanChangeAccount |-> {}]}
=============================================================================
