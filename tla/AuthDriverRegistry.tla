-------------------------- MODULE AuthDriverRegistry --------------------------
(***************************************************************************)
(* The AuthDriver registry of src/pkg/keppel/auth_driver.go: the map      *)
(* authDriverFactories, RegisterAuthDriver (called from the init() of     *)
(* each driver package) and NewAuthDriver (called by main with the driver *)
(* name from the configuration).                                          *)
(*                                                                         *)
(* Which driver packages a binary links is a build choice, and Go runs    *)
(* their init() functions in an order fixed by the import graph; the      *)
(* model takes any set of packages and any order. A factory is identified *)
(* by the package that registers it. A panic in init() ends the process.  *)
(***************************************************************************)
EXTENDS TLC

CONSTANTS
    Packages,       \* driver packages that call RegisterAuthDriver in init()
    DriverName,     \* the name each package registers its factory under
    ConfigNames,    \* driver names the configuration may ask for
    NoDriver        \* main has not called NewAuthDriver yet

ASSUME DriverName \in [Packages -> ConfigNames]

VARIABLES
    linked,                 \* the driver packages linked into the binary
    initDone,               \* packages whose init() has run
    authDriverFactories,    \* name -> package of the registered factory
    phase,                  \* "init", "main" or "panicked"
    driver                  \* what NewAuthDriver returned: a package, "error" or NoDriver

vars == <<linked, initDone, authDriverFactories, phase, driver>>

TypeOK ==
    /\ linked \subseteq Packages
    /\ initDone \subseteq linked
    /\ \E names \in SUBSET ConfigNames : authDriverFactories \in [names -> Packages]
    /\ phase \in {"init", "main", "panicked"}
    /\ driver \in Packages \cup {"error", NoDriver}

Init ==
    /\ linked \in SUBSET Packages
    /\ initDone = {}
    /\ authDriverFactories = [n \in {} |-> NoDriver]
    /\ phase = "init"
    /\ driver = NoDriver

\* Mutant: the factory is stored without checking for an earlier one.
RegisterAuthDriverNoCheck(p) ==
    /\ phase = "init" /\ p \in linked \ initDone
    /\ authDriverFactories' = (DriverName[p] :> p) @@ authDriverFactories
    /\ initDone' = initDone \cup {p}
    /\ UNCHANGED <<linked, phase, driver>>

\* RegisterAuthDriver(name, factory), lines 100-105, run by p's init().
RegisterAuthDriver(p) ==
    /\ phase = "init" /\ p \in linked \ initDone
    /\ IF DriverName[p] \in DOMAIN authDriverFactories
       THEN /\ phase' = "panicked"
            /\ UNCHANGED <<authDriverFactories, initDone>>
       ELSE /\ authDriverFactories' = authDriverFactories @@ (DriverName[p] :> p)
            /\ initDone' = initDone \cup {p}
            /\ UNCHANGED phase
    /\ UNCHANGED <<linked, driver>>

\* All init() functions have run; main starts.
StartMain ==
    /\ phase = "init" /\ initDone = linked
    /\ phase' = "main"
    /\ UNCHANGED <<linked, initDone, authDriverFactories, driver>>

\* Mutant: the nil check on the looked-up factory is dropped, and calling
\* the nil factory panics.
NewAuthDriverNoNilCheck(name) ==
    /\ phase = "main" /\ driver = NoDriver
    /\ driver' = IF name \in DOMAIN authDriverFactories
                 THEN authDriverFactories[name] ELSE "nil factory called"
    /\ UNCHANGED <<linked, initDone, authDriverFactories, phase>>

\* NewAuthDriver(name), lines 90-96, for the configured name.
NewAuthDriver(name) ==
    /\ phase = "main" /\ driver = NoDriver
    /\ driver' = IF name \in DOMAIN authDriverFactories
                 THEN authDriverFactories[name] ELSE "error"
    /\ UNCHANGED <<linked, initDone, authDriverFactories, phase>>

Next ==
    \/ \E p \in Packages : RegisterAuthDriver(p)
    \/ StartMain
    \/ \E n \in ConfigNames : NewAuthDriver(n)

Spec == Init /\ [][Next]_vars

-----------------------------------------------------------------------------
(***************************************************************************)
(* The driver main obtains does not depend on the order in which the      *)
(* packages' init() ran: it is made by the factory of every linked package *)
(* registered under that name.                                            *)
(***************************************************************************)
DriverUnambiguous ==
    driver \in Packages =>
        \A p \in linked : DriverName[p] = DriverName[driver] => p = driver
=============================================================================
