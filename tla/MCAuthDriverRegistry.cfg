CONSTANTS
    keystoneA = keystoneA
    keystoneB = keystoneB
    trivial = trivial
    ldap = ldap
    NoDriverValue = NoDriverValue
    Packages <- MCPackages
    DriverName <- MCDriverName
    ConfigNames <- MCConfigNames
    NoDriver = NoDriverValue
SPECIFICATION Spec
INVARIANT TypeOK DriverUnambiguous
\* After main has its driver, and after a panic in init(), the registry
\* takes no further step.
CHECK_DEADLOCK FALSE
