\* One device with two methods and one variable, one operation at a time, four
\* roles, three configuration files.
CONSTANTS
    d1 = d1
    m1 = m1
    m2 = m2
    v1 = v1
    Devices <- MCDevices
    Methods <- MCMethods
    NoMethod = NoMethod
    DeviceConfigs <- MCDeviceConfigs
    Expiry = 0
    MaxOperations = 1
    MaxTime = 1
    Roles <- MCRoles
    NoRole = NoRole
    Variables <- MCVariables
    Values <- MCValues
    Files <- MCFiles
    Consulted <- MCConsulted
SPECIFICATION ToolSpec
INVARIANTS OneTimeOperation Accountable
PROPERTIES InvocationApproved RoleSeparation WritePolicy ImplementsOperations
