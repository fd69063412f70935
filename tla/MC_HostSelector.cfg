CONSTANTS
    h1 = h1  h2 = h2  localhost = localhost  v6 = v6
    Names = {h1, h2, localhost}
    V6Literals = {v6}
    PortNums = {3307}
    Localhost = localhost
    Absent = Absent
    EmptyValue = EmptyValue
    Unresolvable = Unresolvable
    NoPort = NoPort  EmptyPort = EmptyPort  BadPort = BadPort
    Exhausted = Exhausted
    Pending = Pending
    Confs <- MCConfs
    Servers <- MCServers
SPECIFICATION Spec
INVARIANTS TypeOK DbHostOutageAlerts
PROPERTY ConnectImplementsContract
