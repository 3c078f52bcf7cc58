CONSTANTS
    a = a
    b = b
    Mem = mem
    Clients <- MCClients
    Databases <- MCDatabases
    MaxVersion = 2

SPECIFICATION Spec

INVARIANT ActiveMeansTransaction
