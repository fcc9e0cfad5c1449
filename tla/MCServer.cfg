SPECIFICATION FairSpec
CONSTANTS
    Fd = {1, 2}
    Channel = {"news"}
    Command <- MCCommand
    Pipeline <- MCPipeline
    WriteCommand = {"SET", "DEL"}
    MaxClients = 2
    MaxSent = 2
INVARIANTS
    TypeOK
    RegistryExact
    ModesApart
    EventsCurrent
    WritesLogged
PROPERTIES
    GracefulClose
    EveryoneServed
