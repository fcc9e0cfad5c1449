SPECIFICATION Spec
CONSTANTS
    Fd = {1}
    Channel = {"news"}
    Command <- MCCommand
    Pipeline <- MCPipeline
    WriteCommand = {"SET", "DEL"}
    MaxClients = 1
    MaxSent = 1
INVARIANT LogMatchesExecution
