\* A client with two addresses of which one accepts; servers with two accept
\* threads or none and a pool of two; three sockets in a select runner.
CONSTANTS
    Parts = {"client", "threaded", "looped", "select"}
    Handlers = {h1, h2, h3}
    MaxEvents = 2
    Servers = {0, 1}
    Reachable = {1}
    Runner = runner
    AutoConnect = autoconnect
    App = app
    Conns = {1, 2, 3}
    NoConn = NoConn
    NoHandler = NoHandler
    NoThread = NoThread
    MaxFail = 1
    MaxCalls = 2
    Acceptors = {a1, a2}
    Listener = listener
    MaxClients = 3
    Sockets = {1, 2, 3}
    MaxSize = 3
    MaxAdds = 3
SPECIFICATION MCSpec
CHECK_DEADLOCK FALSE
INVARIANTS OwnedOnce 
PROPERTIES Reconnects 
