SPECIFICATION FairSpec
CONSTANTS
    Sockets = {s1, s2}
    NoSocket = NoSocket
    Callers = {poll}
    Heartbeat = heartbeat
    BeatIds <- MCBeatIds
    QueueSize = 2
    FailLimit = 2
    MaxCommands = 1
    Env = {"close", "mute", "aged", "ambiguous", "bad_command", "abandon", "late"}
INVARIANTS WsType AnswerCanCome ResultIsCurrent
PROPERTIES OrdersKept DeadSocketReplaced
