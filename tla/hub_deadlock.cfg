SPECIFICATION FairSpec
CONSTANTS
    s1 = s1
    s2 = s2
    None = None
    Requests = {"ADD", "DELETE", "NAME", "TOPIC", "STATE", "SET", "TOGGLE", "LIST", "STATUS", "TRANSMIT"}
    Messages = TRUE
    Slot = {s1, s2}
    MaxReady = 2
PROPERTIES
    RequestAnswered
CHECK_DEADLOCK FALSE
