\* Two endpoints, any of which may be down, and two requests at a time.
SPECIFICATION FairSpec
CONSTANTS
    RpcCount = 2
    Requests = {1, 2}
    MaxRetries = 2
PROPERTY RequestEnds
