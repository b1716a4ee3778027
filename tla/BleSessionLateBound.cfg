CONSTANTS
    Clients = {c1, c2}
    NoClient = NoClient
    MaxCancels = 1
SPECIFICATION Spec
PROPERTY BoundInCloseBlamesClose
