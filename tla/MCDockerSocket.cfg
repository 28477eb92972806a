SPECIFICATION Spec
CONSTANTS
    Labels <- Two
    DockerSocketPublishedLabel = "docker-socket-published"
    Writers = {w1, w2}
    None = None
    MaxFaults = 2
INVARIANTS
    TypeOK
    NoLabelLost
PROPERTIES
    ImplementsSwitch
