SPECIFICATION FairSpec
CONSTANTS
    MaxWord = 15
    Configs <- Tunings
    Limits = {0, 8}
    Loads <- Memory
    MaxFrames = 6
    Faults = {"resize", "others", "create", "bind", "start", "open", "unbind",
              "stop", "destroy", "kill"}
INVARIANTS NeverSuppressed LeavesNothing
PROPERTIES StepsBounded Responds Settles
