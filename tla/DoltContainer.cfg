CONSTANTS
    Company = {c1, c2}
    MaxFilings = 2
    MaxChanged = 1
    MaxFailures = 1
    MaxCrashes = 3
SPECIFICATION Spec
PROPERTIES  EndsTogether StopIsHeard 
