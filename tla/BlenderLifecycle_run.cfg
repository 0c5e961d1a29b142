SPECIFICATION FairSpec
CONSTANTS
    MaxOutside = 6
    MaxCrashes = 1
    MaxFailed = 1
INVARIANT OneBlender
PROPERTIES FollowsSession Closes StopSticks
CHECK_DEADLOCK FALSE
