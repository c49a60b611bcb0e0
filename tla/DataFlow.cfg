CONSTANTS
    Kinds <- MCKinds
    MsgLen = 1
SPECIFICATION Spec
INVARIANT NoBug
INVARIANT NothingLost
INVARIANT NoUseAfterFree
INVARIANT FlagMatchesTree
INVARIANT NoLostWakeup
INVARIANT OneTrackState
INVARIANT PluginAgrees
INVARIANT AllAnswered
PROPERTY FeedHome
CHECK_DEADLOCK FALSE
