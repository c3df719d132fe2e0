CONSTANTS
    Ses = {s1, s2}
    Rpc = {}
    Media = {m1}
    Playable = {m1}
    Text = {x}
    MaxComments = 2
    MaxInbox = 0
    Ops = {"open", "add", "edit", "del"}
    NULL = NULL
SPECIFICATION FairSpec
INVARIANTS
    NothingMissed
PROPERTIES
    CommentsArrive
