CONSTANTS
    Ses = {s1, s2}
    Rpc = {r1}
    Media = {m1, m2, m3}
    Playable = {m1, m2}
    Text = {x}
    MaxComments = 1
    MaxInbox = 0
    Ops = {"open", "add"}
    NULL = NULL
SPECIFICATION Spec
SYMMETRY Symmetry
INVARIANTS
    ScreensAgree
    OneFileOnScreen
