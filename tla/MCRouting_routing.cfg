SPECIFICATION Spec
CONSTANTS
    Sessions = {s1, s2}
    Names = {n1}
    LocalChats = {c1, c2}
    HostChats = {h1}
    Launchers = {"vscode-agent-mcp", "cli-runtime", "unknown"}
    FocusedChat = focused
SYMMETRY Symmetry
INVARIANTS
    RepliesGoHome
    InvitationsAreKept
    DenialsAreKept
    GivenUpOnlyOutside
CHECK_DEADLOCK FALSE
