\* The broker takes the message and its reply is lost.
CONSTANTS
    Jobs = {j1}
    Tasks = {t1}
    Syncs = {}
    Exps = {e1}
    NRows = 1
    None = None
    PublishOutcomes = {"ok", "reply_lost"}
    Interruptible = {}
    CrashProne = {}
SPECIFICATION Spec
PROPERTY TerminalImmutable
