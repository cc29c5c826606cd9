\* One job; the runs query is read like the results query and left out.  Three of: the
\* post, a failed request (two in a row make an error), the page opened again.
CONSTANTS
    j1 = j1
    e = e
    x = x
    None = None
    Jobs = {j1}
    Exps = {e}
    Execs = {x}
    Experiment = e
    Views = {"results", "diagnostics"}
    Budget = 3
SPECIFICATION Spec
CHECK_DEADLOCK FALSE
INVARIANT TypeOK
PROPERTIES ViewGrows Refreshes
