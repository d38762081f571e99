\* Every page and control of the web app, in two languages; two entries of history, one
\* mutation that is followed by a move under way.
CONSTANTS
    Languages = {"en", "fr"}
    MaxHistory = 2
    MaxCalls = 1
SPECIFICATION Spec

INVARIANT LinksLand
INVARIANT AnswersStayWhereAsked
