\* Every screen and control of the mobile app; two screens above the bottoms of
\* all stacks, one mutation that is followed by a move under way.
CONSTANTS
    MaxPushed = 2
    MaxCalls = 1
SPECIFICATION Spec

INVARIANT LinksLand
INVARIANT WayOut
INVARIANT RootWithinReach
INVARIANT AnswersCloseTheirOwn
