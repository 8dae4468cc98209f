\* A responder with encryption off makes the other store its own key as the responder's.
CONSTANTS
    Node <- MCTwoNodes
    None = None
    MaxRequests = 2
    MaxEvents = 1
SPECIFICATION Spec
INVARIANTS
    KeysOfTheirNode
CHECK_DEADLOCK FALSE
