\* mcp_transport.py:172, a server of any kind that does not die.
SPECIFICATION Spec
CONSTANTS
    t1 = t1  t2 = t2
    Callers <- MCCallers
    Nobody = Nobody
    MaxCalls = 3
    MaxDeaths = 0
INVARIANTS
    EveryAnswerIsOwn
