---------------------------- MODULE MCPushAlerts ----------------------------
EXTENDS PushAlerts

CONSTANTS t1, t2, a1, a2, e1, e2

OneApp == <<a1>>
TwoApps == <<a1, a2>>
InOneApp == [t \in Task |-> a1]
InSecondApp == [t \in Task |-> a2]
=============================================================================
