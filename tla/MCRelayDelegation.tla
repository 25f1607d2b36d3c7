------------------------ MODULE MCRelayDelegation ------------------------
EXTENDS RelayDelegation, TLC

CONSTANTS u, a1, a2

NoEarlier == [a \in Attempts |-> {}]
\* The user's attempts and a supervisor's meet only in the peer's ceiling; an
\* instance has either kind.
OneKind ==
    \/ \A a \in Supervised : call[a] = "idle"
    \/ \A a \in Attempts \ Supervised : call[a] = "idle"

Retry == (a2 :> {a1}) @@ NoEarlier
=============================================================================
