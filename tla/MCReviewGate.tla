---------------------------- MODULE MCReviewGate ----------------------------
EXTENDS ReviewGate

Deployed(guard, delivery, board, onReject) ==
    [guard |-> guard, delivery |-> delivery, board |-> board, onReject |-> onReject]

\* Shadow mode records states and otherwise acts as off: one is run behind the queue, the
\* other without it.
Chosen == {Deployed("off", "queue", "ddb", "rework"), Deployed("shadow", "direct", "jira", "rework"),
           Deployed("enforce", "queue", "ddb", "rework"), Deployed("enforce", "queue", "jira", "rework"),
           Deployed("enforce", "direct", "jira", "rework"), Deployed("enforce", "queue", "ddb", "hold")}

Enforced == {Deployed("enforce", "queue", "ddb", "rework")}
=============================================================================
