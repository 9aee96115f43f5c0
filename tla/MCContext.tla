----------------------------- MODULE MCContext -----------------------------
EXTENDS ContextControl
MCConfig(project, compactAbove, keep) ==
    [project |-> project, compactAbove |-> compactAbove, keep |-> keep]
MCConfigs == {MCConfig(2, 0, 0), MCConfig(0, 3, 1)}
MCProjectAndCompact == {MCConfig(3, 2, 1)}
=============================================================================
