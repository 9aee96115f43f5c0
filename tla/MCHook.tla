------------------------------- MODULE MCHook -------------------------------
EXTENDS HookBus
MCEffect(input, go, stop) == [input |-> input, go |-> go, stop |-> stop]
MCRequest(source, life, once, bound, phase, effect) ==
    [source |-> source, life |-> life, once |-> once, inherit |-> life = "turn" \/ source = "host", bound |-> bound,
     phase |-> phase, fields |-> IF source = "host" THEN {"stop"} ELSE {}, effect |-> effect]
MCHkRequests ==
    {MCRequest("config", "template", TRUE, FALSE, "PreToolUse", MCEffect(TRUE, TRUE, "none")),
     MCRequest("definition", "session", FALSE, TRUE, "PreToolUse", MCEffect(TRUE, FALSE, "none")),
     MCRequest("definition", "turn", FALSE, TRUE, "Stop", MCEffect(FALSE, TRUE, "continue")),
     MCRequest("host", "template", FALSE, TRUE, "Stop", MCEffect(TRUE, TRUE, "halt"))}
MCHkPayloads == {[phase |-> "PreToolUse", child |-> FALSE], [phase |-> "Stop", child |-> TRUE]}
=============================================================================
