-------------------------- MODULE MCTeams --------------------------
EXTENDS TeamShutdown
MCRole == [c \in Responders |-> IF c = "lead" THEN "leader" ELSE IF c = "app" THEN "host" ELSE "teammate"]
=============================================================================
