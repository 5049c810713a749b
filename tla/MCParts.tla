------------------------------- MODULE MCParts -------------------------------
\* Three small parts of the program that hold a state of their own and that nobody
\* else looks into, checked one at a time: the parser of cloudflared's output, the
\* limiter of the clipboard API, and the log.
EXTENDS UrlOutput, RateLimiter, RotatingLog

VARIABLE part

\* Two addresses that overlap, of characters that other output contains as well, and a
\* character that ends a word.
MCCharacters == {"h", "a", "-"}
MCWordCharacters == {"h", "a"}
MCAddresses  == {<<"h", "h", "a">>, <<"h", "a", "a">>}

PartsInit ==
    /\ part \in {"output", "limiter", "log"}
    /\ Init /\ LimiterInit /\ LogInit

PartsNext ==
    /\ UNCHANGED part
    /\ \/ part = "output" /\ Next /\ UNCHANGED <<limiterVars, logVars>>
       \/ part = "limiter" /\ LimiterNext /\ UNCHANGED <<outputVars, logVars>>
       \/ part = "log" /\ LogNext /\ UNCHANGED <<outputVars, limiterVars>>

PartsSpec == PartsInit /\ [][PartsNext]_<<part, outputVars, limiterVars, logVars>>
=============================================================================
