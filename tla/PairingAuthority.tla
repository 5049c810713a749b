-------------------------- MODULE PairingAuthority --------------------------
(***************************************************************************)
(* What the quick-tunnel entry of TailBlink promises, without tunnels,     *)
(* locks, HTTP or clocks: a desktop that offers one-time tickets, exchanges *)
(* a ticket for a bearer token, and lets the holder of the token in force,  *)
(* and nobody else, touch its clipboard.  SimpleService implements it.      *)
(***************************************************************************)
CONSTANTS
    Tickets,    \* every one-time ticket the desktop could ever offer
    Tokens,     \* every bearer token it could ever grant
    None        \* no ticket, no token, no remote user; neither a ticket nor a token

VARIABLES
    offered,    \* the tickets offered so far
    granted,    \* the tokens granted so far
    ticket,     \* the ticket that can be redeemed now, or None
    grant,      \* the token in force now, or None
    enabled,    \* the entry serves phones
    touchedBy   \* the token whose holder last touched what is on the clipboard,
                \* None when the desktop's user put it there

vars == <<offered, granted, ticket, grant, enabled, touchedBy>>

Init ==
    /\ offered = {} /\ granted = {}
    /\ ticket = None /\ grant = None
    /\ enabled = FALSE
    /\ touchedBy = None

\* The desktop shows a new QR; the ticket of the previous one is gone for good.
Offer ==
    /\ \E t \in Tickets \ offered : ticket' = t /\ offered' = offered \cup {t}
    /\ UNCHANGED <<granted, grant, enabled, touchedBy>>

\* A phone trades the ticket for a new token; the token it replaces is gone.
Redeem ==
    /\ enabled /\ ticket # None
    /\ \E k \in Tokens \ granted : grant' = k /\ granted' = granted \cup {k}
    /\ ticket' = None
    /\ UNCHANGED <<offered, enabled, touchedBy>>

\* The ticket runs out.
Expire ==
    /\ ticket' = None
    /\ UNCHANGED <<offered, granted, grant, enabled, touchedBy>>

\* The pairing ends: revoked by the user, or the tunnel is gone.
End ==
    /\ ticket' = None /\ grant' = None
    /\ enabled' \in {enabled, FALSE}
    /\ UNCHANGED <<offered, granted, touchedBy>>

\* The entry is switched on or off; a pairing outlives being switched off.
Switch ==
    /\ enabled' = ~enabled
    /\ UNCHANGED <<offered, granted, ticket, grant, touchedBy>>

\* The holder of the token in force reads or writes the clipboard.
Use ==
    /\ enabled /\ grant # None
    /\ touchedBy' = grant
    /\ UNCHANGED <<offered, granted, ticket, grant, enabled>>

\* The desktop's user copies something.
DesktopCopy ==
    /\ touchedBy' = None
    /\ UNCHANGED <<offered, granted, ticket, grant, enabled>>

Next == Offer \/ Redeem \/ Expire \/ End \/ Switch \/ Use \/ DesktopCopy

Spec == Init /\ [][Next]_vars
=============================================================================
