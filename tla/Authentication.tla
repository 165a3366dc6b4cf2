---------------------------- MODULE Authentication ----------------------------
(***************************************************************************)
(* An attempt to connect (Connect) and the DNS cache (DnsCache) it ends     *)
(* with: once its client is registered, the task awaits the host name for   *)
(* its log line, while the pollers look up the same address.                *)
(***************************************************************************)
EXTENDS Connect, DnsCache

CONSTANT Auth       \* the caller that is this attempt
ASSUME AuthAssumption == Auth \in Callers

Init == ConnectInit /\ DnsInit

\* The attempt is over once its lookup has given it a name, or failed.
NameArrives ==
    /\ pc = "naming"
    /\ GetHostname(Auth)
    /\ pc' = IF call'[Auth] = Idle THEN "over" ELSE pc
    /\ UNCHANGED <<hand, after, tries, creds, withheld, open, outcome, lost>>

Connects == (Answers \/ Interrupts) /\ UNCHANGED dnsVars

Others ==
    /\ DnsTick \/ \E c \in Callers \ {Auth} : GetHostname(c)
    /\ UNCHANGED connectVars

Next == Connects \/ NameArrives \/ Others

vars == <<connectVars, dnsVars>>

\* Every request to a device and every lookup is answered or times out.
Fairness == WF_vars(Answers /\ UNCHANGED dnsVars) /\ WF_vars(NameArrives)

Spec == Init /\ [][Next]_vars /\ Fairness
==============================================================================
