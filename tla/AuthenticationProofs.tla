------------------------- MODULE AuthenticationProofs -------------------------
(***************************************************************************)
(* For every number of clients, callers and tries, and every TTL: an        *)
(* attempt to connect implements Attempt, and the DNS cache never serves a  *)
(* name older than its TTL.                                                 *)
(*                                                                          *)
(* Both rest on one inductive invariant each.  ConnectInv: the open         *)
(* sessions nobody lost are exactly the one in hand, and a client is in     *)
(* hand at exactly the awaits that need one.  DnsInv: the name of an entry, *)
(* or of an answer, was read after the time it is stamped with was taken.   *)
(***************************************************************************)
EXTENDS Authentication, TLAPS

Hand == IF hand = None THEN {} ELSE {hand}

ConnectInv ==
    /\ TypeOK
    /\ open \ lost = Hand /\ lost \subseteq open
    /\ pc \in Bare => hand = None
    /\ pc \in Updates \cup {"closing", "naming"} => hand \in Clients
    /\ outcome = "pending" <=> pc \notin {"naming", "over"}
    /\ outcome = "registered" => hand \in Clients

-----------------------------------------------------------------------------
\* The invariant holds at first.
LEMMA ConnectInvInit == ConnectInit => ConnectInv
<1> SUFFICES ASSUME ConnectInit PROVE ConnectInv
  OBVIOUS
<1> USE ConnectAssumption DEF ConnectInit
<1>1. creds \in BOOLEAN /\ withheld \in BOOLEAN
  <2>1. withheld \in {FALSE, ~creds} => withheld \in BOOLEAN
    BY Zenon
  <2> QED
    BY <2>1, Zenon
<1>2. \/ pc = "probing" /\ tries = MaxTries /\ hand \in Clients /\ open = {hand}
      \/ pc = "resolving" /\ tries = 0 /\ hand = None /\ open = {}
  BY Zenon
<1>3. TypeOK
  BY <1>1, <1>2 DEF TypeOK, Bare, Updates, Fallbacks
<1> QED
  BY <1>2, <1>3 DEF ConnectInv, Hand, Bare, Updates

\* How a call ends keeps the client in hand and the outcome in step with pc.
LEMMA RaisesEnds ==
  ASSUME NEW about \in BOOLEAN, ConnectInv, Raises(about), outcome = "pending"
  PROVE  /\ hand' = None /\ pc' \in {"resolving", "over"}
         /\ tries' \in 0..MaxTries /\ creds' \in BOOLEAN /\ after' = "none"
         /\ \/ pc' = "resolving" /\ outcome' = "pending"
            \/ pc' = "over" /\ outcome' = "failed"
<1> USE ConnectAssumption
<1>0. tries \in 0..MaxTries /\ creds \in BOOLEAN
  BY DEF ConnectInv, TypeOK
<1>1. CASE tries > 1 /\ CallAgain(TriesLeft, creds)
  BY <1>0, <1>1 DEF CallAgain, TriesLeft
<1>2. CASE CallAgain(0, FALSE)
  <2>1. creds' \in BOOLEAN /\ tries' = 0 /\ pc' = "resolving" /\ hand' = None
        /\ after' = "none" /\ outcome' = outcome
    BY <1>2, Zenon DEF CallAgain
  <2> QED
    BY <2>1
<1>3. CASE Ends("failed")
  BY <1>0, <1>3 DEF Ends
<1> QED
  BY <1>1, <1>2, <1>3, Zenon DEF Raises

\* Every await of an attempt keeps the invariant.
LEMMA ConnectInvAnswers == ConnectInv /\ Answers => ConnectInv'
<1> SUFFICES ASSUME ConnectInv, Answers PROVE ConnectInv'
  OBVIOUS
<1> USE ConnectAssumption
        DEF ConnectInv, TypeOK, Hand, Bare, Updates, Fallbacks
<1>1. CASE ProbeAnswers
  BY <1>1 DEF ProbeAnswers, Returns
<1>2. CASE ProbeFails
  BY <1>2 DEF ProbeFails, Closes
<1>3. CASE Resolved
  BY <1>3 DEF Resolved
<1>4. CASE ResolveFails
  BY <1>4, RaisesEnds DEF ResolveFails
<1>5. CASE SingleFails
  BY <1>5 DEF SingleFails
<1>6. CASE UpdateAnswers
  BY <1>6 DEF UpdateAnswers, Returns
<1>7. CASE UpdateFails
  BY <1>7 DEF UpdateFails, Closes
<1>8. CASE SettleFails
  BY <1>8 DEF SettleFails, Closes
<1>9. ASSUME NEW c \in Clients, SingleAnswers(c) PROVE ConnectInv'
  BY <1>9 DEF SingleAnswers, Builds
<1>10. ASSUME NEW c \in Clients, DirectAnswers(c) PROVE ConnectInv'
  BY <1>10 DEF DirectAnswers, Builds
<1>11. ASSUME NEW about \in BOOLEAN, DirectFails(about) PROVE ConnectInv'
  BY <1>11, RaisesEnds DEF DirectFails
<1>12. ASSUME NEW about \in BOOLEAN, Closed(about) PROVE ConnectInv'
  BY <1>12, RaisesEnds DEF Closed, CallAgain, Ends
<1> QED
  BY <1>1, <1>2, <1>3, <1>4, <1>5, <1>6, <1>7, <1>8, <1>9, <1>10, <1>11, <1>12
     DEF Answers

\* So does every cancellation.
LEMMA ConnectInvInterrupts == ConnectInv /\ Interrupts => ConnectInv'
<1> SUFFICES ASSUME ConnectInv, NEW why \in {"timeout", "cancelled"},
                    \/ Interrupted(why) \/ InterruptedBare(why) \/ InterruptedForgets(why)
             PROVE  ConnectInv'
  BY DEF Interrupts
<1> USE ConnectAssumption
        DEF ConnectInv, TypeOK, Hand, Bare, Updates, Fallbacks
<1>1. CASE Interrupted(why)
  BY <1>1 DEF Interrupted, HasHandler, Closes
<1>2. CASE InterruptedBare(why)
  BY <1>2, RaisesEnds DEF InterruptedBare, Unwinds, Ends
<1>3. CASE InterruptedForgets(why)
  BY <1>3, RaisesEnds DEF InterruptedForgets, Unwinds, Ends
<1> QED
  BY <1>1, <1>2, <1>3

\* The name lookup, and the others' steps, leave the attempt's clients alone.
LEMMA ConnectInvRest == ConnectInv /\ (NameArrives \/ UNCHANGED connectVars) => ConnectInv'
  BY DEF ConnectInv, TypeOK, Hand, Bare, Updates, Fallbacks, NameArrives, connectVars

LEMMA ConnectInvNext == ConnectInv /\ [Next]_vars => ConnectInv'
  BY ConnectInvAnswers, ConnectInvInterrupts, ConnectInvRest
     DEF Next, Connects, Others, vars

\* The invariant holds throughout.
THEOREM ConnectInvHolds == Spec => []ConnectInv
<1>1. Init => ConnectInv
  BY ConnectInvInit DEF Init
<1> QED
  BY <1>1, ConnectInvNext, PTL DEF Spec

\* Every variable of an attempt is in its range; the calls of get_device left never exceed
\* max_retries (_authenticate_device_with_retry).
THEOREM TypeCorrect == Spec => []TypeOK
<1>1. ConnectInv => TypeOK
  BY DEF ConnectInv
<1> QED
  BY <1>1, ConnectInvHolds, PTL

-----------------------------------------------------------------------------
(* The refinement. *)

LEMMA AttemptInits == ConnectInit => A!AttemptInit
<1> SUFFICES ASSUME ConnectInit PROVE A!AttemptInit
  OBVIOUS
<1>1. lost = {} /\ outcome = "pending" /\ (open = {} \/ \E c \in Clients : open = {c})
  BY Zenon DEF ConnectInit
<1> QED
  BY <1>1 DEF A!AttemptInit, Result

\* Whatever an await of an attempt comes to is a step of Attempt, or none.
LEMMA AnswersImplement ==
  ConnectInv /\ ConnectInv' /\ Answers => [A!AttemptNext]_A!attemptVars
<1> SUFFICES ASSUME ConnectInv, ConnectInv', Answers
             PROVE  A!AttemptNext \/ UNCHANGED A!attemptVars
  OBVIOUS
<1> USE DEF ConnectInv, Hand, Bare, Updates, Result,
            A!AttemptNext, A!Open, A!Close, A!Ready, A!GiveUp, A!attemptVars
<1>1. CASE ProbeAnswers \/ UpdateAnswers
  BY <1>1, ConnectAssumption DEF ProbeAnswers, UpdateAnswers, Returns
<1>2. CASE ProbeFails \/ UpdateFails \/ SettleFails \/ Resolved \/ SingleFails
  BY <1>2 DEF ProbeFails, UpdateFails, SettleFails, Resolved, SingleFails, Closes
<1>3. CASE ResolveFails
  BY <1>3, RaisesEnds DEF ResolveFails, TypeOK
<1>4. ASSUME NEW c \in Clients, SingleAnswers(c) \/ DirectAnswers(c)
      PROVE  A!Open
  BY <1>4, ConnectAssumption DEF SingleAnswers, DirectAnswers, Builds
<1>5. ASSUME NEW about \in BOOLEAN, DirectFails(about)
      PROVE  A!GiveUp \/ UNCHANGED A!attemptVars
  BY <1>5, RaisesEnds DEF DirectFails
<1>6. ASSUME NEW about \in BOOLEAN, Closed(about)
      PROVE  A!Close \/ A!GiveUp
  BY <1>6, RaisesEnds, ConnectAssumption DEF Closed, CallAgain, Ends
<1> QED
  BY <1>1, <1>2, <1>3, <1>4, <1>5, <1>6 DEF Answers

\* And so is a cancellation: it closes, gives up, or lets the session be lost.
LEMMA InterruptsImplement ==
  ConnectInv /\ ConnectInv' /\ Interrupts => [A!AttemptNext]_A!attemptVars
<1> SUFFICES ASSUME ConnectInv, ConnectInv', NEW why \in {"timeout", "cancelled"},
                    \/ Interrupted(why) \/ InterruptedBare(why) \/ InterruptedForgets(why)
             PROVE  A!AttemptNext \/ UNCHANGED A!attemptVars
  BY DEF Interrupts
<1> USE ConnectAssumption
        DEF ConnectInv, Hand, Bare, Updates, Result,
            A!AttemptNext, A!Close, A!GiveUp, A!attemptVars
<1>1. CASE Interrupted(why)
  BY <1>1 DEF Interrupted, Closes
<1>2. CASE InterruptedBare(why)
  BY <1>2, RaisesEnds DEF InterruptedBare, Unwinds, Ends
<1>3. CASE InterruptedForgets(why)
  BY <1>3, RaisesEnds DEF InterruptedForgets, Unwinds, Ends
<1> QED
  BY <1>1, <1>2, <1>3

LEMMA RestImplements ==
  ConnectInv /\ (NameArrives \/ UNCHANGED connectVars) => UNCHANGED A!attemptVars
  BY DEF NameArrives, connectVars, A!attemptVars, Result

\* An attempt, with its strategies, retries, time limits and cancellations, implements
\* Attempt: at most one session at a time that is not lost, and at its end the caller's
\* client, or none.
THEOREM Implements == Spec => ImplementsAttempt
<1>1. Init => A!AttemptInit
  BY AttemptInits DEF Init
<1>2. ConnectInv /\ ConnectInv' /\ [Next]_vars => [A!AttemptNext]_A!attemptVars
  BY AnswersImplement, InterruptsImplement, RestImplements
     DEF Next, Connects, Others, vars
<1> QED
  BY <1>1, <1>2, ConnectInvHolds, PTL DEF Spec, ImplementsAttempt, A!AttemptSpec

-----------------------------------------------------------------------------
(* The DNS cache. *)

DnsInv ==
    /\ DnsTypeOK
    /\ entry.kind = "entry" => entry.read <= entry.stamp
    /\ \A c \in Callers : call[c].at = "answered" => call[c].read <= call[c].since
    /\ ServedIsFresh

LEMMA DnsInvInit == DnsInit => DnsInv
  BY TTLAssumption
     DEF DnsInit, DnsInv, DnsTypeOK, ServedIsFresh, NoEntry, Idle

\* An older age is one tick more, or TTL: ages keep their order.
LEMMA OlderKeeps ==
  ASSUME NEW m \in Ages, NEW n \in Ages
  PROVE  Older(m) \in Ages /\ (m <= n => Older(m) <= Older(n))
  BY TTLAssumption DEF Older, Ages

\* A lookup of any caller keeps the invariant, in whatever order lookups end.
LEMMA DnsInvLookup ==
  ASSUME DnsInv, NEW c \in Callers, GetHostname(c) PROVE DnsInv'
<1> USE TTLAssumption DEF DnsInv, DnsTypeOK, ServedIsFresh, Ages, NoEntry, Entry, Idle,
                          Looking, Answered
<1>1. CASE Hit(c)
  BY <1>1 DEF Hit, Fresh
<1>2. CASE Miss(c)
  BY <1>2 DEF Miss
<1>3. CASE Resolve(c)
  BY <1>3 DEF Resolve
<1>4. CASE Store(c)
  BY <1>4 DEF Store, StampOf
<1>5. CASE LookupEnds(c)
  BY <1>5 DEF LookupEnds
<1> QED
  BY <1>1, <1>2, <1>3, <1>4, <1>5 DEF GetHostname

LEMMA DnsInvTick == DnsInv /\ DnsTick => DnsInv'
  BY OlderKeeps DEF DnsInv, DnsTypeOK, DnsTick, ServedIsFresh, NoEntry, Entry, Idle,
                    Looking, Answered

LEMMA DnsInvNext == DnsInv /\ [Next]_vars => DnsInv'
<1>1. ASSUME DnsInv, UNCHANGED dnsVars PROVE DnsInv'
  BY <1>1 DEF DnsInv, DnsTypeOK, ServedIsFresh, dnsVars
<1> QED
  BY <1>1, DnsInvLookup, DnsInvTick, AuthAssumption
     DEF Next, Connects, NameArrives, Others, vars

\* A name the cache serves was read less than TTL ago, for any number of lookups that
\* overlap and end in any order.
THEOREM ServesFresh == Spec => []ServedIsFresh
<1>1. Init => DnsInv
  BY DnsInvInit DEF Init
<1>2. DnsInv => ServedIsFresh
  BY DEF DnsInv
<1> QED
  BY <1>1, <1>2, DnsInvNext, PTL DEF Spec
==============================================================================
