-------------------------- MODULE ClientHandleProofs --------------------------
(***************************************************************************)
(* The device manager and the poller together implement ClientHandle, for   *)
(* any number of addresses, clients and DEVICE_HOSTS entries of either      *)
(* kind; and what emeter_devices holds is registered.                       *)
(*                                                                          *)
(* HandleInv adds to IInv that a client whose close was cut short is out of *)
(* everyone's hands, that what is polled is registered under its key, and   *)
(* what the absence of names means: an add finds nothing registered at its  *)
(* key, so no client is excused, and what is polled at a key is the very    *)
(* client registered there.                                                 *)
(*                                                                          *)
(* EveryStep is the simulation: what a step does to each client that is not *)
(* excused is a step of its handle.  That the cut clients stay apart        *)
(* follows from the simulation, as no handle leaves "lost".                 *)
(***************************************************************************)
EXTENDS ClientLifecycleProofs

NoNames == Entries \subseteq Keys

AddsAreNew ==
    \A e \in Entries :
        /\ manual[e] \in {None, e}
        /\ adder[e].pc # "closing"
        /\ adder[e].pc = "connecting" => devices[e] = None

PolledIsRegistered == \A k \in Keys : emeter[k] # None => devices[k] # None
PolledIsTheRegistered == \A k \in Keys : emeter[k] # None => emeter[k] = devices[k]
CutIsApart == \A c \in cut \ raced : ~Registered(c) /\ ~Held(c) /\ ~InHand(c)

Nameless == AddsAreNew /\ raced = {} /\ PolledIsTheRegistered

HandleInv == IInv /\ CutIsApart /\ PolledIsRegistered /\ (NoNames => Nameless)

USE NoneAssumption
USE DEF discoveryVars, historyVars, pollerVars, Polled, IsCurrent, Hold, LastHold, InUse, Swap,
        Unregister, AddsOver, PassCancelled, ReconnectsOver

-----------------------------------------------------------------------------
(* emeter_devices. *)

LEMMA PolledIsRegisteredNext ==
  ASSUME TypeOK, PolledIsRegistered, [Next]_vars PROVE PolledIsRegistered'
<1> USE DEF TypeOK, ClientOrNone
<1>1. CASE UNCHANGED <<devices, emeter>>
  BY <1>1 DEF PolledIsRegistered
<1>2. ASSUME NEW k \in Keys, NEW c \in Clients,
             devices' = [devices EXCEPT ![k] = c],
             emeter' = emeter \/ emeter' = [emeter EXCEPT ![k] = c]
                       \/ emeter' = [emeter EXCEPT ![k] = None]
                       \/ (devices[k] # None /\ \A j \in Keys \ {k} : emeter'[j] = emeter[j])
      PROVE  PolledIsRegistered'
  BY <1>2 DEF PolledIsRegistered
<1>3. ASSUME NEW k \in Keys, Unregister(k) PROVE PolledIsRegistered'
  BY <1>3 DEF PolledIsRegistered
<1>4. ASSUME NEW k \in Keys, NEW n \in Clients, ReconnectSwaps(k, n)
      PROVE  PolledIsRegistered'
  <2>1. devices' = [devices EXCEPT ![k] = n]
        /\ emeter' = [emeter EXCEPT ![k] = IF @ = reconnect[k].client THEN n ELSE @]
    BY <1>4 DEF ReconnectSwaps
  <2> QED
    BY <2>1 DEF PolledIsRegistered
<1>5. ASSUME NEW k \in Keys, ReconnectNext(k) PROVE PolledIsRegistered'
  BY <1>1, <1>4, <1>5 DEF ReconnectNext, RequestReconnect, ReconnectFails, ReconnectTooLate,
                          ReconnectClosed
<1>6. ASSUME NEW e \in Entries, AddNext(e) PROVE PolledIsRegistered'
  <2>1. ASSUME NEW k \in Keys, NEW c \in Clients, NEW energy \in BOOLEAN,
               AddConnects(e, k, c, energy)
        PROVE  PolledIsRegistered'
    BY <1>1, <1>2, <2>1 DEF AddConnects, Register
  <2>2. ASSUME NEW energy \in BOOLEAN, AddCloses(e, energy) PROVE PolledIsRegistered'
    <3>1. adder[e].key \in Keys /\ adder[e].new \in Clients
      BY <2>2 DEF AddCloses
    <3> QED
      BY <1>2, <2>2, <3>1 DEF AddCloses, Register
  <2>3. CASE AddFails(e) \/ AddCancelled(e)
    BY <1>1, <2>3 DEF AddFails, AddCancelled
  <2> QED
    BY <1>6, <2>1, <2>2, <2>3 DEF AddNext, Resolves
<1>7. ASSUME NEW e \in Entries, DropMoved(e) PROVE PolledIsRegistered'
  <2>1. manual[e] \in Keys
    BY <1>7 DEF DropMoved
  <2> QED
    BY <1>1, <1>3, <1>7, <2>1 DEF DropMoved
<1>8. ASSUME NEW k \in Keys, NEW c \in Clients, NEW energy \in BOOLEAN,
             RegisterFound(k, c, energy)
      PROVE  PolledIsRegistered'
  BY <1>2, <1>8 DEF RegisterFound, Register
<1>9. CASE DisconnectAll
  BY <1>9 DEF DisconnectAll, PolledIsRegistered
<1>10. CASE \/ \E l \in Loops : CycleStart(l)
            \/ \E t \in Fetches : FetchNext(t)
            \/ PassStart \/ AddsStart \/ AddsEnd \/ DropClosed \/ PruneEnd \/ PassEnd
            \/ Shutdown \/ CloseReconnects \/ BeginDisconnect \/ Terminated \/ UNCHANGED vars
  BY <1>1, <1>10 DEF CycleStart, FetchNext, FetchBegin, FetchSkip, FetchUpdate, FetchEnd,
                     FetchClosed, PassStart, AddsStart, AddsEnd, DropClosed, PruneEnd, PassEnd,
                     Shutdown, CloseReconnects, BeginDisconnect, Terminated, vars
<1> QED
  BY <1>3, <1>5, <1>6, <1>7, <1>8, <1>9, <1>10
  DEF Next, DiscoveryNext, ShutdownNext, Prune

-----------------------------------------------------------------------------
(* What is known of one client. *)

\* What IInv says of a client that is not excused, one fact at a time.
LEMMA ClientFacts ==
  ASSUME IInv, NEW c \in Clients \ raced
  PROVE  /\ inFlight[c] \in Nat /\ (inFlight[c] = 0 <=> ~Held(c))
         /\ session[c] \in {"open", "closed"}
         /\ Held(c) \/ Registered(c) \/ InHand(c) => session[c] = "open" /\ ~Closing(c)
         /\ InHand(c) => ~Registered(c) /\ ~Held(c)
         /\ c \in retiring => ~Registered(c) /\ Held(c)
         /\ session[c] = "open" /\ c \notin cut =>
              Registered(c) \/ InHand(c) \/ Closing(c) \/ (c \in retiring /\ Held(c))
<1>1. TypeOK /\ SafeClient(c) /\ Shape /\ AddersApart
  BY SafeByClient, TypeShape DEF IInv
<1>2. InHand(c) => session[c] = "open" /\ ~Closing(c) /\ ~Registered(c) /\ ~Held(c)
  <2> SUFFICES ASSUME NEW e \in Entries, adder[e].new = c
               PROVE  session[c] = "open" /\ ~Closing(c) /\ ~Registered(c) /\ ~Held(c)
    BY DEF InHand
  <2>1. adder[e].pc = "closing"
    BY <1>1 DEF AddersApart
  <2> QED
    BY <1>1, <2>1, InHandApart
<1>3. inFlight[c] \in Nat /\ (inFlight[c] = 0 <=> ~Held(c))
  BY HeldCounted DEF IInv
<1>4. c \in retiring => inFlight[c] > 0
  BY DEF IInv, RetiringHeld
<1> QED
  BY <1>1, <1>2, <1>3, <1>4 DEF SafeClient, TypeOK

\* The client a step registers is one nobody refers to.
LEMMA NewClient ==
  ASSUME IInv, NEW n \in Clients, Fresh(n)
  PROVE  /\ Life(n) = "none" /\ inFlight[n] = 0 /\ n \notin raced
         /\ ~Registered(n) /\ ~Closing(n) /\ ~Held(n) /\ ~InHand(n)
  BY FreshApart, ClientFacts DEF Life

LEMMA LifeOf ==
  ASSUME IInv, CutIsApart, NEW c \in Clients \ raced
  PROVE  /\ Registered(c) => Life(c) = "live" /\ ~InHand(c)
         /\ Held(c) /\ ~Registered(c) => Life(c) = "leaving" /\ c \notin cut /\ ~InHand(c)
         /\ Closing(c) => /\ Life(c) = "closing" /\ inFlight[c] = 0
                          /\ ~Registered(c) /\ ~Held(c) /\ ~InHand(c)
         /\ InHand(c) => Life(c) = "new" /\ inFlight[c] = 0
<1>1. c \in cut => ~Registered(c) /\ ~Held(c) /\ ~InHand(c)
  BY DEF CutIsApart
<1> QED
  BY <1>1, ClientFacts DEF Life

-----------------------------------------------------------------------------
(* What a step may do to a client, in terms of ClientHandle. *)

Changes ==
    {<<"none", "live">>, <<"none", "new">>, <<"none", "closing">>, <<"new", "live">>,
     <<"new", "lost">>, <<"live", "closing">>, <<"closing", "none">>, <<"closing", "lost">>,
     <<"live", "none">>}

Step(c) ==
    \/ Life(c)' = Life(c) /\ inFlight'[c] = inFlight[c]
    \/ inFlight[c] = 0 /\ inFlight'[c] = 0 /\ <<Life(c), Life(c)'>> \in Changes
    \/ inFlight'[c] = inFlight[c] + 1 /\ Life(c) = "live" /\ Life(c)' = "live"
    \/ /\ inFlight[c] > 0 /\ inFlight'[c] = inFlight[c] - 1
       /\ \/ Life(c) = "live" /\ Life(c)' = "live"
          \/ inFlight[c] > 1 /\ Life(c) = "leaving" /\ Life(c)' = "leaving"
          \/ inFlight[c] = 1 /\ Life(c) = "leaving" /\ Life(c)' = "closing"
    \/ /\ inFlight[c] > 0 /\ inFlight'[c] = inFlight[c]
       /\ Life(c) = "live" /\ Life(c)' = "leaving"

LEMMA StepsImplement ==
  ASSUME raced \subseteq raced', \A c \in Clients \ raced' : Step(c)
  PROVE  Handle!HandleNext
<1> SUFFICES ASSUME NEW c \in Clients \ raced' PROVE Handle!HandleStep(c)
  BY DEF Handle!HandleNext
<1>1. Step(c)
  OBVIOUS
<1> QED
  BY <1>1 DEF Step, Changes, Handle!HandleStep, Handle!Connect, Handle!Settle, Handle!Use,
              Handle!Leave, Handle!Drop, Handle!Close, Handle!Stays, Handle!Moves, Handle!Idle

Unmoved(c) ==
    /\ Registered(c)' <=> Registered(c)
    /\ Closing(c)' <=> Closing(c)
    /\ InHand(c)' <=> InHand(c)
    /\ session'[c] = session[c]
    /\ c \in cut' <=> c \in cut
    /\ inFlight'[c] = inFlight[c]

LEMMA UnmovedSteps == ASSUME NEW c, Unmoved(c) PROVE Step(c)
  BY DEF Unmoved, Step, Life

\* A close that ends, or is cut short.
LEMMA CloseSteps ==
  ASSUME IInv, CutIsApart, NEW c \in Clients \ raced, NEW d \in Clients, Closing(d),
         Finished(d) \/ CutShort(d), UNCHANGED <<devices, inFlight, adder>>,
         c # d => (Closing(c)' <=> Closing(c)), Closing(c)' => Closing(c)
  PROVE  Step(c)
<1>1. session \in [Clients -> {"open", "closed"}]
  BY DEF IInv, TypeOK
<1>2. (Registered(c)' <=> Registered(c)) /\ (InHand(c)' <=> InHand(c))
  BY Frame
<1>3. CASE c # d
  BY <1>1, <1>2, <1>3, UnmovedSteps DEF Finished, CutShort, Unmoved
<1>4. CASE c = d
  <2>1. Life(c) = "closing" /\ inFlight[c] = 0 /\ inFlight'[c] = 0
        /\ ~Registered(c)' /\ ~InHand(c)'
    BY <1>2, <1>4, LifeOf
  <2>2. session'[c] = "closed" \/ (session'[c] = session[c] /\ c \in cut')
    BY <1>1, <1>4 DEF Finished, CutShort
  <2>3. Life(c)' \in {"closing", "none", "lost"}
    BY <1>1, <2>1, <2>2 DEF Life
  <2> QED
    BY <2>1, <2>3 DEF Step, Changes
<1> QED
  BY <1>3, <1>4

-----------------------------------------------------------------------------
(* The poller's steps. *)

LEMMA PollerUnmoved ==
  ASSUME Shape, NEW c \in Clients,
         \/ \E l \in Loops : CycleStart(l)
         \/ \E t \in Fetches : FetchSkip(t)
         \/ \E k \in Keys : RequestReconnect(k) \/ ReconnectFails(k)
  PROVE  Step(c)
<1>1. \A t \in Fetches : fetch'[t] = fetch[t]
                         \/ (fetch[t].pc # "closing" /\ fetch'[t].pc # "closing")
  <2>1. ASSUME NEW l \in Loops, CycleStart(l), NEW t \in Fetches
        PROVE  fetch'[t] = fetch[t] \/ (fetch[t].pc = "idle" /\ fetch'[t].pc = "spawned")
    BY <2>1 DEF CycleStart, Fetches
  <2>2. ASSUME NEW u \in Fetches, FetchSkip(u), NEW t \in Fetches
        PROVE  fetch'[t] = fetch[t] \/ (fetch[t].pc = "spawned" /\ fetch'[t].pc = "idle")
    BY <2>2 DEF FetchSkip, NoFetch, Shape
  <2>3. ASSUME NEW k \in Keys, RequestReconnect(k) \/ ReconnectFails(k)
        PROVE  fetch' = fetch
    BY <2>3 DEF RequestReconnect, ReconnectFails
  <2> QED
    BY <2>1, <2>2, <2>3
<1>2. \A k \in Keys : reconnect'[k] = reconnect[k]
                      \/ (reconnect[k].pc # "closing" /\ reconnect'[k].pc # "closing")
  <2>1. ASSUME NEW j \in Keys, RequestReconnect(j), NEW k \in Keys
        PROVE  reconnect'[k] = reconnect[k]
               \/ (reconnect[k].pc = "idle" /\ reconnect'[k].pc = "connecting")
    BY <2>1 DEF RequestReconnect, Shape
  <2>2. ASSUME NEW j \in Keys, ReconnectFails(j), NEW k \in Keys
        PROVE  reconnect'[k] = reconnect[k]
               \/ (reconnect[k].pc = "connecting" /\ reconnect'[k].pc = "idle")
    BY <2>2 DEF ReconnectFails, NoReconnect, Shape
  <2>3. (\E l \in Loops : CycleStart(l)) \/ (\E t \in Fetches : FetchSkip(t))
          => reconnect' = reconnect
    BY DEF CycleStart, FetchSkip
  <2> QED
    BY <2>1, <2>2, <2>3
<1>3. UNCHANGED <<devices, session, inFlight, adder, dropping, cut>>
  BY DEF CycleStart, FetchSkip, RequestReconnect, ReconnectFails
<1>4. Closing(c)' <=> Closing(c)
  BY <1>1, <1>2, <1>3 DEF Closing, ClosedByFetch, ClosedByReconnect, ClosedByAdder
<1> QED
  BY <1>3, <1>4, Frame, UnmovedSteps DEF Unmoved

LEMMA FetchBeginSteps ==
  ASSUME IInv, CutIsApart, Shape, NEW c \in Clients \ raced, NEW t \in Fetches, FetchBegin(t)
  PROVE  Step(c)
<1> DEFINE d == fetch[t].client
<1>1. /\ devices[t[2]] = d /\ t[2] \in Keys /\ d \in Clients
      /\ inFlight' = [inFlight EXCEPT ![d] = @ + 1]
      /\ fetch' = [fetch EXCEPT ![t] = [pc |-> "running", client |-> d]]
      /\ fetch[t].pc = "spawned"
      /\ UNCHANGED <<devices, session, reconnect, adder, dropping, cut>>
  BY DEF FetchBegin, Fetches, Shape
<1>2. Registered(d) /\ (Registered(c)' <=> Registered(c))
  BY <1>1 DEF Registered
<1>3. ClosedByFetch(c)' <=> ClosedByFetch(c)
  BY <1>1 DEF ClosedByFetch, Shape
<1>4. Life(c)' = Life(c)
  BY <1>1, <1>2, <1>3, Frame DEF Life, Closing
<1>5. inFlight \in [Clients -> Nat]
  BY DEF IInv, TypeOK
<1> QED
  BY <1>1, <1>2, <1>4, <1>5, LifeOf DEF Step

LEMMA FetchUpdateSteps ==
  ASSUME IInv, CutIsApart, Shape, NEW c \in Clients \ raced, NEW t \in Fetches, FetchUpdate(t)
  PROVE  Step(c)
<1> DEFINE d == fetch[t].client
<1>1. /\ d \in Clients /\ Held(d) /\ session' = [session EXCEPT ![d] = "open"]
      /\ UNCHANGED <<devices, fetch, reconnect, adder, dropping, inFlight, cut>>
  BY DEF FetchUpdate, Shape, Held
<1>2. session'[c] = session[c]
  BY <1>1, ClientFacts DEF Shape
<1> QED
  BY <1>1, <1>2, Frame, UnmovedSteps DEF Unmoved, Closing

LEMMA FetchEndSteps ==
  ASSUME IInv, CutIsApart, Shape, NEW c \in Clients \ raced, NEW t \in Fetches, FetchEnd(t)
  PROVE  Step(c)
<1> DEFINE d == fetch[t].client
           last == inFlight[d] <= 1
<1>1. /\ d \in Clients /\ Held(d)
      /\ UNCHANGED <<devices, session, reconnect, adder, dropping, cut>>
      /\ inFlight' = [inFlight EXCEPT ![d] = IF last THEN 0 ELSE @ - 1]
      /\ fetch[t].pc = "running"
  BY DEF FetchEnd, Shape, Held
<1>2. IF last /\ d \in retiring
      THEN fetch' = [fetch EXCEPT ![t] = [pc |-> "closing", client |-> d]]
      ELSE fetch' = [fetch EXCEPT ![t] = NoFetch]
  BY DEF FetchEnd
<1>3. (Registered(c)' <=> Registered(c)) /\ (InHand(c)' <=> InHand(c))
  BY <1>1, Frame
<1>4. ClosedByFetch(c)' <=> ClosedByFetch(c) \/ (c = d /\ last /\ d \in retiring)
  BY <1>1, <1>2 DEF ClosedByFetch, Shape, NoFetch
<1>5. Closing(c)' <=> Closing(c) \/ (c = d /\ last /\ d \in retiring)
  BY <1>1, <1>4, Frame DEF Closing
<1>6. inFlight \in [Clients -> Nat]
  BY DEF IInv, TypeOK
<1>7. CASE c # d
  BY <1>1, <1>3, <1>5, <1>6, <1>7, UnmovedSteps DEF Unmoved
<1>8. CASE c = d
  <2>1. /\ inFlight[c] > 0 /\ inFlight[c] \in Nat /\ inFlight'[c] = inFlight[c] - 1
        /\ session[c] = "open" /\ ~Closing(c) /\ ~InHand(c) /\ (c \in cut => Registered(c))
    BY <1>1, <1>6, <1>8, ClientFacts, LifeOf
  <2>2. last <=> inFlight[c] = 1
    BY <1>8, <2>1
  <2>3. Registered(c) \/ c \in retiring
    BY <2>1, ClientFacts
  <2>4. c \in retiring => ~Registered(c)
    BY ClientFacts
  <2>5. CASE last /\ c \in retiring
    BY <1>5, <1>8, <2>1, <2>2, <2>4, <2>5 DEF Step, Life
  <2>6. CASE ~(last /\ c \in retiring)
    <3>1. /\ ~Closing(c)' /\ session'[c] = "open" /\ ~InHand(c)'
          /\ (c \in cut' => Registered(c)')
      BY <1>1, <1>3, <1>5, <1>8, <2>1, <2>6
    <3> QED
      BY <1>3, <2>1, <2>2, <2>3, <2>6, <3>1 DEF Step, Life
  <2> QED
    BY <2>5, <2>6
<1> QED
  BY <1>7, <1>8

LEMMA FetchClosedSteps ==
  ASSUME IInv, CutIsApart, Shape, NEW c \in Clients \ raced, NEW t \in Fetches, FetchClosed(t)
  PROVE  Step(c)
<1> DEFINE d == fetch[t].client
<1>1. /\ d \in Clients /\ fetch[t].pc = "closing" /\ fetch' = [fetch EXCEPT ![t] = NoFetch]
      /\ UNCHANGED <<devices, inFlight, reconnect, adder, dropping>>
      /\ Finished(d) \/ CutShort(d)
  BY DEF FetchClosed, Shape
<1>2. Closing(d)
  BY <1>1 DEF Closing, ClosedByFetch
<1>3. /\ c # d => (ClosedByFetch(c)' <=> ClosedByFetch(c))
      /\ ClosedByFetch(c)' => ClosedByFetch(c)
  BY <1>1 DEF ClosedByFetch, Shape, NoFetch
<1>4. (c # d => (Closing(c)' <=> Closing(c))) /\ (Closing(c)' => Closing(c))
  BY <1>1, <1>3, Frame DEF Closing
<1> QED
  BY <1>1, <1>2, <1>4, CloseSteps

LEMMA ReconnectClosedSteps ==
  ASSUME IInv, CutIsApart, Shape, NEW c \in Clients \ raced, NEW k \in Keys, ReconnectClosed(k)
  PROVE  Step(c)
<1> DEFINE d == reconnect[k].client
<1>1. /\ d \in Clients /\ reconnect[k].pc = "closing"
      /\ reconnect' = [reconnect EXCEPT ![k] = NoReconnect]
      /\ UNCHANGED <<devices, inFlight, fetch, adder, dropping>>
      /\ Finished(d) \/ CutShort(d)
  BY DEF ReconnectClosed, Shape
<1>2. Closing(d)
  BY <1>1 DEF Closing, ClosedByReconnect
<1>3. /\ c # d => (ClosedByReconnect(c)' <=> ClosedByReconnect(c))
      /\ ClosedByReconnect(c)' => ClosedByReconnect(c)
  BY <1>1 DEF ClosedByReconnect, Shape, NoReconnect
<1>4. (c # d => (Closing(c)' <=> Closing(c))) /\ (Closing(c)' => Closing(c))
  BY <1>1, <1>3, Frame DEF Closing
<1> QED
  BY <1>1, <1>2, <1>4, CloseSteps

LEMMA ReconnectTooLateSteps ==
  ASSUME IInv, CutIsApart, Shape, NEW c \in Clients \ raced, NEW k \in Keys, NEW n \in Clients,
         ReconnectTooLate(k, n)
  PROVE  Step(c)
<1>1. /\ reconnect[k].pc = "connecting"
      /\ reconnect' = [reconnect EXCEPT ![k] = [pc |-> "closing", client |-> n]]
      /\ session' = [session EXCEPT ![n] = "open"] /\ cut' = cut \ {n}
      /\ UNCHANGED <<devices, inFlight, fetch, adder, dropping>>
  BY DEF ReconnectTooLate
<1>2. Life(n) = "none" /\ inFlight[n] = 0
  BY NewClient DEF ReconnectTooLate
<1>3. ClosedByReconnect(c)' <=> ClosedByReconnect(c) \/ c = n
  BY <1>1 DEF ClosedByReconnect, Shape
<1>4. Closing(c)' <=> Closing(c) \/ c = n
  BY <1>1, <1>3, Frame DEF Closing
<1>5. CASE c # n
  BY <1>1, <1>4, <1>5, Frame, UnmovedSteps DEF Unmoved, Shape
<1>6. CASE c = n
  BY <1>1, <1>2, <1>4, <1>6 DEF Step, Changes, Life
<1> QED
  BY <1>5, <1>6

LEMMA ReconnectSwapsSteps ==
  ASSUME IInv, CutIsApart, Shape, NEW c \in Clients \ raced, NEW k \in Keys, NEW n \in Clients,
         ReconnectSwaps(k, n)
  PROVE  Step(c)
<1> DEFINE old == reconnect[k].client
<1>1. /\ reconnect[k].pc = "connecting" /\ old \in Clients /\ devices[k] = old
      /\ session' = [session EXCEPT ![n] = "open"] /\ cut' = cut \ {n}
      /\ devices' = [devices EXCEPT ![k] = n]
      /\ UNCHANGED <<inFlight, fetch, adder, dropping>>
      /\ Fresh(n)
  BY DEF ReconnectSwaps, MaySwap, Shape
<1>2. reconnect' = [reconnect EXCEPT ![k] = IF inFlight[old] > 0 THEN NoReconnect
                                            ELSE [pc |-> "closing", client |-> old]]
  BY DEF ReconnectSwaps
<1>3. /\ Life(n) = "none" /\ inFlight[n] = 0 /\ ~Registered(n) /\ ~Closing(n) /\ ~InHand(n)
      /\ Registered(old) /\ old # n
  BY <1>1, NewClient DEF Registered
<1>4. Registered(c)' <=> (Registered(c) /\ c # old) \/ c = n
  BY <1>1, <1>3 DEF Registered, Shape, IInv, OneKeyEach
<1>5. Closing(c)' <=> Closing(c) \/ (c = old /\ ~(inFlight[old] > 0))
  <2>1. ClosedByReconnect(c)' <=> ClosedByReconnect(c) \/ (c = old /\ ~(inFlight[old] > 0))
    BY <1>1, <1>2 DEF ClosedByReconnect, Shape, NoReconnect
  <2> QED
    BY <1>1, <2>1, Frame DEF Closing
<1>6. InHand(c)' <=> InHand(c)
  BY <1>1, Frame
<1>7. CASE c = n
  BY <1>1, <1>3, <1>4, <1>5, <1>6, <1>7 DEF Step, Changes, Life, Shape
<1>8. CASE c = old
  <2>1. /\ Life(c) = "live" /\ ~Registered(c)' /\ session'[c] = "open" /\ c \notin cut'
        /\ inFlight'[c] = inFlight[c] /\ inFlight[c] \in Nat /\ ~Closing(c) /\ ~InHand(c)'
    BY <1>1, <1>3, <1>4, <1>6, <1>8, LifeOf, ClientFacts DEF Shape, CutIsApart
  <2> QED
    BY <1>5, <1>8, <2>1 DEF Step, Changes, Life
<1>9. CASE c # n /\ c # old
  BY <1>1, <1>4, <1>5, <1>6, <1>9, UnmovedSteps DEF Unmoved, Shape
<1> QED
  BY <1>7, <1>8, <1>9

-----------------------------------------------------------------------------
(* The discovery task's steps, and the shutdown's. *)

LEMMA DiscoveryUnmoved ==
  ASSUME IInv, NEW c \in Clients,
         \/ PassStart \/ AddsStart \/ AddsEnd \/ PruneEnd \/ PassEnd
         \/ \E e \in Entries : AddFails(e)
         \/ Shutdown \/ CloseReconnects \/ BeginDisconnect \/ UNCHANGED vars
  PROVE  Step(c)
<1>1. UNCHANGED <<devices, session, inFlight, fetch, reconnect, dropping, cut>>
  BY DEF PassStart, AddsStart, AddsEnd, PruneEnd, PassEnd, AddFails, Shutdown,
         CloseReconnects, BeginDisconnect, vars
<1>2. \A e \in Entries : adder'[e] = adder[e]
                         \/ /\ adder[e].pc # "closing" /\ adder'[e].pc # "closing"
                            /\ adder[e].new = None /\ adder'[e].new = None
  BY DEF PassStart, AddsStart, AddsEnd, PruneEnd, PassEnd, AddFails, Shutdown,
         CloseReconnects, BeginDisconnect, vars, NoAdder, Adding, IInv, TypeOK, Quiet, AddersApart
<1>3. (ClosedByAdder(c)' <=> ClosedByAdder(c)) /\ (InHand(c)' <=> InHand(c))
  BY <1>2 DEF ClosedByAdder, InHand
<1> QED
  BY <1>1, <1>3, Frame, UnmovedSteps DEF Unmoved, Closing

\* A client leaves the registry and is released.
LEMMA DropSteps ==
  ASSUME IInv, CutIsApart, Shape, NEW c \in Clients \ raced, NEW k \in Keys,
         devices[k] # None, dropping = None, Release(devices[k]),
         devices' = [devices EXCEPT ![k] = None],
         UNCHANGED <<session, inFlight, fetch, reconnect, adder, cut>>
  PROVE  Step(c)
<1> DEFINE d == devices[k]
<1>1. d \in Clients /\ Registered(d) /\ dropping' = IF inFlight[d] > 0 THEN None ELSE d
  BY DEF Release, Shape, ClientOrNone, Registered
<1>2. Registered(c)' <=> Registered(c) /\ c # d
  BY <1>1 DEF Registered, Shape, IInv, OneKeyEach
<1>3. Closing(c)' <=> Closing(c) \/ (c = d /\ ~(inFlight[d] > 0))
  BY <1>1, Frame DEF Closing
<1>4. InHand(c)' <=> InHand(c)
  BY Frame
<1>5. CASE c = d
  <2>1. /\ Life(c) = "live" /\ ~Closing(c) /\ session[c] = "open" /\ c \notin cut
        /\ inFlight[c] \in Nat /\ ~InHand(c)
    BY <1>1, <1>5, LifeOf, ClientFacts DEF CutIsApart
  <2> QED
    BY <1>1, <1>2, <1>3, <1>4, <1>5, <2>1 DEF Step, Changes, Life
<1>6. CASE c # d
  BY <1>1, <1>2, <1>3, <1>4, <1>6, UnmovedSteps DEF Unmoved
<1> QED
  BY <1>5, <1>6

LEMMA DropMovedSteps ==
  ASSUME IInv, CutIsApart, Shape, NEW c \in Clients \ raced, NEW e \in Entries, DropMoved(e)
  PROVE  Step(c)
<1> DEFINE k == manual[e]
<1>1. k \in Keys /\ dropping = None
      /\ UNCHANGED <<session, inFlight, fetch, reconnect, adder, cut>>
  BY DEF DropMoved, IInv, TypeOK
<1>2. CASE devices[k] # None /\ Unregister(k) /\ Release(devices[k])
  BY <1>1, <1>2, DropSteps
<1>3. CASE ~(devices[k] # None /\ Unregister(k) /\ Release(devices[k]))
  <2>1. UNCHANGED <<devices, dropping>>
    BY <1>3 DEF DropMoved, Shape
  <2> QED
    BY <1>1, <2>1, Frame, UnmovedSteps DEF Unmoved, Closing
<1> QED
  BY <1>2, <1>3

LEMMA DropClosedSteps ==
  ASSUME IInv, CutIsApart, NEW c \in Clients \ raced, DropClosed
  PROVE  Step(c)
<1>1. /\ dropping \in Clients /\ dropping' = None
      /\ (Finished(dropping) \/ CutShort(dropping))
      /\ UNCHANGED <<devices, inFlight, fetch, reconnect, adder>>
  BY DEF DropClosed, IInv, TypeOK, ClientOrNone
<1>2. Closing(dropping)
  BY DEF Closing
<1>3. (c # dropping => (Closing(c)' <=> Closing(c))) /\ (Closing(c)' => Closing(c))
  BY <1>1, Frame DEF Closing
<1> QED
  BY <1>1, <1>2, <1>3, CloseSteps

LEMMA RegisterFoundSteps ==
  ASSUME IInv, CutIsApart, Shape, NEW c \in Clients \ raced, NEW k \in Keys,
         NEW n \in Clients, NEW energy \in BOOLEAN, RegisterFound(k, n, energy)
  PROVE  Step(c)
<1>1. /\ Fresh(n) /\ devices[k] = None /\ devices' = [devices EXCEPT ![k] = n]
      /\ session' = [session EXCEPT ![n] = "open"] /\ cut' = cut \ {n}
      /\ UNCHANGED <<inFlight, fetch, reconnect, dropping, adder>>
  BY DEF RegisterFound, Register
<1>2. Life(n) = "none" /\ inFlight[n] = 0 /\ ~Closing(n) /\ ~InHand(n)
  BY <1>1, NewClient
<1>3. Registered(c)' <=> Registered(c) \/ c = n
  BY <1>1 DEF Registered, Shape
<1>4. (Closing(c)' <=> Closing(c)) /\ (InHand(c)' <=> InHand(c))
  BY <1>1, Frame DEF Closing
<1>5. CASE c = n
  BY <1>1, <1>2, <1>3, <1>4, <1>5 DEF Step, Changes, Life, Shape
<1>6. CASE c # n
  BY <1>1, <1>3, <1>4, <1>6, UnmovedSteps DEF Unmoved, Shape
<1> QED
  BY <1>5, <1>6

\* An add has its client in hand while it closes the one registered before.
LEMMA AddWaitsSteps ==
  ASSUME IInv, CutIsApart, Shape, NEW c \in Clients \ raced', NEW e \in Entries,
         NEW k \in Keys, NEW n \in Clients, NEW energy \in BOOLEAN,
         AddConnects(e, k, n, energy), devices[k] # None, ~InUse(devices[k])
  PROVE  Step(c)
<1> DEFINE p == devices[k]
<1>1. /\ adder[e].pc = "connecting" /\ adder[e].new = None /\ Fresh(n) /\ p # n
      /\ session' = [session EXCEPT ![n] = "open"] /\ cut' = cut \ {n}
      /\ raced' = raced \cup {p}
      /\ UNCHANGED <<devices, inFlight, fetch, reconnect, dropping>>
  BY FreshApart DEF AddConnects, IInv, AddersApart
<1>2. /\ adder'[e].pc = "closing" /\ adder'[e].new = n /\ adder'[e].victim = p
      /\ \A f \in Entries \ {e} : adder'[f] = adder[f]
  BY DEF AddConnects, Shape
<1>3. Life(n) = "none" /\ inFlight[n] = 0 /\ ~Closing(n)
  BY <1>1, NewClient
<1>4. InHand(c)' <=> InHand(c) \/ c = n
  BY <1>1, <1>2 DEF InHand
<1>5. ClosedByAdder(c)' <=> ClosedByAdder(c)
  BY <1>1, <1>2 DEF ClosedByAdder
<1>6. (Registered(c)' <=> Registered(c)) /\ (Closing(c)' <=> Closing(c))
  BY <1>1, <1>5, Frame DEF Closing
<1>7. CASE c = n
  <2>1. Life(c)' = "new"
    BY <1>1, <1>3, <1>4, <1>6, <1>7 DEF Life, Shape
  <2> QED
    BY <1>1, <1>3, <1>7, <2>1 DEF Step, Changes
<1>8. CASE c # n
  BY <1>1, <1>4, <1>6, <1>8, UnmovedSteps DEF Unmoved, Shape
<1> QED
  BY <1>7, <1>8

\* An add registers its client, at once, over none or over one that is left to its fetches.
LEMMA AddRegistersSteps ==
  ASSUME IInv, CutIsApart, Shape, NEW c \in Clients \ raced, NEW e \in Entries,
         NEW k \in Keys, NEW n \in Clients, NEW energy \in BOOLEAN,
         AddConnects(e, k, n, energy), devices[k] = None \/ InUse(devices[k])
  PROVE  Step(c)
<1> DEFINE p == devices[k]
<1>1. /\ adder[e].pc = "connecting" /\ adder[e].new = None /\ Fresh(n) /\ p # n
      /\ session' = [session EXCEPT ![n] = "open"] /\ cut' = cut \ {n}
      /\ devices' = [devices EXCEPT ![k] = n]
      /\ UNCHANGED <<inFlight, fetch, reconnect, dropping>>
  BY FreshApart DEF AddConnects, Register, IInv, AddersApart
<1>2. /\ adder'[e].pc = "idle" /\ adder'[e].new = None
      /\ \A f \in Entries \ {e} : adder'[f] = adder[f]
  BY DEF AddConnects, NoAdder, Shape
<1>3. Life(n) = "none" /\ inFlight[n] = 0 /\ ~Closing(n) /\ ~InHand(n)
  BY <1>1, NewClient
<1>4. (InHand(c)' <=> InHand(c)) /\ (ClosedByAdder(c)' <=> ClosedByAdder(c))
  BY <1>1, <1>2 DEF InHand, ClosedByAdder
<1>5. Registered(c)' <=> c = n \/ (c # p /\ Registered(c))
  BY <1>1 DEF Registered, IInv, OneKeyEach, Shape
<1>6. Closing(c)' <=> Closing(c)
  BY <1>1, <1>4, Frame DEF Closing
<1>7. CASE c = n
  BY <1>1, <1>3, <1>4, <1>5, <1>6, <1>7 DEF Step, Changes, Life, Shape
<1>8. CASE c = p
  <2>1. Registered(c) /\ inFlight[c] > 0
    BY <1>8 DEF Registered
  <2>2. /\ Life(c) = "live" /\ session[c] = "open" /\ ~Closing(c) /\ ~InHand(c)
        /\ c \notin cut
    BY <2>1, LifeOf, ClientFacts DEF CutIsApart
  <2>3. Life(c)' = "leaving" /\ inFlight'[c] = inFlight[c]
    BY <1>1, <1>4, <1>5, <1>6, <1>8, <2>2 DEF Life, Shape
  <2> QED
    BY <2>1, <2>2, <2>3 DEF Step
<1>9. CASE c # n /\ c # p
  BY <1>1, <1>4, <1>5, <1>6, <1>9, UnmovedSteps DEF Unmoved, Shape
<1> QED
  BY <1>7, <1>8, <1>9

\* The client in an add's hands is in no other's.
LEMMA OneHand ==
  ASSUME IInv, NEW e \in Entries, adder[e].pc = "closing", NEW c \in Clients,
         adder'[e].new = None, \A f \in Entries \ {e} : adder'[f] = adder[f]
  PROVE  InHand(c)' <=> InHand(c) /\ c # adder[e].new
  BY DEF IInv, AddersApart, InHand

LEMMA AddClosesSteps ==
  ASSUME IInv, CutIsApart, Shape, NEW c \in Clients \ raced', NEW e \in Entries,
         NEW energy \in BOOLEAN, AddCloses(e, energy)
  PROVE  Step(c)
<1> DEFINE k == adder[e].key
           m == adder[e].new
           v == adder[e].victim
<1>1. /\ adder[e].pc = "closing" /\ k \in Keys /\ m \in Clients
      /\ session' = [session EXCEPT ![v] = "closed"]
      /\ devices' = [devices EXCEPT ![k] = m]
      /\ raced' = raced \cup ({devices[k]} \ {None})
      /\ UNCHANGED <<inFlight, fetch, reconnect, dropping, cut>>
  BY DEF AddCloses, Register, Shape
<1>2. /\ adder'[e].pc = "idle" /\ adder'[e].new = None
      /\ \A f \in Entries \ {e} : adder'[f] = adder[f]
  BY DEF AddCloses, NoAdder, Shape
<1>3. m # v /\ v \in raced /\ m \notin raced /\ InHand(m)
  BY <1>1, InHandApart DEF InHand, IInv
<1>4. c # v /\ c # devices[k] /\ c \in Clients \ raced
  BY <1>1, <1>3
<1>5. session'[c] = session[c] /\ (InHand(c)' <=> InHand(c) /\ c # m)
  BY <1>1, <1>2, <1>4, OneHand DEF Shape
<1>6. Registered(c)' <=> Registered(c) \/ c = m
  BY <1>1, <1>4 DEF Registered, Shape
<1>7. ClosedByAdder(c)' <=> ClosedByAdder(c)
  BY <1>1, <1>2, <1>4 DEF ClosedByAdder
<1>8. Closing(c)' <=> Closing(c)
  BY <1>1, <1>7, Frame DEF Closing
<1>9. CASE c = m
  <2>1. Life(c) = "new" /\ inFlight[c] = 0 /\ session[c] = "open" /\ ~Closing(c)
    BY <1>3, <1>4, <1>9, LifeOf, ClientFacts
  <2>2. Life(c)' = "live" /\ inFlight'[c] = 0
    BY <1>1, <1>5, <1>6, <1>8, <1>9, <2>1 DEF Life
  <2> QED
    BY <2>1, <2>2 DEF Step, Changes
<1>10. CASE c # m
  BY <1>1, <1>5, <1>6, <1>8, <1>10, UnmovedSteps DEF Unmoved
<1> QED
  BY <1>9, <1>10

LEMMA AddCancelledSteps ==
  ASSUME IInv, CutIsApart, Shape, NEW c \in Clients \ raced, NEW e \in Entries,
         AddCancelled(e)
  PROVE  Step(c)
<1> DEFINE m == adder[e].new
           v == adder[e].victim
<1>1. /\ adder[e].pc = "closing" /\ m \in Clients
      /\ session' = [session EXCEPT ![v] = "closed"] \/ session' = session
      /\ cut' = cut \cup {m}
      /\ UNCHANGED <<devices, inFlight, fetch, reconnect, dropping>>
  BY DEF AddCancelled, Shape
<1>2. /\ adder'[e].pc = "idle" /\ adder'[e].new = None
      /\ \A f \in Entries \ {e} : adder'[f] = adder[f]
  BY DEF AddCancelled, NoAdder, Shape
<1>3. m # v /\ v \in raced /\ InHand(m) /\ ~Registered(m)
  BY <1>1, InHandApart DEF InHand, IInv
<1>4. c # v /\ session'[c] = session[c] /\ (InHand(c)' <=> InHand(c) /\ c # m)
  BY <1>1, <1>2, <1>3, OneHand DEF Shape
<1>5. ClosedByAdder(c)' <=> ClosedByAdder(c)
  BY <1>1, <1>2, <1>4 DEF ClosedByAdder
<1>6. (Closing(c)' <=> Closing(c)) /\ (Registered(c)' <=> Registered(c))
  BY <1>1, <1>5, Frame DEF Closing
<1>7. CASE c = m
  <2>1. Life(c) = "new" /\ inFlight[c] = 0 /\ session[c] = "open" /\ ~Closing(c)
    BY <1>3, <1>7, LifeOf, ClientFacts
  <2>2. Life(c)' = "lost" /\ inFlight'[c] = 0
    BY <1>1, <1>3, <1>4, <1>6, <1>7, <2>1 DEF Life
  <2> QED
    BY <2>1, <2>2 DEF Step, Changes
<1>8. CASE c # m
  BY <1>1, <1>4, <1>6, <1>8, UnmovedSteps DEF Unmoved
<1> QED
  BY <1>7, <1>8

LEMMA AddSteps ==
  ASSUME IInv, CutIsApart, Shape, NEW c \in Clients \ raced', c \notin raced,
         NEW e \in Entries, AddNext(e)
  PROVE  Step(c)
<1>1. ASSUME NEW k \in Resolves(e), NEW n \in Clients, NEW energy \in BOOLEAN,
             AddConnects(e, k, n, energy)
      PROVE  Step(c)
  BY <1>1, AddWaitsSteps, AddRegistersSteps DEF Resolves
<1> QED
  BY <1>1, DiscoveryUnmoved, AddClosesSteps, AddCancelledSteps DEF AddNext

LEMMA DisconnectAllSteps ==
  ASSUME IInv, CutIsApart, NEW c \in Clients \ raced, DisconnectAll
  PROVE  Step(c)
<1>1. /\ session'[c] = IF Registered(c) THEN "closed" ELSE session[c]
      /\ ~Registered(c)'
      /\ UNCHANGED <<inFlight, fetch, reconnect, adder, dropping, cut>>
  BY DEF DisconnectAll, Registered
<1>2. (Closing(c)' <=> Closing(c)) /\ (InHand(c)' <=> InHand(c))
  BY <1>1, Frame DEF Closing
<1>3. ~Held(c)
  BY DEF Held, DisconnectAll, IInv, Quiet
<1>4. CASE Registered(c)
  BY <1>1, <1>2, <1>3, <1>4, LifeOf, ClientFacts DEF Step, Changes, Life
<1>5. CASE ~Registered(c)
  BY <1>1, <1>2, <1>5, UnmovedSteps DEF Unmoved
<1> QED
  BY <1>4, <1>5

\* Nothing is unexcused.
LEMMA RacedGrows == ASSUME [Next]_vars PROVE raced \subseteq raced'
<1>1. ASSUME NEW e \in Entries, AddNext(e) PROVE raced \subseteq raced'
  BY <1>1 DEF AddNext, AddFails, AddConnects, AddCloses, AddCancelled
<1>2. CASE UNCHANGED raced
  BY <1>2
<1> QED
  BY <1>1, <1>2
  DEF Next, CycleStart, FetchNext, FetchBegin, FetchSkip, FetchUpdate, FetchEnd, FetchClosed,
      ReconnectNext, RequestReconnect, ReconnectFails, ReconnectSwaps, ReconnectTooLate,
      ReconnectClosed, DiscoveryNext, PassStart, AddsStart, AddsEnd, DropClosed, PruneEnd,
      PassEnd, DropMoved, Prune, RegisterFound, ShutdownNext, Shutdown, CloseReconnects,
      BeginDisconnect, DisconnectAll, Terminated, vars

LEMMA EveryStep ==
  ASSUME IInv, CutIsApart, [Next]_vars, NEW c \in Clients \ raced'
  PROVE  Step(c)
<1>1. Shape /\ c \in Clients \ raced
  BY TypeShape, RacedGrows DEF IInv
<1>2. CASE (\E l \in Loops : CycleStart(l)) \/ (\E t \in Fetches : FetchNext(t))
           \/ \E k \in Keys : ReconnectNext(k)
  BY <1>1, <1>2, PollerUnmoved, FetchBeginSteps, FetchUpdateSteps, FetchEndSteps,
     FetchClosedSteps, ReconnectSwapsSteps, ReconnectTooLateSteps, ReconnectClosedSteps
  DEF FetchNext, ReconnectNext
<1>3. ASSUME NEW k \in Keys, Prune(k) PROVE Step(c)
  BY <1>1, <1>3, DropSteps DEF Prune
<1>4. CASE DiscoveryNext
  BY <1>1, <1>3, <1>4, DiscoveryUnmoved, DropClosedSteps, DropMovedSteps, AddSteps,
     RegisterFoundSteps
  DEF DiscoveryNext
<1>5. CASE ShutdownNext \/ Terminated \/ UNCHANGED vars
  BY <1>1, <1>5, DiscoveryUnmoved, DisconnectAllSteps DEF ShutdownNext, Terminated
<1> QED
  BY <1>2, <1>4, <1>5 DEF Next

-----------------------------------------------------------------------------
(* A client whose close was cut short stays out of everyone's hands. *)

\* A client that is closed, or being closed, is in nobody's hands.
Outsiders ==
    \A c \in Clients \ raced :
        session[c] = "closed" \/ Closing(c) => ~Registered(c) /\ ~Held(c) /\ ~InHand(c)

LEMMA OutsidersNext == IInv' => Outsiders'
<1>1. IInv => Outsiders
  BY ClientFacts DEF Outsiders
<1> QED
  BY <1>1, PTL

LEMMA HeldCountedNext ==
    TypeOK' /\ InFlightExact' => \A c \in Clients : inFlight'[c] = 0 <=> ~Held(c)'
<1>1. TypeOK /\ InFlightExact => \A c \in Clients : inFlight[c] = 0 <=> ~Held(c)
  BY HeldCounted
<1>2. (TypeOK /\ InFlightExact)' => (\A c \in Clients : inFlight[c] = 0 <=> ~Held(c))'
  BY <1>1, PTL
<1> QED
  BY <1>2

\* How a client comes to be cut; and one that is cut is opened by no step.
HowCut(c) ==
    /\ c \in cut \/ Closing(c) \/ (InHand(c) /\ ~InHand(c)' /\ ~Registered(c)')
    /\ session[c] = "closed" => session'[c] = "closed"

LEMMA CloseCuts ==
  ASSUME Shape, NEW d \in Clients, Closing(d), Finished(d) \/ CutShort(d),
         NEW c \in Clients, c \in cut'
  PROVE  HowCut(c)
  BY DEF Finished, CutShort, HowCut, Shape

LEMMA ConnectCuts ==
  ASSUME Shape, NEW n \in Clients, session' = [session EXCEPT ![n] = "open"], cut' = cut \ {n},
         NEW c \in Clients, c \in cut'
  PROVE  HowCut(c)
  BY DEF HowCut, Shape

LEMMA PollerCuts ==
  ASSUME IInv, CutIsApart, Shape, NEW c \in Clients \ raced', c \notin raced, c \in cut',
         \/ \E l \in Loops : CycleStart(l)
         \/ \E t \in Fetches : FetchNext(t)
         \/ \E k \in Keys : ReconnectNext(k)
  PROVE  HowCut(c)
<1>1. CASE UNCHANGED <<session, cut>>
  BY <1>1 DEF HowCut
<1>2. ASSUME NEW t \in Fetches, FetchUpdate(t) PROVE HowCut(c)
  <2>1. session' = [session EXCEPT ![fetch[t].client] = "open"] /\ cut' = cut
        /\ Held(fetch[t].client)
    BY <1>2 DEF FetchUpdate, Held
  <2>2. c # fetch[t].client
    BY <2>1 DEF CutIsApart
  <2> QED
    BY <2>1, <2>2 DEF HowCut, Shape
<1>3. ASSUME NEW t \in Fetches, FetchClosed(t) PROVE HowCut(c)
  <2>1. fetch[t].client \in Clients /\ Closing(fetch[t].client)
    BY <1>3 DEF FetchClosed, Closing, ClosedByFetch, Shape
  <2> QED
    BY <1>3, <2>1, CloseCuts DEF FetchClosed
<1>4. ASSUME NEW k \in Keys, ReconnectClosed(k) PROVE HowCut(c)
  <2>1. reconnect[k].client \in Clients /\ Closing(reconnect[k].client)
    BY <1>4 DEF ReconnectClosed, Closing, ClosedByReconnect, Shape
  <2> QED
    BY <1>4, <2>1, CloseCuts DEF ReconnectClosed
<1>5. ASSUME NEW k \in Keys, NEW n \in Clients, ReconnectSwaps(k, n) \/ ReconnectTooLate(k, n)
      PROVE  HowCut(c)
  BY <1>5, ConnectCuts DEF ReconnectSwaps, ReconnectTooLate
<1>6. ASSUME NEW t \in Fetches, FetchNext(t) PROVE HowCut(c)
  BY <1>1, <1>2, <1>3, <1>6 DEF FetchNext, FetchBegin, FetchSkip, FetchEnd
<1>7. ASSUME NEW k \in Keys, ReconnectNext(k) PROVE HowCut(c)
  BY <1>1, <1>4, <1>5, <1>7 DEF ReconnectNext, RequestReconnect, ReconnectFails
<1> QED
  BY <1>1, <1>6, <1>7 DEF CycleStart

LEMMA AddCuts ==
  ASSUME IInv, Shape, NEW c \in Clients \ raced', c \notin raced, c \in cut',
         NEW e \in Entries, AddNext(e)
  PROVE  HowCut(c)
<1>1. CASE AddFails(e)
  BY <1>1 DEF AddFails, HowCut
<1>2. ASSUME NEW k \in Resolves(e), NEW n \in Clients, NEW energy \in BOOLEAN,
             AddConnects(e, k, n, energy)
      PROVE  HowCut(c)
  BY <1>2, ConnectCuts DEF AddConnects
<1>3. ASSUME NEW energy \in BOOLEAN, AddCloses(e, energy) PROVE HowCut(c)
  BY <1>3 DEF AddCloses, HowCut, Shape
<1>4. CASE AddCancelled(e)
  <2>1. /\ adder[e].pc = "closing" /\ cut' = cut \cup {adder[e].new} /\ devices' = devices
        /\ session' = [session EXCEPT ![adder[e].victim] = "closed"] \/ session' = session
        /\ adder'[e].new = None /\ \A f \in Entries \ {e} : adder'[f] = adder[f]
    BY <1>4 DEF AddCancelled, NoAdder, Shape
  <2>2. ~Registered(adder[e].new) /\ InHand(adder[e].new)
    BY <2>1, InHandApart DEF InHand, IInv
  <2>3. InHand(c)' <=> InHand(c) /\ c # adder[e].new
    BY <2>1, OneHand
  <2>4. Registered(c)' <=> Registered(c)
    BY <2>1, Frame
  <2> QED
    BY <2>1, <2>2, <2>3, <2>4 DEF HowCut, Shape
<1> QED
  BY <1>1, <1>2, <1>3, <1>4 DEF AddNext

LEMMA DiscoveryCuts ==
  ASSUME IInv, Shape, NEW c \in Clients \ raced', c \notin raced, c \in cut',
         DiscoveryNext \/ ShutdownNext \/ Terminated \/ UNCHANGED vars
  PROVE  HowCut(c)
<1>1. CASE UNCHANGED <<session, cut>>
  BY <1>1 DEF HowCut
<1>2. CASE DropClosed
  <2>1. dropping \in Clients /\ Closing(dropping)
    BY <1>2 DEF DropClosed, Closing, IInv, TypeOK, ClientOrNone
  <2> QED
    BY <1>2, <2>1, CloseCuts DEF DropClosed
<1>3. ASSUME NEW k \in Keys, NEW n \in Clients, NEW energy \in BOOLEAN,
             RegisterFound(k, n, energy)
      PROVE  HowCut(c)
  BY <1>3, ConnectCuts DEF RegisterFound
<1>4. CASE DisconnectAll
  BY <1>4 DEF DisconnectAll, HowCut
<1>5. CASE DiscoveryNext
  BY <1>1, <1>2, <1>3, <1>5, AddCuts
  DEF DiscoveryNext, PassStart, AddsStart, AddsEnd, PruneEnd, PassEnd, DropMoved, Prune
<1> QED
  BY <1>1, <1>4, <1>5
  DEF ShutdownNext, Shutdown, CloseReconnects, BeginDisconnect, Terminated, vars

LEMMA CutStaysApart ==
  ASSUME IInv, IInv', CutIsApart, [Next]_vars PROVE CutIsApart'
<1> SUFFICES ASSUME NEW c \in Clients \ raced', c \in cut'
             PROVE  ~Registered(c)' /\ ~Held(c)' /\ ~InHand(c)'
  BY DEF CutIsApart, IInv, TypeOK
<1>1. Shape /\ c \in Clients \ raced
  BY TypeShape, RacedGrows DEF IInv
<1>2. HowCut(c)
  BY <1>1, PollerCuts, DiscoveryCuts DEF Next
<1>3. Step(c)
  BY EveryStep
<1>4. session'[c] = "closed" \/ Closing(c)' => ~Registered(c)' /\ ~Held(c)' /\ ~InHand(c)'
  BY OutsidersNext DEF Outsiders
<1>5. inFlight'[c] = 0 <=> ~Held(c)'
  BY HeldCountedNext DEF IInv
<1>6. CASE Life(c)' \in {"none", "closing"}
  BY <1>4, <1>6 DEF Life
<1>7. CASE Life(c)' = "lost" /\ inFlight'[c] = 0
  BY <1>5, <1>7 DEF Life
<1>8. CASE c \in cut \/ Closing(c)
  <2>1. inFlight[c] = 0 /\ Life(c) \in {"closing", "none", "lost"}
    BY <1>1, <1>8, ClientFacts, LifeOf DEF CutIsApart, Life
  <2>2. Life(c) = "none" => Life(c)' \in {"none", "closing"}
    BY <1>1, <1>2, ClientFacts DEF HowCut, Life
  <2> QED
    BY <1>3, <1>6, <1>7, <2>1, <2>2 DEF Step, Changes
<1>9. CASE InHand(c) /\ ~InHand(c)' /\ ~Registered(c)'
  <2>1. inFlight[c] = 0 /\ Life(c) = "new"
    BY <1>1, <1>9, LifeOf
  <2>2. Life(c)' \notin {"new", "live"}
    BY <1>9 DEF Life
  <2> QED
    BY <1>3, <1>7, <2>1, <2>2 DEF Step, Changes
<1> QED
  BY <1>2, <1>8, <1>9 DEF HowCut

-----------------------------------------------------------------------------
(* Nameless is kept. *)

\* What a step does to the registry and to what is polled.
KeepsRegistry == UNCHANGED <<devices, emeter>>
Removes(k) ==
    devices' = [devices EXCEPT ![k] = None] /\ emeter' = [emeter EXCEPT ![k] = None]
Puts(k, n) ==
    /\ devices' = [devices EXCEPT ![k] = n]
    /\ emeter'[k] \in {None, n} /\ \A j \in Keys \ {k} : emeter'[j] = emeter[j]
Empties ==
    devices' = [k \in Keys |-> None] /\ emeter' = [k \in Keys |-> None]

RegistryMoves ==
    KeepsRegistry \/ Empties
    \/ \E k \in Keys : Removes(k) \/ \E n \in Clients : Puts(k, n)

LEMMA RegisterPuts ==
  ASSUME Shape, PolledIsTheRegistered, NEW k \in Keys, NEW n \in Clients, NEW energy \in BOOLEAN,
         devices[k] = None, Register(k, n, energy)
  PROVE  Puts(k, n)
  BY DEF Shape, PolledIsTheRegistered, Register, Puts

LEMMA PollerMoves ==
  ASSUME Shape, PolledIsTheRegistered,
         \/ \E l \in Loops : CycleStart(l)
         \/ \E t \in Fetches : FetchNext(t)
         \/ \E k \in Keys : ReconnectNext(k)
  PROVE  RegistryMoves /\ UNCHANGED <<manual, adder, stage, raced>>
<1>1. CASE \E l \in Loops : CycleStart(l)
  BY <1>1 DEF CycleStart, RegistryMoves, KeepsRegistry
<1>2. ASSUME NEW t \in Fetches, FetchNext(t)
      PROVE  RegistryMoves /\ UNCHANGED <<manual, adder, stage, raced>>
  BY <1>2 DEF FetchNext, FetchBegin, FetchSkip, FetchUpdate, FetchEnd, FetchClosed,
              RegistryMoves, KeepsRegistry
<1>3. ASSUME NEW k \in Keys, ReconnectNext(k)
      PROVE  RegistryMoves /\ UNCHANGED <<manual, adder, stage, raced>>
  <2>1. CASE RequestReconnect(k) \/ ReconnectFails(k)
    BY <2>1 DEF RequestReconnect, ReconnectFails, RegistryMoves, KeepsRegistry
  <2>2. ASSUME NEW n \in Clients, ReconnectSwaps(k, n)
        PROVE  RegistryMoves /\ UNCHANGED <<manual, adder, stage, raced>>
    <3>1. /\ devices' = [devices EXCEPT ![k] = n]
          /\ emeter' = [emeter EXCEPT ![k] = IF @ = reconnect[k].client THEN n ELSE @]
          /\ devices[k] = reconnect[k].client
          /\ UNCHANGED <<manual, adder, stage, raced>>
      BY <2>2 DEF ReconnectSwaps, MaySwap
    <3>2. Puts(k, n)
      BY <3>1 DEF Puts, PolledIsTheRegistered, Shape
    <3> QED
      BY <3>1, <3>2 DEF RegistryMoves
  <2>3. ASSUME NEW n \in Clients, ReconnectTooLate(k, n)
        PROVE  RegistryMoves /\ UNCHANGED <<manual, adder, stage, raced>>
    BY <2>3 DEF ReconnectTooLate, RegistryMoves, KeepsRegistry
  <2>4. CASE ReconnectClosed(k)
    BY <2>4 DEF ReconnectClosed, RegistryMoves, KeepsRegistry
  <2> QED
    BY <1>3, <2>1, <2>2, <2>3, <2>4 DEF ReconnectNext
<1> QED
  BY <1>1, <1>2, <1>3

\* An add, where no entry is a name, fails or registers a client at a key that holds none.
LEMMA AddMoves ==
  ASSUME IInv, NoNames, Nameless, Shape, NEW e \in Entries, DropMoved(e) \/ AddNext(e)
  PROVE  /\ RegistryMoves /\ raced' = raced /\ stage' = stage
         /\ adder' = [adder EXCEPT ![e] = NoAdder] /\ adder[e].pc = "connecting"
         /\ manual' = manual \/ manual' = [manual EXCEPT ![e] = e]
         /\ \A j \in Keys \ {e} : devices'[j] = devices[j]
<1>1. adder[e].pc # "closing" /\ manual[e] \in {None, e}
      /\ (adder[e].pc = "connecting" => devices[e] = None)
  BY DEF Nameless, AddsAreNew
<1>2. ~DropMoved(e) /\ ~AddCancelled(e) /\ \A energy \in BOOLEAN : ~AddCloses(e, energy)
  BY <1>1 DEF DropMoved, AddCancelled, AddCloses
<1>3. CASE AddFails(e)
  BY <1>3 DEF AddFails, RegistryMoves, KeepsRegistry
<1>4. ASSUME NEW k \in Resolves(e), NEW n \in Clients, NEW energy \in BOOLEAN,
             AddConnects(e, k, n, energy)
      PROVE  /\ RegistryMoves /\ raced' = raced /\ stage' = stage
             /\ adder' = [adder EXCEPT ![e] = NoAdder] /\ adder[e].pc = "connecting"
             /\ manual' = [manual EXCEPT ![e] = e]
             /\ \A j \in Keys \ {e} : devices'[j] = devices[j]
  <2>1. k = e /\ e \in Keys /\ devices[k] = None
    BY <1>1, <1>4 DEF Resolves, NoNames, AddConnects
  <2>2. /\ Register(k, n, energy)
        /\ adder' = [adder EXCEPT ![e] = NoAdder] /\ adder[e].pc = "connecting"
        /\ manual' = [manual EXCEPT ![e] = e] /\ raced' = raced /\ stage' = stage
    BY <1>4, <2>1 DEF AddConnects
  <2>3. Puts(k, n)
    BY <2>1, <2>2, RegisterPuts DEF Nameless
  <2> QED
    BY <2>1, <2>2, <2>3 DEF RegistryMoves, Register, Shape
<1> QED
  BY <1>2, <1>3, <1>4 DEF AddNext

LEMMA DiscoveryMoves ==
  ASSUME IInv, NoNames, Nameless, Shape, DiscoveryNext \/ ShutdownNext \/ UNCHANGED vars
  PROVE  RegistryMoves /\ raced' = raced
<1>1. CASE \/ PassStart \/ AddsStart \/ AddsEnd \/ PruneEnd \/ PassEnd
           \/ Shutdown \/ CloseReconnects \/ BeginDisconnect \/ UNCHANGED vars
  BY <1>1 DEF PassStart, AddsStart, AddsEnd, PruneEnd, PassEnd, Shutdown, CloseReconnects,
              BeginDisconnect, vars, RegistryMoves, KeepsRegistry
<1>2. CASE DropClosed
  BY <1>2 DEF DropClosed, RegistryMoves, KeepsRegistry
<1>3. CASE \E e \in Entries : DropMoved(e) \/ AddNext(e)
  BY <1>3, AddMoves
<1>4. ASSUME NEW k \in Keys, Prune(k) PROVE RegistryMoves /\ raced' = raced
  BY <1>4 DEF Prune, RegistryMoves, Removes
<1>5. ASSUME NEW k \in Keys, NEW n \in Clients, NEW energy \in BOOLEAN,
             RegisterFound(k, n, energy)
      PROVE  RegistryMoves /\ raced' = raced
  <2>1. Puts(k, n)
    BY <1>5, RegisterPuts DEF RegisterFound, Nameless
  <2> QED
    BY <1>5, <2>1 DEF RegisterFound, RegistryMoves
<1>6. CASE DisconnectAll
  BY <1>6 DEF DisconnectAll, RegistryMoves, Empties
<1> QED
  BY <1>1, <1>2, <1>3, <1>4, <1>5, <1>6 DEF DiscoveryNext, ShutdownNext

LEMMA NextMoves ==
  ASSUME IInv, NoNames, Nameless, [Next]_vars PROVE RegistryMoves /\ raced' = raced
<1>1. Shape
  BY TypeShape DEF IInv
<1> QED
  BY <1>1, PollerMoves, DiscoveryMoves DEF Next, Terminated, Nameless

LEMMA NamelessAdds ==
  ASSUME IInv, NoNames, Nameless, [Next]_vars PROVE AddsAreNew'
<1>1. Shape
  BY TypeShape DEF IInv
<1>2. \A e \in Entries : /\ e \in Keys /\ manual[e] \in {None, e} /\ adder[e].pc # "closing"
                         /\ adder[e].pc = "connecting" => devices[e] = None /\ stage = "adding"
  BY DEF Nameless, AddsAreNew, NoNames, IInv, Quiet
<1>3. CASE \/ UNCHANGED vars
           \/ (\E l \in Loops : CycleStart(l)) \/ (\E t \in Fetches : FetchNext(t))
           \/ \E k \in Keys : ReconnectNext(k)
  <2>1. UNCHANGED <<manual, adder>>
    BY <1>1, <1>3, PollerMoves DEF Nameless, vars
  <2>2. \A k \in Keys : devices[k] = None => devices'[k] = None
    <3>1. ASSUME NEW k \in Keys, NEW n \in Clients, ReconnectSwaps(k, n)
          PROVE  devices' = [devices EXCEPT ![k] = n] /\ devices[k] # None
      BY <1>1, <3>1 DEF ReconnectSwaps, MaySwap, Shape
    <3> QED
      BY <1>1, <1>3, <3>1
      DEF FetchNext, ReconnectNext, CycleStart, FetchBegin, FetchSkip, FetchUpdate, FetchEnd,
          FetchClosed, RequestReconnect, ReconnectFails, ReconnectTooLate, ReconnectClosed,
          vars, Shape
  <2> QED
    BY <1>2, <2>1, <2>2 DEF AddsAreNew
<1>4. CASE \E e \in Entries : DropMoved(e) \/ AddNext(e)
  <2> PICK e \in Entries : DropMoved(e) \/ AddNext(e)
    BY <1>4
  <2>1. /\ adder' = [adder EXCEPT ![e] = NoAdder]
        /\ manual' = manual \/ manual' = [manual EXCEPT ![e] = e]
        /\ \A j \in Keys \ {e} : devices'[j] = devices[j]
    BY <1>1, AddMoves
  <2>2. manual \in [Entries -> Keys \cup {None}] /\ DOMAIN adder = Entries
    BY <1>1 DEF IInv, TypeOK, Shape
  <2> SUFFICES ASSUME NEW f \in Entries
               PROVE  /\ manual'[f] \in {None, f} /\ adder'[f].pc # "closing"
                      /\ adder'[f].pc = "connecting" => devices'[f] = None
    BY DEF AddsAreNew
  <2>3. manual'[f] \in {None, f}
    BY <1>2, <2>1, <2>2
  <2>4. CASE f = e
    BY <2>1, <2>2, <2>3, <2>4 DEF NoAdder
  <2>5. CASE f # e
    <3>1. adder'[f] = adder[f] /\ devices'[f] = devices[f]
      BY <1>2, <2>1, <2>2, <2>5
    <3> QED
      BY <1>2, <2>3, <3>1
  <2> QED
    BY <2>4, <2>5
<1>5. CASE AddsStart
  <2>1. UNCHANGED <<manual, devices>>
        /\ adder' = [e \in Entries |-> IF Missing(e) THEN Adding ELSE NoAdder]
    BY <1>5 DEF AddsStart
  <2> QED
    BY <1>2, <2>1 DEF AddsAreNew, Missing, EntryKey, Adding, NoAdder
<1>6. CASE PassStart \/ AddsEnd \/ PruneEnd \/ PassEnd \/ DropClosed
           \/ Shutdown \/ CloseReconnects \/ BeginDisconnect \/ Terminated
  <2>1. UNCHANGED <<manual, adder, devices>>
    BY <1>6 DEF PassStart, AddsEnd, PruneEnd, PassEnd, DropClosed, Shutdown, CloseReconnects,
                BeginDisconnect, Terminated, vars
  <2> QED
    BY <1>2, <2>1 DEF AddsAreNew
<1>7. CASE DisconnectAll \/ \E k \in Keys : Prune(k)
  <2>1. UNCHANGED <<manual, adder>> /\ \A k \in Keys : devices[k] = None => devices'[k] = None
    BY <1>1, <1>7 DEF DisconnectAll, Prune, Shape
  <2> QED
    BY <1>2, <2>1 DEF AddsAreNew
<1>8. CASE \E k \in Keys, n \in Clients, energy \in BOOLEAN : RegisterFound(k, n, energy)
  <2>1. UNCHANGED <<manual, adder>> /\ stage = "registering"
    BY <1>8 DEF RegisterFound
  <2> QED
    BY <1>2, <2>1 DEF AddsAreNew
<1> QED
  BY <1>3, <1>4, <1>5, <1>6, <1>7, <1>8 DEF Next, DiscoveryNext, ShutdownNext

LEMMA NamelessPolled ==
  ASSUME IInv, NoNames, Nameless, [Next]_vars PROVE PolledIsTheRegistered'
<1>1. Shape /\ RegistryMoves /\ PolledIsTheRegistered
  BY TypeShape, NextMoves DEF IInv, Nameless
<1> QED
  BY <1>1 DEF RegistryMoves, KeepsRegistry, Removes, Puts, Empties, PolledIsTheRegistered, Shape

-----------------------------------------------------------------------------
(* The invariant, and what follows. *)

LEMMA InitHandleInv == Init => HandleInv
<1> SUFFICES ASSUME Init PROVE HandleInv
  OBVIOUS
<1>1. IInv
  BY InitIInv
<1>2. CutIsApart /\ PolledIsRegistered /\ PolledIsTheRegistered
  BY DEF Init, CutIsApart, PolledIsRegistered, PolledIsTheRegistered
<1>3. AddsAreNew /\ raced = {}
  BY DEF Init, AddsAreNew, NoAdder
<1> QED
  BY <1>1, <1>2, <1>3 DEF HandleInv, Nameless

LEMMA NextHandleInv == HandleInv /\ [Next]_vars => HandleInv'
<1> SUFFICES ASSUME HandleInv, [Next]_vars PROVE HandleInv'
  OBVIOUS
<1>1. IInv' /\ CutIsApart'
  BY NextIInv, CutStaysApart DEF HandleInv
<1>2. PolledIsRegistered'
  BY PolledIsRegisteredNext DEF HandleInv, IInv
<1>3. ASSUME NoNames PROVE Nameless'
  <2>1. IInv /\ Nameless
    BY <1>3 DEF HandleInv
  <2>2. raced' = {}
    BY <1>3, <2>1, NextMoves DEF Nameless
  <2> QED
    BY <1>3, <2>1, <2>2, NamelessAdds, NamelessPolled DEF Nameless
<1>4. NoNames' <=> NoNames
  BY DEF NoNames
<1> QED
  BY <1>1, <1>2, <1>3, <1>4 DEF HandleInv

LEMMA HandleInvHolds == Spec => []HandleInv
  BY InitHandleInv, NextHandleInv, PTL DEF Spec

\* What the loops poll is registered, and where DEVICE_HOSTS lists no name it is the very
\* client registered under that key (device_manager.py emeter_devices).
THEOREM PolledFollowsRegistered == Spec => []EmeterFollowsDevices
<1>1. HandleInv => EmeterFollowsDevices
  BY DEF HandleInv, Nameless, NoNames, PolledIsRegistered, PolledIsTheRegistered,
         EmeterFollowsDevices
<1> QED
  BY <1>1, HandleInvHolds, PTL

\* Where DEVICE_HOSTS lists no name, no re-add closes or overwrites a registered client
\* (device_manager.py _add_manual_devices).
THEOREM NothingRaces == NoNames => (Spec => [](raced = {}))
<1> SUFFICES ASSUME NoNames PROVE Spec => [](raced = {})
  OBVIOUS
<1>1. HandleInv => raced = {}
  BY DEF HandleInv, Nameless
<1> QED
  BY <1>1, HandleInvHolds, PTL

\* The device manager and the poller together keep to ClientHandle: a client gets a user
\* only while it is registered, and a dropped one is closed by whoever is last, never before
\* (device_manager.py close_when_free), names or none; those a re-add closes or overwrites
\* while they are registered are excused.
THEOREM HandleImplemented == Spec => ImplementsHandle
<1>1. Init => Handle!HandleInit
  <2> SUFFICES ASSUME Init
               PROVE  raced = {} /\ \A c \in Clients : Life(c) = "none" /\ inFlight[c] = 0
    BY DEF Init, Handle!HandleInit
  <2>1. \A c \in Clients : ~Closing(c)
    BY DEF Init, Closing, ClosedByFetch, ClosedByReconnect, ClosedByAdder, NoFetch,
           NoReconnect, NoAdder
  <2> QED
    BY <2>1 DEF Init, Life
<1>2. HandleInv /\ [Next]_vars => [Handle!HandleNext]_(Handle!handleVars)
  BY EveryStep, RacedGrows, StepsImplement DEF HandleInv
<1> QED
  BY <1>1, <1>2, HandleInvHolds, PTL DEF Spec, ImplementsHandle, Handle!HandleSpec
===============================================================================
