------------------------ MODULE ClientLifecycleProofs ------------------------
(***************************************************************************)
(* What ClientLifecycle promises, for every number of addresses, clients    *)
(* and DEVICE_HOSTS entries: each invariant is a conjunct of IInv, which is *)
(* inductive.                                                               *)
(***************************************************************************)
EXTENDS ClientLifecycle, FiniteSetTheorems, TLAPS

\* What a step is made of, and what it leaves alone.
USE DEF discoveryVars, historyVars, pollerVars, Polled, IsCurrent, Hold, LastHold, InUse, Swap,
        Unregister, AddsOver, PassCancelled, ReconnectsOver

-----------------------------------------------------------------------------
LEMMA InitTypeOK == Init => TypeOK
BY NoneAssumption DEF Init, TypeOK, ClientOrNone, NoFetch, NoReconnect, NoAdder

LEMMA FetchTypeOK ==
    ASSUME TypeOK, NEW t \in Fetches, FetchNext(t)
    PROVE  TypeOK'
<1> USE DEF TypeOK, ClientOrNone
<1>1. CASE FetchBegin(t)  BY <1>1 DEF FetchBegin
<1>2. CASE FetchSkip(t)   BY <1>2 DEF FetchSkip, NoFetch
<1>3. CASE FetchUpdate(t) BY <1>3 DEF FetchUpdate
<1>4. CASE FetchEnd(t)    BY <1>4 DEF FetchEnd, NoFetch
<1>5. CASE FetchClosed(t) BY <1>5 DEF FetchClosed, Finished, CutShort, NoFetch
<1> QED BY <1>1, <1>2, <1>3, <1>4, <1>5 DEF FetchNext

LEMMA ReconnectTypeOK ==
    ASSUME TypeOK, NEW k \in Keys, ReconnectNext(k)
    PROVE  TypeOK'
<1> USE DEF TypeOK, ClientOrNone
<1>1. CASE RequestReconnect(k) BY <1>1 DEF RequestReconnect, Fetches, Loops
<1>2. CASE ReconnectFails(k)   BY <1>2 DEF ReconnectFails, NoReconnect
<1>3. ASSUME NEW c \in Clients, ReconnectSwaps(k, c) PROVE TypeOK'
  BY <1>3 DEF ReconnectSwaps, NoReconnect
<1>4. ASSUME NEW c \in Clients, ReconnectTooLate(k, c) PROVE TypeOK'
  BY <1>4 DEF ReconnectTooLate
<1>5. CASE ReconnectClosed(k)  BY <1>5 DEF ReconnectClosed, Finished, CutShort, NoReconnect
<1> QED BY <1>1, <1>2, <1>3, <1>4, <1>5 DEF ReconnectNext

LEMMA AddTypeOK ==
    ASSUME TypeOK, NEW e \in Entries, AddNext(e)
    PROVE  TypeOK'
<1> USE DEF TypeOK, ClientOrNone
<1>1. CASE AddFails(e) BY <1>1 DEF AddFails, NoAdder
<1>2. ASSUME NEW k \in Resolves(e), NEW c \in Clients, NEW energy \in BOOLEAN,
             AddConnects(e, k, c, energy)
      PROVE  TypeOK'
  <2>1. k \in Keys /\ devices[k] \in ClientOrNone BY DEF Resolves
  <2>2. CASE devices[k] # None /\ ~(inFlight[devices[k]] > 0)
    <3>1. devices[k] \in Clients BY <2>1, <2>2
    <3>2. adder' = [adder EXCEPT ![e] = [pc |-> "closing", key |-> k, new |-> c,
                                          victim |-> devices[k]]]
      BY <1>2, <2>2 DEF AddConnects
    <3>3. UNCHANGED <<devices, emeter, manual, retiring, inFlight, fetch, reconnect,
                      dropping, stage, phase>>
          /\ raced' = raced \cup {devices[k]}
          /\ session' = [session EXCEPT ![c] = "open"] /\ cut' = cut \ {c}
      BY <1>2, <2>2 DEF AddConnects
    <3> QED BY <2>1, <3>1, <3>2, <3>3
  <2>3. CASE ~(devices[k] # None /\ ~(inFlight[devices[k]] > 0))
    <3>1. Register(k, c, energy)
          /\ manual' = [manual EXCEPT ![e] = k]
          /\ retiring' = (IF devices[k] # None THEN retiring \cup {devices[k]} ELSE retiring)
          /\ adder' = [adder EXCEPT ![e] = NoAdder]
          /\ UNCHANGED <<raced, inFlight, fetch, reconnect, dropping, stage, phase>>
          /\ session' = [session EXCEPT ![c] = "open"] /\ cut' = cut \ {c}
      BY <1>2, <2>3 DEF AddConnects
    <3> QED BY <2>1, <3>1 DEF Register, NoAdder
  <2> QED BY <2>2, <2>3
<1>3. ASSUME NEW energy \in BOOLEAN, AddCloses(e, energy) PROVE TypeOK'
  BY <1>3 DEF AddCloses, Register, NoAdder
<1>4. CASE AddCancelled(e) BY <1>4 DEF AddCancelled, NoAdder
<1> QED BY <1>1, <1>2, <1>3, <1>4 DEF AddNext

LEMMA DiscoveryTypeOK ==
    ASSUME TypeOK, DiscoveryNext
    PROVE  TypeOK'
<1> USE DEF TypeOK, ClientOrNone
<1>1. CASE PassStart  BY <1>1 DEF PassStart
<1>2. CASE AddsStart  BY <1>2 DEF AddsStart, NoAdder, Adding
<1>3. CASE AddsEnd    BY <1>3 DEF AddsEnd
<1>4. CASE DropClosed BY <1>4 DEF DropClosed, Finished, CutShort
<1>5. CASE PruneEnd   BY <1>5 DEF PruneEnd
<1>6. CASE PassEnd    BY <1>6 DEF PassEnd
<1>7. ASSUME NEW e \in Entries, DropMoved(e) PROVE TypeOK'
  <2>1. manual[e] \in Keys /\ manual' = [manual EXCEPT ![e] = None]
        /\ UNCHANGED <<session, adder, stage, phase, inFlight, fetch, reconnect, raced, cut>>
    BY <1>7 DEF DropMoved
  <2>2. CASE UNCHANGED <<devices, emeter, retiring, dropping>> BY <2>1, <2>2
  <2>3. CASE /\ devices' = [devices EXCEPT ![manual[e]] = None]
             /\ emeter' = [emeter EXCEPT ![manual[e]] = None]
             /\ Release(devices[manual[e]]) \/ UNCHANGED <<retiring, dropping>>
             /\ devices[manual[e]] # None \/ UNCHANGED <<retiring, dropping>>
    BY <2>1, <2>3 DEF Release
  <2> QED BY <1>7, <2>2, <2>3 DEF DropMoved
<1>8. ASSUME NEW e \in Entries, AddNext(e) PROVE TypeOK'
  BY <1>8, AddTypeOK
<1>9. ASSUME NEW k \in Keys, Prune(k) PROVE TypeOK'
  BY <1>9 DEF Prune, Release
<1>10. ASSUME NEW k \in Keys, NEW c \in Clients, NEW energy \in BOOLEAN,
              RegisterFound(k, c, energy)
       PROVE  TypeOK'
  BY <1>10 DEF RegisterFound, Register
<1> QED BY <1>1, <1>2, <1>3, <1>4, <1>5, <1>6, <1>7, <1>8, <1>9, <1>10 DEF DiscoveryNext

LEMMA NextTypeOK ==
    ASSUME TypeOK, [Next]_vars
    PROVE  TypeOK'
<1> USE DEF TypeOK, ClientOrNone
<1>1. ASSUME NEW l \in Loops, CycleStart(l) PROVE TypeOK'
  BY <1>1 DEF CycleStart, Fetches
<1>2. ASSUME NEW t \in Fetches, FetchNext(t) PROVE TypeOK'
  BY <1>2, FetchTypeOK
<1>3. ASSUME NEW k \in Keys, ReconnectNext(k) PROVE TypeOK'
  BY <1>3, ReconnectTypeOK
<1>4. CASE DiscoveryNext BY <1>4, DiscoveryTypeOK
<1>5. CASE Shutdown \/ CloseReconnects \/ BeginDisconnect
  BY <1>5 DEF Shutdown, CloseReconnects, BeginDisconnect
<1>6. CASE DisconnectAll BY <1>6 DEF DisconnectAll
<1>7. CASE UNCHANGED vars BY <1>7 DEF vars
<1> QED BY <1>1, <1>2, <1>3, <1>4, <1>5, <1>6, <1>7 DEF Next, ShutdownNext, Terminated

\* Every variable keeps its type: in particular a fetch, a reconnect or an add under way
\* always has a client (ClientLifecycle's TypeOK).
THEOREM TypesHold == Spec => []TypeOK
BY InitTypeOK, NextTypeOK, PTL DEF Spec

-----------------------------------------------------------------------------
(* The count of a client is the number of fetches that hold it. *)

LEMMA HoldersFinite == \A c : IsFiniteSet(Holders(c))
<1>1. IsFiniteSet(Loops)
  <2>1. Loops = {"emeter"} \cup {"sysinfo"} BY DEF Loops
  <2>2. IsFiniteSet({"emeter"}) BY FS_Singleton
  <2> QED BY <2>1, <2>2, FS_AddElement
<1>2. IsFiniteSet(Fetches) BY <1>1, KeysAssumption, FS_Product DEF Fetches
<1> QED BY <1>2, FS_Subset DEF Holders

\* A step that begins and ends no fetch keeps the count right.
CountsAsBefore ==
    /\ inFlight' = inFlight
    /\ \A t \in Fetches :
        \/ fetch'[t] = fetch[t]
        \/ fetch[t].pc # "running" /\ fetch'[t].pc # "running"

LEMMA CountStays ==
    ASSUME InFlightExact, CountsAsBefore
    PROVE  InFlightExact'
<1>1. \A c : Holders(c)' = Holders(c) BY DEF Holders, CountsAsBefore
<1> QED BY <1>1 DEF InFlightExact, CountsAsBefore

LEMMA BeginCounts ==
    ASSUME TypeOK, InFlightExact, NEW t \in Fetches, FetchBegin(t)
    PROVE  InFlightExact'
<1> PICK c \in Clients : c = fetch[t].client BY DEF FetchBegin, TypeOK
<1>1. c \in Clients /\ t \notin Holders(c) /\ inFlight[c] \in Nat
  BY DEF FetchBegin, TypeOK, Holders
<1>2. Holders(c)' = Holders(c) \cup {t} BY DEF FetchBegin, TypeOK, Holders
<1>3. \A d \in Clients \ {c} : Holders(d)' = Holders(d) BY DEF FetchBegin, TypeOK, Holders
<1>4. Cardinality(Holders(c)') = Cardinality(Holders(c)) + 1
  BY <1>1, <1>2, HoldersFinite, FS_AddElement
<1>5. inFlight' = [inFlight EXCEPT ![c] = @ + 1] BY DEF FetchBegin
<1> QED BY <1>1, <1>3, <1>4, <1>5 DEF InFlightExact, TypeOK

\* Only a client's last fetch brings its count to zero.
LEMMA EndCounts ==
    ASSUME TypeOK, InFlightExact, NEW t \in Fetches, FetchEnd(t)
    PROVE  /\ InFlightExact'
           /\ inFlight[fetch[t].client] <= 1 <=> Holders(fetch[t].client) = {t}
<1> PICK c \in Clients : c = fetch[t].client BY DEF FetchEnd, TypeOK
<1>1. c \in Clients /\ t \in Holders(c) /\ inFlight[c] \in Nat
  BY DEF FetchEnd, TypeOK, Holders
<1>0. fetch'[t].pc # "running" /\ \A u \in Fetches \ {t} : fetch'[u] = fetch[u]
  BY DEF FetchEnd, TypeOK, NoFetch
<1>2. Holders(c)' = Holders(c) \ {t} BY <1>0 DEF Holders
<1>3. \A d \in Clients \ {c} : Holders(d)' = Holders(d) BY <1>0 DEF Holders
<1>4. /\ Cardinality(Holders(c)') = Cardinality(Holders(c)) - 1
      /\ IsFiniteSet(Holders(c)') /\ Cardinality(Holders(c)') \in Nat
  BY <1>1, <1>2, HoldersFinite, FS_RemoveElement, FS_CardinalityType
<1>5. inFlight[c] = Cardinality(Holders(c)) BY <1>1 DEF InFlightExact
<1>6. inFlight' = [inFlight EXCEPT ![c] = IF inFlight[c] <= 1 THEN 0 ELSE @ - 1]
  BY DEF FetchEnd
<1>7. inFlight'[c] = Cardinality(Holders(c)') BY <1>1, <1>4, <1>5, <1>6 DEF TypeOK
<1>8. ASSUME inFlight[c] <= 1 PROVE Holders(c) = {t}
  <2>1. Cardinality(Holders(c)') = 0 BY <1>1, <1>4, <1>5, <1>8
  <2> QED BY <1>1, <1>2, <1>4, <2>1, FS_EmptySet
<1>9. InFlightExact' BY <1>1, <1>3, <1>6, <1>7 DEF InFlightExact, TypeOK
<1>10. Holders(c) = {t} => inFlight[c] <= 1 BY <1>5, FS_Singleton
<1> QED BY <1>8, <1>9, <1>10

LEMMA NextInFlightExact ==
    ASSUME TypeOK, InFlightExact, [Next]_vars
    PROVE  InFlightExact'
<1>1. ASSUME NEW l \in Loops, CycleStart(l) PROVE InFlightExact'
  <2>1. \A t \in Fetches :
          \/ fetch'[t] = fetch[t]
          \/ fetch[t].pc # "running" /\ fetch'[t].pc # "running"
    BY <1>1 DEF CycleStart, Fetches
  <2> QED BY <1>1, <2>1, CountStays DEF CycleStart, CountsAsBefore
<1>2. ASSUME NEW t \in Fetches, FetchNext(t) PROVE InFlightExact'
  <2>1. CASE FetchBegin(t) BY <2>1, BeginCounts
  <2>2. CASE FetchEnd(t) BY <2>2, EndCounts
  <2>3. CASE FetchSkip(t) \/ FetchUpdate(t) \/ FetchClosed(t)
    <3>1. CountsAsBefore
      BY <2>3 DEF FetchSkip, FetchUpdate, FetchClosed, NoFetch, TypeOK, CountsAsBefore
    <3> QED BY <3>1, CountStays
  <2> QED BY <1>2, <2>1, <2>2, <2>3 DEF FetchNext
<1>3. CASE UNCHANGED <<inFlight, fetch>> BY <1>3, CountStays DEF CountsAsBefore
<1>4. CASE \E k \in Keys : ReconnectNext(k)
  <2>1. UNCHANGED <<inFlight, fetch>>
    BY <1>4 DEF ReconnectNext, RequestReconnect, ReconnectFails, ReconnectSwaps,
                ReconnectTooLate, ReconnectClosed
  <2> QED BY <2>1, <1>3
<1>5. CASE DiscoveryNext
  <2>1. UNCHANGED <<inFlight, fetch>>
    BY <1>5 DEF DiscoveryNext, AddNext, PassStart, AddsStart, AddsEnd, DropClosed, PruneEnd,
                PassEnd, DropMoved, Prune, RegisterFound, AddFails, AddConnects, AddCloses,
                AddCancelled
  <2> QED BY <2>1, <1>3
<1>6. CASE ShutdownNext
  <2>1. UNCHANGED <<inFlight, fetch>>
    BY <1>6 DEF ShutdownNext, Shutdown, CloseReconnects, BeginDisconnect, DisconnectAll
  <2> QED BY <2>1, <1>3
<1> QED BY <1>1, <1>2, <1>3, <1>4, <1>5, <1>6 DEF Next, Terminated, vars

LEMMA InitInFlightExact == Init => InFlightExact
<1>1. Init => \A c : Holders(c) = {} BY DEF Init, Holders, NoFetch
<1> QED BY <1>1, FS_EmptySet DEF Init, InFlightExact

\* hold() and release() keep an exact count, so the fetch that takes it to zero, and
\* closes a retired client, is the last one on it (poller.py, _ClientState).
THEOREM CountIsExact == Spec => []InFlightExact
BY InitTypeOK, InitInFlightExact, NextTypeOK, NextInFlightExact, TypesHold, PTL DEF Spec

-----------------------------------------------------------------------------
(* Safety, client by client. *)

Held(c) == \E t \in Fetches : fetch[t].pc = "running" /\ fetch[t].client = c

\* What HeldNeverClosed, RegisteredNeverClosed, RetiringDropped and NoLeak say of c.
SafeClient(c) ==
    c \notin raced =>
        /\ Held(c) => session[c] = "open" /\ ~Closing(c)
        /\ Registered(c) => session[c] = "open" /\ ~Closing(c)
        /\ c \in retiring => ~Registered(c)
        /\ session[c] = "open" /\ c \notin cut =>
              Registered(c) \/ InHand(c) \/ Closing(c) \/ (c \in retiring /\ Held(c))

LEMMA SafeByClient ==
    TypeOK => ((HeldNeverClosed /\ RegisteredNeverClosed /\ RetiringDropped /\ NoLeak)
                  <=> \A c \in Clients : SafeClient(c))
<1> SUFFICES ASSUME TypeOK
             PROVE  (HeldNeverClosed /\ RegisteredNeverClosed /\ RetiringDropped /\ NoLeak)
                       <=> \A c \in Clients : SafeClient(c)
  OBVIOUS
<1>1. \A c : Held(c) <=> Holders(c) # {} BY DEF Held, Holders
<1>2. \A t \in Fetches : fetch[t].pc = "running" => fetch[t].client \in Clients
  BY DEF TypeOK
<1>3. HeldNeverClosed <=>
        \A c \in Clients : c \notin raced /\ Held(c) => session[c] = "open" /\ ~Closing(c)
  BY <1>2 DEF HeldNeverClosed, Held
<1>4. retiring \subseteq Clients BY DEF TypeOK
<1> QED
  BY <1>1, <1>3, <1>4 DEF RegisteredNeverClosed, RetiringDropped, NoLeak, SafeClient

LEMMA SafeByClientNext ==
    TypeOK' => ((HeldNeverClosed /\ RegisteredNeverClosed /\ RetiringDropped /\ NoLeak)'
                   <=> (\A c \in Clients : SafeClient(c))')
BY SafeByClient, PTL

\* The types the steps below use.
Shape ==
    /\ devices \in [Keys -> ClientOrNone] /\ emeter \in [Keys -> ClientOrNone]
    /\ session \in [Clients -> {"open", "closed"}]
    /\ DOMAIN fetch = Fetches /\ DOMAIN reconnect = Keys /\ DOMAIN adder = Entries
    /\ \A t \in Fetches : fetch[t].pc # "idle" => fetch[t].client \in Clients
    /\ \A k \in Keys : reconnect[k].pc # "idle" => reconnect[k].client \in Clients
    /\ \A e \in Entries : adder[e].pc = "closing" =>
          adder[e].key \in Keys /\ adder[e].new \in Clients /\ adder[e].victim \in Clients

LEMMA TypeShape == TypeOK => Shape
BY DEF TypeOK, Shape

LEMMA HeldCounted ==
    ASSUME TypeOK, InFlightExact
    PROVE  \A c \in Clients : inFlight[c] \in Nat /\ (inFlight[c] = 0 <=> ~Held(c))
<1> TAKE c \in Clients
<1>1. IsFiniteSet(Holders(c)) /\ (Cardinality(Holders(c)) = 0 <=> Holders(c) = {})
  BY HoldersFinite, FS_EmptySet
<1>2. Held(c) <=> Holders(c) # {} BY DEF Held, Holders
<1> QED BY <1>1, <1>2 DEF InFlightExact, TypeOK

\* What a step leaves alone, from the variables it leaves alone.
LEMMA Frame ==
    ASSUME NEW c
    PROVE  /\ devices' = devices => (Registered(c)' <=> Registered(c))
           /\ fetch' = fetch => (Held(c)' <=> Held(c)) /\ (ClosedByFetch(c)' <=> ClosedByFetch(c))
           /\ reconnect' = reconnect => (ClosedByReconnect(c)' <=> ClosedByReconnect(c))
           /\ adder' = adder => (ClosedByAdder(c)' <=> ClosedByAdder(c))
                                /\ (InHand(c)' <=> InHand(c))
BY DEF Registered, Held, ClosedByFetch, ClosedByReconnect, ClosedByAdder, InHand

LooksSame(c) ==
    /\ (Registered(c)' <=> Registered(c)) /\ (Held(c)' <=> Held(c))
    /\ (Closing(c)' <=> Closing(c)) /\ (InHand(c)' <=> InHand(c))
    /\ session'[c] = session[c] /\ (c \in retiring' <=> c \in retiring)
    /\ raced \subseteq raced' /\ (c \in cut => c \in cut')

LEMMA SameIsSafe ==
    ASSUME NEW c, SafeClient(c), LooksSame(c)
    PROVE  SafeClient(c)'
BY DEF SafeClient, LooksSame

-----------------------------------------------------------------------------
(* The poller's steps keep a client safe. *)

LEMMA CycleStartSafe ==
    ASSUME Shape, NEW d \in Clients, SafeClient(d), NEW l \in Loops, CycleStart(l)
    PROVE  SafeClient(d)'
<1>1. \A t \in Fetches : fetch'[t] = fetch[t] \/ (fetch[t].pc = "idle" /\ fetch'[t].pc = "spawned")
  BY DEF CycleStart, Fetches
<1>2. (Held(d)' <=> Held(d)) /\ (ClosedByFetch(d)' <=> ClosedByFetch(d))
  BY <1>1 DEF Held, ClosedByFetch
<1>3. LooksSame(d) BY <1>2, Frame DEF CycleStart, LooksSame, Closing
<1> QED BY <1>3, SameIsSafe

LEMMA FetchBeginSafe ==
    ASSUME Shape, NEW d \in Clients, SafeClient(d), NEW t \in Fetches, FetchBegin(t)
    PROVE  SafeClient(d)'
<1> PICK c \in Clients : c = fetch[t].client BY DEF FetchBegin, Shape
<1>1. /\ fetch'[t].pc = "running" /\ fetch'[t].client = c
      /\ \A u \in Fetches \ {t} : fetch'[u] = fetch[u]
  BY DEF FetchBegin, Shape
<1>2. ClosedByFetch(d)' <=> ClosedByFetch(d) BY <1>1 DEF FetchBegin, ClosedByFetch
<1>3. Held(d)' <=> Held(d) \/ d = c BY <1>1 DEF FetchBegin, Held
<1>4. Registered(c) BY DEF FetchBegin, Registered, Fetches
<1>5. /\ (Registered(d)' <=> Registered(d)) /\ (Closing(d)' <=> Closing(d))
      /\ (InHand(d)' <=> InHand(d))
      /\ UNCHANGED <<session, retiring, raced, cut>>
  BY <1>2, Frame DEF FetchBegin, Closing
<1> QED BY <1>3, <1>4, <1>5 DEF SafeClient

LEMMA FetchSkipSafe ==
    ASSUME Shape, NEW d \in Clients, SafeClient(d), NEW t \in Fetches, FetchSkip(t)
    PROVE  SafeClient(d)'
<1>1. /\ fetch[t].pc = "spawned" /\ fetch'[t].pc = "idle"
      /\ \A u \in Fetches \ {t} : fetch'[u] = fetch[u]
  BY DEF FetchSkip, Shape, NoFetch
<1>2. (Held(d)' <=> Held(d)) /\ (ClosedByFetch(d)' <=> ClosedByFetch(d))
  BY <1>1 DEF Held, ClosedByFetch
<1>3. LooksSame(d) BY <1>2, Frame DEF FetchSkip, LooksSame, Closing
<1> QED BY <1>3, SameIsSafe

LEMMA FetchUpdateSafe ==
    ASSUME Shape, NEW d \in Clients, SafeClient(d), NEW t \in Fetches, FetchUpdate(t)
    PROVE  SafeClient(d)'
<1> PICK c \in Clients : c = fetch[t].client BY DEF FetchUpdate, Shape
<1>1. Held(c) BY DEF FetchUpdate, Held
<1>2. /\ (Registered(d)' <=> Registered(d)) /\ (Held(d)' <=> Held(d))
      /\ (Closing(d)' <=> Closing(d)) /\ (InHand(d)' <=> InHand(d))
      /\ UNCHANGED <<retiring, raced, cut>>
  BY Frame DEF FetchUpdate, Closing
<1>3. session' = [session EXCEPT ![c] = "open"] BY DEF FetchUpdate
<1> QED BY <1>1, <1>2, <1>3 DEF SafeClient, Shape

LEMMA FetchEndSafe ==
    ASSUME TypeOK, InFlightExact, NEW d \in Clients, SafeClient(d), NEW t \in Fetches,
           FetchEnd(t)
    PROVE  SafeClient(d)'
<1> PICK c \in Clients : c = fetch[t].client BY DEF FetchEnd, TypeOK
<1> DEFINE last == inFlight[c] <= 1
<1>1. /\ fetch[t].pc = "running"
      /\ IF last /\ c \in retiring
         THEN fetch'[t].pc = "closing" /\ fetch'[t].client = c ELSE fetch'[t].pc = "idle"
      /\ \A u \in Fetches \ {t} : fetch'[u] = fetch[u]
  BY DEF FetchEnd, TypeOK, NoFetch
<1>2. /\ (Registered(d)' <=> Registered(d)) /\ (InHand(d)' <=> InHand(d))
      /\ (ClosedByReconnect(d)' <=> ClosedByReconnect(d))
      /\ (ClosedByAdder(d)' <=> ClosedByAdder(d))
      /\ UNCHANGED <<session, dropping, raced, cut>>
      /\ retiring' = (IF last THEN retiring \ {c} ELSE retiring)
  BY Frame DEF FetchEnd
<1>3. ClosedByFetch(d)' <=> ClosedByFetch(d) \/ (d = c /\ last /\ c \in retiring)
  BY <1>1 DEF ClosedByFetch
<1>4. d # c => (Held(d)' <=> Held(d)) BY <1>1 DEF Held
<1>5. Held(c) BY <1>1 DEF Held
<1>6. Held(c)' <=> ~last
  <2>1. last <=> Holders(c) = {t} BY EndCounts
  <2>2. Held(c)' <=> \E u \in Holders(c) : u # t BY <1>1 DEF Held, Holders
  <2>3. t \in Holders(c) BY <1>1 DEF Holders
  <2> QED BY <2>1, <2>2, <2>3
<1>7. CASE d # c
  <2>1. LooksSame(d) BY <1>2, <1>3, <1>4, <1>7 DEF LooksSame, Closing
  <2> QED BY <2>1, SameIsSafe
<1>8. CASE d = c
  BY <1>2, <1>3, <1>5, <1>6, <1>8 DEF SafeClient, Closing
<1> QED BY <1>7, <1>8

LEMMA FetchClosedSafe ==
    ASSUME Shape, NEW d \in Clients, SafeClient(d), NEW t \in Fetches, FetchClosed(t)
    PROVE  SafeClient(d)'
<1> PICK c \in Clients : c = fetch[t].client BY DEF FetchClosed, Shape
<1>1. /\ fetch[t].pc = "closing" /\ fetch'[t].pc = "idle"
      /\ \A u \in Fetches \ {t} : fetch'[u] = fetch[u]
  BY DEF FetchClosed, Shape, NoFetch
<1>2. /\ (Registered(d)' <=> Registered(d)) /\ (InHand(d)' <=> InHand(d))
      /\ (ClosedByReconnect(d)' <=> ClosedByReconnect(d))
      /\ (ClosedByAdder(d)' <=> ClosedByAdder(d))
      /\ UNCHANGED <<retiring, dropping, raced>>
  BY Frame DEF FetchClosed
<1>3. Held(d)' <=> Held(d) BY <1>1 DEF Held
<1>4. d # c => (ClosedByFetch(d)' <=> ClosedByFetch(d)) BY <1>1 DEF ClosedByFetch
<1>5. Closing(c) BY <1>1 DEF Closing, ClosedByFetch
<1>6. \/ session' = [session EXCEPT ![c] = "closed"] /\ cut' = cut
      \/ (session' = [session EXCEPT ![c] = "closed"] \/ session' = session)
         /\ cut' = cut \cup {c}
  BY DEF FetchClosed, Finished, CutShort
<1>7. CASE d # c
  <2>1. LooksSame(d) BY <1>2, <1>3, <1>4, <1>6, <1>7 DEF LooksSame, Closing, Shape
  <2> QED BY <2>1, SameIsSafe
<1>8. CASE d = c
  <2>1. session'[c] = "closed" \/ c \in cut' BY <1>6 DEF Shape
  <2> QED BY <1>2, <1>3, <1>5, <1>8, <2>1 DEF SafeClient
<1> QED BY <1>7, <1>8


-----------------------------------------------------------------------------
(* The reconnects keep a client safe. *)

LEMMA FreshApart ==
    ASSUME NEW n \in Clients, Fresh(n)
    PROVE  /\ session[n] = "closed" /\ n \notin retiring /\ n \notin raced /\ dropping # n
           /\ ~Registered(n) /\ ~Held(n) /\ ~Closing(n) /\ ~InHand(n)
           /\ \A k \in Keys : devices[k] # n /\ emeter[k] # n /\ reconnect[k].client # n
           /\ \A t \in Fetches : fetch[t].client # n
BY DEF Fresh, Mentioned, Registered, Held, Closing, ClosedByFetch, ClosedByReconnect,
       ClosedByAdder, InHand

LEMMA RequestReconnectSafe ==
    ASSUME Shape, NEW d \in Clients, SafeClient(d), NEW k \in Keys, RequestReconnect(k)
    PROVE  SafeClient(d)'
<1>1. /\ reconnect[k].pc = "idle" /\ reconnect'[k].pc = "connecting"
      /\ \A j \in Keys \ {k} : reconnect'[j] = reconnect[j]
  BY DEF RequestReconnect, Shape
<1>2. ClosedByReconnect(d)' <=> ClosedByReconnect(d) BY <1>1 DEF ClosedByReconnect
<1>3. LooksSame(d) BY <1>2, Frame DEF RequestReconnect, LooksSame, Closing
<1> QED BY <1>3, SameIsSafe

LEMMA ReconnectFailsSafe ==
    ASSUME Shape, NEW d \in Clients, SafeClient(d), NEW k \in Keys, ReconnectFails(k)
    PROVE  SafeClient(d)'
<1>1. /\ reconnect[k].pc = "connecting" /\ reconnect'[k].pc = "idle"
      /\ \A j \in Keys \ {k} : reconnect'[j] = reconnect[j]
  BY DEF ReconnectFails, Shape, NoReconnect
<1>2. ClosedByReconnect(d)' <=> ClosedByReconnect(d) BY <1>1 DEF ClosedByReconnect
<1>3. LooksSame(d) BY <1>2, Frame DEF ReconnectFails, LooksSame, Closing
<1> QED BY <1>3, SameIsSafe

\* The old client leaves the registry into retiring, if held, or into its close.
LEMMA ReconnectSwapsSafe ==
    ASSUME TypeOK, InFlightExact, OneKeyEach, NEW d \in Clients, SafeClient(d),
           NEW k \in Keys, NEW n \in Clients, ReconnectSwaps(k, n)
    PROVE  SafeClient(d)'
<1>0. Shape BY TypeShape
<1> PICK old \in Clients : old = reconnect[k].client BY <1>0 DEF ReconnectSwaps, Shape
<1> DEFINE held == inFlight[old] > 0
<1>1. /\ reconnect[k].pc = "connecting" /\ devices[k] = old /\ Fresh(n)
      /\ session' = [session EXCEPT ![n] = "open"]
      /\ devices' = [devices EXCEPT ![k] = n]
      /\ retiring' = (IF held THEN retiring \cup {old} ELSE retiring)
      /\ cut' = cut \ {n}
      /\ UNCHANGED <<fetch, adder, dropping, raced>>
  BY DEF ReconnectSwaps, MaySwap
<1>2. /\ IF held THEN reconnect'[k].pc = "idle"
         ELSE reconnect'[k].pc = "closing" /\ reconnect'[k].client = old
      /\ \A j \in Keys \ {k} : reconnect'[j] = reconnect[j]
  BY <1>0 DEF ReconnectSwaps, NoReconnect, Shape
<1>3. held <=> Held(old) BY HeldCounted
<1>4. n # old BY <1>1, FreshApart
<1>5. /\ (Held(d)' <=> Held(d)) /\ (ClosedByFetch(d)' <=> ClosedByFetch(d))
      /\ (ClosedByAdder(d)' <=> ClosedByAdder(d)) /\ (InHand(d)' <=> InHand(d))
  BY <1>1, Frame
<1>6. ClosedByReconnect(d)' <=> ClosedByReconnect(d) \/ (d = old /\ ~held)
  BY <1>1, <1>2 DEF ClosedByReconnect
<1>7. Registered(d)' <=> d = n \/ (d # old /\ Registered(d))
  BY <1>0, <1>1, <1>4, NoneAssumption DEF Registered, OneKeyEach, Shape
<1>8. Registered(old) BY <1>1 DEF Registered
<1>9. CASE d = n
  <2>1. session'[n] = "open" /\ n \notin retiring' BY <1>0, <1>1, <1>4, FreshApart DEF Shape
  <2>2. ~Closing(n)' BY <1>1, <1>4, <1>5, <1>6, <1>9, FreshApart DEF Closing
  <2> QED BY <1>7, <1>9, <2>1, <2>2 DEF SafeClient
<1>10. CASE d = old
  <2>1. session'[d] = session[d] BY <1>0, <1>1, <1>4, <1>10 DEF Shape
  <2>2. Closing(d)' <=> Closing(d) \/ ~held BY <1>1, <1>5, <1>6, <1>10 DEF Closing
  <2> QED BY <1>1, <1>3, <1>4, <1>5, <1>7, <1>8, <1>10, <2>1, <2>2 DEF SafeClient
<1>11. CASE d # n /\ d # old
  <2>1. session'[d] = session[d] BY <1>0, <1>1, <1>11 DEF Shape
  <2>2. LooksSame(d) BY <1>1, <1>5, <1>6, <1>7, <1>11, <2>1 DEF LooksSame, Closing
  <2> QED BY <2>2, SameIsSafe
<1> QED BY <1>9, <1>10, <1>11

LEMMA ReconnectTooLateSafe ==
    ASSUME Shape, NEW d \in Clients, SafeClient(d), NEW k \in Keys, NEW n \in Clients,
           ReconnectTooLate(k, n)
    PROVE  SafeClient(d)'
<1>1. /\ reconnect[k].pc = "connecting" /\ Fresh(n)
      /\ session' = [session EXCEPT ![n] = "open"] /\ cut' = cut \ {n}
      /\ UNCHANGED <<devices, retiring, fetch, adder, dropping, raced>>
  BY DEF ReconnectTooLate
<1>2. /\ reconnect'[k].pc = "closing" /\ reconnect'[k].client = n
      /\ \A j \in Keys \ {k} : reconnect'[j] = reconnect[j]
  BY DEF ReconnectTooLate, Shape
<1>3. ClosedByReconnect(d)' <=> ClosedByReconnect(d) \/ d = n
  BY <1>1, <1>2 DEF ClosedByReconnect
<1>4. (Registered(d)' <=> Registered(d)) /\ (Held(d)' <=> Held(d))
  BY <1>1, Frame
<1>5. CASE d = n BY <1>1, <1>3, <1>4, <1>5, FreshApart DEF SafeClient, Closing
<1>6. CASE d # n
  <2>1. session'[d] = session[d] BY <1>1, <1>6 DEF Shape
  <2>2. LooksSame(d) BY <1>1, <1>3, <1>6, <2>1, Frame DEF LooksSame, Closing
  <2> QED BY <2>2, SameIsSafe
<1> QED BY <1>5, <1>6

LEMMA ReconnectClosedSafe ==
    ASSUME Shape, NEW d \in Clients, SafeClient(d), NEW k \in Keys, ReconnectClosed(k)
    PROVE  SafeClient(d)'
<1> PICK c \in Clients : c = reconnect[k].client BY DEF ReconnectClosed, Shape
<1>1. /\ reconnect[k].pc = "closing" /\ reconnect'[k].pc = "idle"
      /\ \A j \in Keys \ {k} : reconnect'[j] = reconnect[j]
  BY DEF ReconnectClosed, Shape, NoReconnect
<1>2. /\ (Registered(d)' <=> Registered(d)) /\ (InHand(d)' <=> InHand(d))
      /\ (Held(d)' <=> Held(d)) /\ (ClosedByFetch(d)' <=> ClosedByFetch(d))
      /\ (ClosedByAdder(d)' <=> ClosedByAdder(d))
      /\ UNCHANGED <<retiring, dropping, raced>>
  BY Frame DEF ReconnectClosed
<1>3. d # c => (ClosedByReconnect(d)' <=> ClosedByReconnect(d))
  BY <1>1 DEF ClosedByReconnect
<1>4. Closing(c) BY <1>1 DEF Closing, ClosedByReconnect
<1>5. \/ session' = [session EXCEPT ![c] = "closed"] /\ cut' = cut
      \/ (session' = [session EXCEPT ![c] = "closed"] \/ session' = session)
         /\ cut' = cut \cup {c}
  BY DEF ReconnectClosed, Finished, CutShort
<1>6. CASE d # c
  <2>1. LooksSame(d) BY <1>2, <1>3, <1>5, <1>6 DEF LooksSame, Closing, Shape
  <2> QED BY <2>1, SameIsSafe
<1>7. CASE d = c
  <2>1. session'[c] = "closed" \/ c \in cut' BY <1>5 DEF Shape
  <2> QED BY <1>2, <1>4, <1>7, <2>1 DEF SafeClient
<1> QED BY <1>6, <1>7

-----------------------------------------------------------------------------
(* The discovery task keeps a client safe. *)

\* A client leaves the registry into retiring, if held, or into its close.
LEMMA DropSafe ==
    ASSUME TypeOK, InFlightExact, OneKeyEach, NEW d \in Clients, SafeClient(d),
           NEW k \in Keys, devices[k] # None, dropping = None, Release(devices[k]),
           devices' = [devices EXCEPT ![k] = None],
           UNCHANGED <<session, fetch, reconnect, adder, raced, cut>>
    PROVE  SafeClient(d)'
<1>0. Shape BY TypeShape
<1> PICK c \in Clients : c = devices[k] BY <1>0 DEF Shape, ClientOrNone
<1>1. inFlight[c] > 0 <=> Held(c) BY HeldCounted
<1>2. /\ (Held(d)' <=> Held(d)) /\ (ClosedByFetch(d)' <=> ClosedByFetch(d))
      /\ (ClosedByReconnect(d)' <=> ClosedByReconnect(d))
      /\ (ClosedByAdder(d)' <=> ClosedByAdder(d)) /\ (InHand(d)' <=> InHand(d))
  BY Frame
<1>3. Registered(d)' <=> d # c /\ Registered(d)
  BY <1>0, NoneAssumption DEF Registered, OneKeyEach, Shape
<1>4. Registered(c) BY DEF Registered
<1>5. IF Held(c) THEN retiring' = retiring \cup {c} /\ dropping' = None
      ELSE retiring' = retiring /\ dropping' = c
  BY <1>1 DEF Release
<1>6. CASE d = c
  BY <1>2, <1>3, <1>4, <1>5, <1>6, NoneAssumption DEF SafeClient, Closing
<1>7. CASE d # c
  <2>1. LooksSame(d) BY <1>2, <1>3, <1>5, <1>7, NoneAssumption DEF LooksSame, Closing
  <2> QED BY <2>1, SameIsSafe
<1> QED BY <1>6, <1>7

LEMMA DropMovedSafe ==
    ASSUME TypeOK, InFlightExact, OneKeyEach, NEW d \in Clients, SafeClient(d),
           NEW e \in Entries, DropMoved(e)
    PROVE  SafeClient(d)'
<1> PICK k \in Keys : k = manual[e] BY DEF DropMoved, TypeOK
<1>1. UNCHANGED <<session, fetch, reconnect, adder, raced, cut>> /\ dropping = None
  BY DEF DropMoved
<1>2. CASE devices[k] # None /\ devices' # devices
  <2>1. devices' = [devices EXCEPT ![k] = None] /\ Release(devices[k])
    BY <1>2 DEF DropMoved
  <2> QED BY <1>1, <1>2, <2>1, DropSafe
<1>3. CASE ~(devices[k] # None /\ devices' # devices)
  <2>1. devices' = devices BY <1>3 DEF DropMoved, TypeOK
  <2>2. UNCHANGED <<retiring, dropping>>
    <3>1. CASE UNCHANGED <<devices, emeter, retiring, dropping>> BY <3>1
    <3>2. CASE ~UNCHANGED <<devices, emeter, retiring, dropping>>
      <4>1. devices' = [devices EXCEPT ![k] = None] BY <3>2 DEF DropMoved
      <4>2. devices[k] = None BY <4>1, <2>1 DEF TypeOK
      <4> QED BY <3>2, <4>2 DEF DropMoved
    <3> QED BY <3>1, <3>2
  <2>3. LooksSame(d) BY <1>1, <2>1, <2>2, Frame DEF LooksSame, Closing
  <2> QED BY <2>3, SameIsSafe
<1> QED BY <1>2, <1>3

LEMMA PruneSafe ==
    ASSUME TypeOK, InFlightExact, OneKeyEach, NEW d \in Clients, SafeClient(d),
           NEW k \in Keys, Prune(k)
    PROVE  SafeClient(d)'
BY DropSafe DEF Prune

LEMMA AddsStartSafe ==
    ASSUME Shape, Quiet, AddersApart, NEW d \in Clients, SafeClient(d), AddsStart
    PROVE  SafeClient(d)'
<1>1. \A e \in Entries : adder[e].pc = "idle" /\ adder[e].new = None
  BY DEF AddsStart, Quiet, AddersApart
<1>2. \A e \in Entries : adder'[e].pc # "closing" /\ adder'[e].new = None
  BY DEF AddsStart, Adding, NoAdder
<1>3. (ClosedByAdder(d)' <=> ClosedByAdder(d)) /\ (InHand(d)' <=> InHand(d))
  BY <1>1, <1>2, NoneAssumption DEF ClosedByAdder, InHand
<1>4. LooksSame(d) BY <1>3, Frame DEF AddsStart, LooksSame, Closing
<1> QED BY <1>4, SameIsSafe

LEMMA AddFailsSafe ==
    ASSUME Shape, AddersApart, NEW d \in Clients, SafeClient(d), NEW e \in Entries, AddFails(e)
    PROVE  SafeClient(d)'
<1>1. /\ adder[e].pc = "connecting" /\ adder[e].new = None
      /\ adder'[e].pc = "idle" /\ adder'[e].new = None
      /\ \A f \in Entries \ {e} : adder'[f] = adder[f]
  BY DEF AddFails, NoAdder, Shape, AddersApart
<1>2. (ClosedByAdder(d)' <=> ClosedByAdder(d)) /\ (InHand(d)' <=> InHand(d))
  BY <1>1, NoneAssumption DEF ClosedByAdder, InHand
<1>3. LooksSame(d) BY <1>2, Frame DEF AddFails, LooksSame, Closing
<1> QED BY <1>3, SameIsSafe


LEMMA AddConnectsSafe ==
    ASSUME TypeOK, InFlightExact, OneKeyEach, AddersApart, NEW d \in Clients, SafeClient(d),
           NEW e \in Entries, NEW k \in Keys, NEW n \in Clients, NEW energy \in BOOLEAN,
           AddConnects(e, k, n, energy)
    PROVE  SafeClient(d)'
<1>0. Shape BY TypeShape
<1> DEFINE p == devices[k]
<1>1. /\ adder[e].pc = "connecting" /\ adder[e].new = None /\ Fresh(n)
      /\ session' = [session EXCEPT ![n] = "open"] /\ cut' = cut \ {n}
      /\ UNCHANGED <<fetch, reconnect, dropping>>
  BY DEF AddConnects, AddersApart
<1>2. p # n BY <1>1, FreshApart
<1>3. /\ (Held(d)' <=> Held(d)) /\ (ClosedByFetch(d)' <=> ClosedByFetch(d))
      /\ (ClosedByReconnect(d)' <=> ClosedByReconnect(d))
  BY <1>1, Frame
<1>4. d # n => session'[d] = session[d] BY <1>0, <1>1 DEF Shape
<1>5. session'[n] = "open" BY <1>0, <1>1 DEF Shape
<1>6. CASE p # None /\ ~(inFlight[p] > 0)
  <2>1. /\ adder'[e].pc = "closing" /\ adder'[e].new = n /\ adder'[e].victim = p
        /\ \A f \in Entries \ {e} : adder'[f] = adder[f]
    BY <1>0, <1>6 DEF AddConnects, Shape
  <2>2. raced' = raced \cup {p} /\ UNCHANGED <<devices, retiring>> BY <1>6 DEF AddConnects
  <2>3. ClosedByAdder(d)' <=> ClosedByAdder(d) \/ d = p BY <1>1, <2>1 DEF ClosedByAdder
  <2>4. InHand(d)' <=> InHand(d) \/ d = n BY <1>1, <2>1, NoneAssumption DEF InHand
  <2>5. Registered(d)' <=> Registered(d) BY <2>2, Frame
  <2>6. CASE d = p BY <2>2, <2>6 DEF SafeClient
  <2>7. CASE d = n
    BY <1>1, <1>2, <1>3, <1>5, <2>2, <2>3, <2>4, <2>5, <2>7, FreshApart DEF SafeClient, Closing
  <2>8. CASE d # p /\ d # n
    <3>1. LooksSame(d)
      BY <1>1, <1>3, <1>4, <2>2, <2>3, <2>4, <2>5, <2>8 DEF LooksSame, Closing
    <3> QED BY <3>1, SameIsSafe
  <2> QED BY <2>6, <2>7, <2>8
<1>7. CASE ~(p # None /\ ~(inFlight[p] > 0))
  <2>1. /\ adder'[e].pc = "idle" /\ adder'[e].new = None
        /\ \A f \in Entries \ {e} : adder'[f] = adder[f]
    BY <1>0, <1>7 DEF AddConnects, NoAdder, Shape
  <2>2. /\ devices' = [devices EXCEPT ![k] = n] /\ raced' = raced
        /\ retiring' = (IF p # None THEN retiring \cup {p} ELSE retiring)
    BY <1>7 DEF AddConnects, Register
  <2>3. (ClosedByAdder(d)' <=> ClosedByAdder(d)) /\ (InHand(d)' <=> InHand(d))
    BY <1>1, <2>1, NoneAssumption DEF ClosedByAdder, InHand
  <2>4. Registered(d)' <=> d = n \/ (d # p /\ Registered(d))
    BY <1>0, <1>2, <2>2, NoneAssumption DEF Registered, OneKeyEach, Shape
  <2>5. Closing(d)' <=> Closing(d) BY <1>1, <1>3, <2>3 DEF Closing
  <2>6. CASE d = n
    BY <1>1, <1>2, <1>5, <2>2, <2>4, <2>5, <2>6, FreshApart DEF SafeClient
  <2>7. CASE d = p
    <3>1. Held(d) BY <1>7, <2>7, HeldCounted, NoneAssumption
    <3>2. Registered(d) BY <2>7 DEF Registered
    <3> QED BY <1>2, <1>3, <1>4, <2>2, <2>4, <2>5, <2>7, <3>1, <3>2, NoneAssumption DEF SafeClient
  <2>8. CASE d # n /\ d # p
    <3>1. LooksSame(d) BY <1>1, <1>3, <1>4, <2>2, <2>3, <2>4, <2>5, <2>8 DEF LooksSame
    <3> QED BY <3>1, SameIsSafe
  <2> QED BY <2>6, <2>7, <2>8
<1> QED BY <1>6, <1>7

\* The client an add has in hand, seen from the outside.
LEMMA InHandApart ==
    ASSUME Shape, AddersApart, NEW e \in Entries, adder[e].pc = "closing"
    PROVE  LET m == adder[e].new IN
           /\ m \in Clients /\ session[m] = "open" /\ m \notin retiring /\ m \notin raced
           /\ ~Registered(m) /\ ~Held(m) /\ ~Closing(m) /\ m # adder[e].victim
           /\ adder[e].victim \in raced
<1>1. adder[e].new \notin raced /\ \A f \in Entries : adder[f].pc = "closing" => adder[f].victim \in raced
  BY DEF AddersApart, Mentioned
<1> QED
  BY <1>1 DEF AddersApart, Mentioned, Shape, Registered, Held, Closing, ClosedByFetch,
              ClosedByReconnect, ClosedByAdder

LEMMA AddClosesSafe ==
    ASSUME Shape, AddersApart, OneKeyEach, NEW d \in Clients, SafeClient(d),
           NEW e \in Entries, NEW energy \in BOOLEAN, AddCloses(e, energy)
    PROVE  SafeClient(d)'
<1> DEFINE k == adder[e].key
           v == adder[e].victim
<1> PICK m \in Clients : m = adder[e].new BY DEF AddCloses, Shape
<1>1. /\ adder[e].pc = "closing" /\ k \in Keys
      /\ session' = [session EXCEPT ![v] = "closed"]
      /\ devices' = [devices EXCEPT ![k] = m]
      /\ raced' = raced \cup ({devices[k]} \ {None})
      /\ UNCHANGED <<retiring, fetch, reconnect, dropping, cut>>
  BY DEF AddCloses, Register, Shape
<1>2. /\ adder'[e].pc = "idle" /\ adder'[e].new = None
      /\ \A f \in Entries \ {e} : adder'[f] = adder[f]
  BY DEF AddCloses, NoAdder, Shape
<1>3. /\ m \in Clients /\ session[m] = "open" /\ m \notin retiring
      /\ ~Registered(m) /\ ~Held(m) /\ ~Closing(m) /\ m # v /\ v \in raced
  BY <1>1, InHandApart
<1>4. (ClosedByAdder(d)' => ClosedByAdder(d)) /\ (d # v => (ClosedByAdder(d)' <=> ClosedByAdder(d)))
  BY <1>1, <1>2 DEF ClosedByAdder
<1>5. d # m => (InHand(d)' <=> InHand(d))
  BY <1>2, NoneAssumption DEF InHand
<1>6. d # m /\ d # devices[k] => (Registered(d)' <=> Registered(d))
  BY <1>1 DEF Registered, Shape
<1>7. Registered(m)' BY <1>1 DEF Registered, Shape
<1>8. d # v => session'[d] = session[d] BY <1>1 DEF Shape
<1>9. /\ (Held(d)' <=> Held(d)) /\ (ClosedByFetch(d)' <=> ClosedByFetch(d))
      /\ (ClosedByReconnect(d)' <=> ClosedByReconnect(d))
  BY <1>1, Frame
<1>10. CASE d = v \/ d = devices[k]
  BY <1>1, <1>3, <1>10, NoneAssumption DEF SafeClient
<1>11. CASE d = m
  BY <1>1, <1>3, <1>4, <1>7, <1>8, <1>9, <1>11 DEF SafeClient, Closing
<1>12. CASE d # v /\ d # devices[k] /\ d # m
  <2>1. LooksSame(d)
    BY <1>1, <1>4, <1>5, <1>6, <1>8, <1>9, <1>12 DEF LooksSame, Closing
  <2> QED BY <2>1, SameIsSafe
<1> QED BY <1>10, <1>11, <1>12

LEMMA AddCancelledSafe ==
    ASSUME Shape, AddersApart, NEW d \in Clients, SafeClient(d), NEW e \in Entries,
           AddCancelled(e)
    PROVE  SafeClient(d)'
<1> DEFINE m == adder[e].new
           v == adder[e].victim
<1>1. /\ adder[e].pc = "closing"
      /\ session' = [session EXCEPT ![v] = "closed"] \/ session' = session
      /\ cut' = cut \cup {m}
      /\ UNCHANGED <<devices, retiring, fetch, reconnect, dropping, raced>>
  BY DEF AddCancelled
<1>2. /\ adder'[e].pc = "idle" /\ adder'[e].new = None
      /\ \A f \in Entries \ {e} : adder'[f] = adder[f]
  BY DEF AddCancelled, NoAdder, Shape
<1>3. m \notin retiring /\ ~Registered(m) /\ ~Held(m) /\ m # v /\ v \in raced
  BY <1>1, InHandApart
<1>4. d # v => (ClosedByAdder(d)' <=> ClosedByAdder(d)) BY <1>1, <1>2 DEF ClosedByAdder
<1>5. d # m => (InHand(d)' <=> InHand(d)) BY <1>2, NoneAssumption DEF InHand
<1>6. d # v => session'[d] = session[d] BY <1>1 DEF Shape
<1>7. /\ (Registered(d)' <=> Registered(d)) /\ (Held(d)' <=> Held(d))
      /\ (ClosedByFetch(d)' <=> ClosedByFetch(d))
      /\ (ClosedByReconnect(d)' <=> ClosedByReconnect(d))
  BY <1>1, Frame
<1>8. CASE d = v BY <1>1, <1>3, <1>8 DEF SafeClient
<1>9. CASE d = m BY <1>1, <1>3, <1>7, <1>9 DEF SafeClient
<1>10. CASE d # v /\ d # m
  <2>1. LooksSame(d) BY <1>1, <1>4, <1>5, <1>6, <1>7, <1>10 DEF LooksSame, Closing
  <2> QED BY <2>1, SameIsSafe
<1> QED BY <1>8, <1>9, <1>10

LEMMA DropClosedSafe ==
    ASSUME Shape, NEW d \in Clients, SafeClient(d), DropClosed
    PROVE  SafeClient(d)'
<1>1. /\ \/ session' = [session EXCEPT ![dropping] = "closed"] /\ cut' = cut
         \/ (session' = [session EXCEPT ![dropping] = "closed"] \/ session' = session)
            /\ cut' = cut \cup {dropping}
      /\ dropping' = None
      /\ UNCHANGED <<devices, fetch, reconnect, adder, retiring, raced>>
  BY DEF DropClosed, Finished, CutShort
<1>2. /\ (Registered(d)' <=> Registered(d)) /\ (Held(d)' <=> Held(d))
      /\ (InHand(d)' <=> InHand(d)) /\ (ClosedByFetch(d)' <=> ClosedByFetch(d))
      /\ (ClosedByReconnect(d)' <=> ClosedByReconnect(d))
      /\ (ClosedByAdder(d)' <=> ClosedByAdder(d))
  BY <1>1, Frame
<1>3. CASE d = dropping
  <2>1. session'[d] = "closed" \/ d \in cut' BY <1>1, <1>3 DEF Shape
  <2>2. Closing(d) BY <1>3 DEF Closing
  <2> QED BY <1>1, <1>2, <2>1, <2>2 DEF SafeClient
<1>4. CASE d # dropping
  <2>1. LooksSame(d) BY <1>1, <1>2, <1>4, NoneAssumption DEF LooksSame, Closing, Shape
  <2> QED BY <2>1, SameIsSafe
<1> QED BY <1>3, <1>4

LEMMA RegisterFoundSafe ==
    ASSUME Shape, NEW d \in Clients, SafeClient(d), NEW k \in Keys, NEW n \in Clients,
           NEW energy \in BOOLEAN, RegisterFound(k, n, energy)
    PROVE  SafeClient(d)'
<1>1. /\ devices[k] = None /\ Fresh(n)
      /\ session' = [session EXCEPT ![n] = "open"] /\ cut' = cut \ {n}
      /\ devices' = [devices EXCEPT ![k] = n]
      /\ UNCHANGED <<retiring, fetch, reconnect, adder, dropping, raced>>
  BY DEF RegisterFound, Register
<1>2. Registered(d)' <=> d = n \/ Registered(d)
  BY <1>1, NoneAssumption DEF Registered, Shape
<1>3. Closing(d)' <=> Closing(d) BY <1>1, Frame DEF Closing
<1>4. CASE d = n
  <2>1. session'[n] = "open" BY <1>1 DEF Shape
  <2> QED BY <1>1, <1>2, <1>3, <1>4, <2>1, FreshApart DEF SafeClient
<1>5. CASE d # n
  <2>1. LooksSame(d) BY <1>1, <1>2, <1>3, <1>5, Frame DEF LooksSame, Shape
  <2> QED BY <2>1, SameIsSafe
<1> QED BY <1>4, <1>5

\* A shutdown gets here when nothing runs: the only open clients are the registered ones.
LEMMA DisconnectAllSafe ==
    ASSUME Shape, Quiet, AddersApart, NEW d \in Clients, SafeClient(d), DisconnectAll
    PROVE  SafeClient(d)'
<1>1. /\ \A t \in Fetches : fetch[t].pc = "idle"
      /\ \A e \in Entries : adder[e].pc = "idle" /\ adder[e].new = None
      /\ \A k \in Keys : reconnect[k].pc = "idle"
      /\ dropping = None
  BY DEF DisconnectAll, Quiet, AddersApart
<1>2. ~Held(d) /\ ~Closing(d) /\ ~InHand(d)
  BY <1>1, NoneAssumption DEF Held, Closing, ClosedByFetch, ClosedByReconnect,
                              ClosedByAdder, InHand
<1>3. UNCHANGED <<fetch, reconnect, adder, dropping, retiring, raced, cut>>
  BY DEF DisconnectAll
<1>4. ~Held(d)' /\ ~Closing(d)' BY <1>2, <1>3, Frame DEF Closing
<1>5. ~Registered(d)' BY NoneAssumption DEF DisconnectAll, Registered
<1>6. session'[d] = IF Registered(d) THEN "closed" ELSE session[d] BY DEF DisconnectAll
<1> QED BY <1>2, <1>3, <1>4, <1>5, <1>6 DEF SafeClient

\* Steps that move a pass, or the shutdown, on.
LEMMA ProgressSafe ==
    ASSUME NEW d \in Clients, SafeClient(d),
           UNCHANGED <<devices, session, retiring, fetch, reconnect, adder, dropping, raced, cut>>
    PROVE  SafeClient(d)'
<1>1. LooksSame(d) BY Frame DEF LooksSame, Closing
<1> QED BY <1>1, SameIsSafe


-----------------------------------------------------------------------------
(* A client is registered under one key, and what an add has in hand is its own. *)

LEMMA NextOneKeyEach ==
    ASSUME TypeOK, OneKeyEach, AddersApart, Next
    PROVE  OneKeyEach'
<1> Shape BY TypeShape
<1>1. CASE devices' = devices BY <1>1 DEF OneKeyEach
<1>2. ASSUME NEW k \in Keys, devices' = [devices EXCEPT ![k] = None] PROVE OneKeyEach'
  BY <1>2 DEF OneKeyEach, Shape
<1>3. ASSUME NEW k \in Keys, NEW n \in Clients, ~Registered(n),
             devices' = [devices EXCEPT ![k] = n]
      PROVE  OneKeyEach'
  BY <1>3 DEF OneKeyEach, Shape, Registered
<1>4. CASE \E l \in Loops : CycleStart(l) BY <1>1, <1>4 DEF CycleStart
<1>5. CASE \E t \in Fetches : FetchNext(t)
  BY <1>1, <1>5 DEF FetchNext, FetchBegin, FetchSkip, FetchUpdate, FetchEnd, FetchClosed
<1>6. ASSUME NEW k \in Keys, ReconnectNext(k) PROVE OneKeyEach'
  <2>1. ASSUME NEW n \in Clients, ReconnectSwaps(k, n) PROVE OneKeyEach'
    BY <1>3, <2>1, FreshApart DEF ReconnectSwaps
  <2>2. CASE ~\E n \in Clients : ReconnectSwaps(k, n)
    BY <1>1, <1>6, <2>2 DEF ReconnectNext, RequestReconnect, ReconnectFails,
                            ReconnectTooLate, ReconnectClosed
  <2> QED BY <2>1, <2>2
<1>7. ASSUME NEW e \in Entries, DropMoved(e) PROVE OneKeyEach'
  <2> PICK k \in Keys : k = manual[e] BY <1>7 DEF DropMoved, TypeOK
  <2>1. devices' = devices \/ devices' = [devices EXCEPT ![k] = None] BY <1>7 DEF DropMoved
  <2> QED BY <1>1, <1>2, <2>1
<1>8. ASSUME NEW e \in Entries, AddNext(e) PROVE OneKeyEach'
  <2>1. ASSUME NEW k \in Keys, NEW n \in Clients, NEW energy \in BOOLEAN,
               AddConnects(e, k, n, energy)
        PROVE  OneKeyEach'
    BY <1>1, <1>3, <2>1, FreshApart DEF AddConnects, Register
  <2>2. ASSUME NEW energy \in BOOLEAN, AddCloses(e, energy) PROVE OneKeyEach'
    <3>1. adder[e].pc = "closing" /\ adder[e].key \in Keys BY <2>2 DEF AddCloses, Shape
    <3>2. devices' = [devices EXCEPT ![adder[e].key] = adder[e].new]
      BY <2>2 DEF AddCloses, Register
    <3> QED BY <1>3, <3>1, <3>2, InHandApart
  <2>3. CASE AddFails(e) \/ AddCancelled(e) BY <1>1, <2>3 DEF AddFails, AddCancelled
  <2> QED BY <1>8, <2>1, <2>2, <2>3 DEF AddNext, Resolves
<1>9. ASSUME NEW k \in Keys, Prune(k) PROVE OneKeyEach' BY <1>2, <1>9 DEF Prune
<1>10. ASSUME NEW k \in Keys, NEW n \in Clients, NEW energy \in BOOLEAN,
              RegisterFound(k, n, energy)
       PROVE  OneKeyEach'
  BY <1>3, <1>10, FreshApart DEF RegisterFound, Register
<1>11. CASE PassStart \/ AddsStart \/ AddsEnd \/ DropClosed \/ PruneEnd \/ PassEnd
  BY <1>1, <1>11 DEF PassStart, AddsStart, AddsEnd, DropClosed, PruneEnd, PassEnd
<1>12. CASE Shutdown \/ CloseReconnects \/ BeginDisconnect
  BY <1>1, <1>12 DEF Shutdown, CloseReconnects, BeginDisconnect
<1>13. CASE DisconnectAll BY <1>13 DEF DisconnectAll, OneKeyEach
<1>14. CASE Terminated BY <1>1, <1>14 DEF Terminated, vars
<1> QED BY <1>4, <1>5, <1>6, <1>7, <1>8, <1>9, <1>10, <1>11, <1>12, <1>13, <1>14
        DEF Next, DiscoveryNext, ShutdownNext

Unheard(m) == session[m] = "open" /\ ~Mentioned(m)

\* What an add has in hand stays its own when no step mentions or closes it.
LEMMA ApartKept ==
    ASSUME Shape, AddersApart, adder' = adder, raced \subseteq raced',
           \A m \in Clients : Unheard(m) => Unheard(m)'
    PROVE  AddersApart'
<1>1. \A e \in Entries : adder[e].pc = "closing" => adder[e].new \in Clients BY DEF Shape
<1>2. \A m \in Clients : Unheard(m) => session'[m] = "open" /\ ~Mentioned(m)' BY DEF Unheard
<1>3. \A e \in Entries : adder[e].pc = "closing" =>
          session'[adder[e].new] = "open" /\ (\A m : m = adder[e].new => ~Mentioned(m)')
  BY <1>1, <1>2 DEF AddersApart, Unheard
<1> QED BY <1>3 DEF AddersApart

\* The steps of the poller, and of the discovery task outside its adds.
LEMMA PollerUnheard ==
    ASSUME Shape, NEW m \in Clients, Unheard(m)
    PROVE  /\ \A l \in Loops : CycleStart(l) => Unheard(m)'
           /\ \A t \in Fetches : FetchNext(t) => Unheard(m)'
           /\ \A k \in Keys : ReconnectNext(k) => Unheard(m)'
<1> USE NoneAssumption DEF Unheard, Mentioned
<1>1. ASSUME NEW l \in Loops, CycleStart(l) PROVE Unheard(m)'
  <2>1. \A t \in Fetches : fetch'[t] = fetch[t] \/ \E k \in Keys : fetch'[t].client = emeter[k]
    BY <1>1 DEF CycleStart, Fetches
  <2> QED BY <1>1, <2>1 DEF CycleStart
<1>2. ASSUME NEW t \in Fetches, FetchNext(t) PROVE Unheard(m)'
  <2>1. \A u \in Fetches : fetch'[u] = fetch[u] \/ fetch'[u].client \in {fetch[u].client, None}
    BY <1>2 DEF FetchNext, FetchBegin, FetchSkip, FetchUpdate, FetchEnd, FetchClosed, NoFetch,
                Shape
  <2>2. fetch[t].client # m /\ UNCHANGED <<devices, emeter, reconnect, dropping, raced>>
        /\ retiring' \subseteq retiring
    BY <1>2 DEF FetchNext, FetchBegin, FetchSkip, FetchUpdate, FetchEnd, FetchClosed
  <2>3. session'[m] = "open"
    BY <1>2, <2>2 DEF FetchNext, FetchBegin, FetchSkip, FetchUpdate, FetchEnd, FetchClosed,
                      Finished, CutShort, Shape
  <2> QED BY <2>1, <2>2, <2>3
<1>3. ASSUME NEW k \in Keys, ReconnectNext(k) PROVE Unheard(m)'
  <2>1. CASE RequestReconnect(k)
    <3>1. fetch[<<"emeter", k>>].client # m BY DEF Fetches, Loops
    <3> QED BY <2>1, <3>1 DEF RequestReconnect, Shape
  <2>2. CASE ReconnectFails(k) BY <2>2 DEF ReconnectFails, NoReconnect, Shape
  <2>3. ASSUME NEW n \in Clients, ReconnectSwaps(k, n) PROVE Unheard(m)'
    <3>1. n # m BY <2>3, FreshApart DEF ReconnectSwaps
    <3>2. \A j \in Keys : reconnect'[j] = reconnect[j]
                          \/ reconnect'[j].client \in {reconnect[j].client, None}
      BY <2>3 DEF ReconnectSwaps, NoReconnect, Shape
    <3>3. \A j \in Keys : devices'[j] \in {devices[j], n} /\ emeter'[j] \in {emeter[j], n}
      BY <2>3 DEF ReconnectSwaps, Shape
    <3>4. retiring' \subseteq retiring \cup {reconnect[k].client} /\ session'[m] = session[m]
          /\ UNCHANGED <<fetch, dropping, raced>>
      BY <2>3, <3>1 DEF ReconnectSwaps, Shape
    <3> QED BY <3>1, <3>2, <3>3, <3>4
  <2>4. ASSUME NEW n \in Clients, ReconnectTooLate(k, n) PROVE Unheard(m)'
    <3>1. n # m BY <2>4, FreshApart DEF ReconnectTooLate
    <3> QED BY <2>4, <3>1 DEF ReconnectTooLate, Shape
  <2>5. CASE ReconnectClosed(k)
    BY <2>5 DEF ReconnectClosed, Finished, CutShort, NoReconnect, Shape
  <2> QED BY <1>3, <2>1, <2>2, <2>3, <2>4, <2>5 DEF ReconnectNext
<1> QED BY <1>1, <1>2, <1>3

LEMMA DiscoveryUnheard ==
    ASSUME TypeOK, NEW m \in Clients, Unheard(m)
    PROVE  /\ \A e \in Entries : DropMoved(e) => Unheard(m)'
           /\ \A k \in Keys : Prune(k) => Unheard(m)'
           /\ DropClosed => Unheard(m)'
           /\ \A k \in Keys, n \in Clients, energy \in BOOLEAN :
                 RegisterFound(k, n, energy) => Unheard(m)'
           /\ DisconnectAll => Unheard(m)'
<1> Shape BY TypeShape
<1> USE NoneAssumption DEF Unheard, Mentioned
<1>1. ASSUME NEW e \in Entries, DropMoved(e) PROVE Unheard(m)'
  <2> manual[e] \in Keys BY <1>1 DEF DropMoved, TypeOK
  <2>1. /\ \A j \in Keys : devices'[j] \in {devices[j], None} /\ emeter'[j] \in {emeter[j], None}
        /\ UNCHANGED <<session, fetch, reconnect, raced>>
    BY <1>1 DEF DropMoved, Shape
  <2>2. retiring' \subseteq retiring \cup {devices[manual[e]]}
        /\ dropping' \in {dropping, devices[manual[e]]}
    BY <1>1 DEF DropMoved, Release
  <2> QED BY <1>1, <2>1, <2>2
<1>2. ASSUME NEW k \in Keys, Prune(k) PROVE Unheard(m)'
  <2>1. /\ \A j \in Keys : devices'[j] \in {devices[j], None} /\ emeter'[j] \in {emeter[j], None}
        /\ UNCHANGED <<session, fetch, reconnect, raced>>
    BY <1>2 DEF Prune, Shape
  <2>2. retiring' \subseteq retiring \cup {devices[k]} /\ dropping' \in {dropping, devices[k]}
    BY <1>2 DEF Prune, Release
  <2> QED BY <2>1, <2>2
<1>3. CASE DropClosed BY <1>3 DEF DropClosed, Finished, CutShort, Shape
<1>4. ASSUME NEW k \in Keys, NEW n \in Clients, NEW energy \in BOOLEAN,
             RegisterFound(k, n, energy)
      PROVE  Unheard(m)'
  <2>1. n # m BY <1>4, FreshApart DEF RegisterFound
  <2>2. \A j \in Keys : devices'[j] \in {devices[j], n} /\ emeter'[j] \in {emeter[j], n}
    BY <1>4 DEF RegisterFound, Register, Shape
  <2>3. session'[m] = session[m] /\ UNCHANGED <<retiring, fetch, reconnect, dropping, raced>>
    BY <1>4, <2>1 DEF RegisterFound, Shape
  <2> QED BY <2>1, <2>2, <2>3
<1>5. CASE DisconnectAll BY <1>5 DEF DisconnectAll, Registered
<1> QED BY <1>1, <1>2, <1>3, <1>4, <1>5


\* An add that ends, or fails, gives up what it had in hand; the others keep theirs.
LEMMA ApartKeptBut ==
    ASSUME Shape, AddersApart, NEW e \in Entries,
           \A f \in Entries \ {e} : adder'[f] = adder[f],
           adder'[e].pc # "closing" /\ adder'[e].new = None /\ adder'[e].victim = None,
           raced \subseteq raced',
           \A m \in Clients : m # adder[e].new /\ Unheard(m) => Unheard(m)'
    PROVE  AddersApart'
<1>1. \A f \in Entries : adder[f].pc = "closing" => adder[f].new \in Clients BY DEF Shape
<1>2. \A m \in Clients : m # adder[e].new /\ Unheard(m) => session'[m] = "open" /\ ~Mentioned(m)'
  BY DEF Unheard
<1>3. \A f \in Entries \ {e} : adder[f].pc = "closing" =>
          session'[adder[f].new] = "open" /\ (\A m : m = adder[f].new => ~Mentioned(m)')
  <2> TAKE f \in Entries \ {e}
  <2>1. SUFFICES ASSUME adder[f].pc = "closing"
                 PROVE  session'[adder[f].new] = "open"
                        /\ (\A m : m = adder[f].new => ~Mentioned(m)')
    OBVIOUS
  <2> PICK m \in Clients : m = adder[f].new BY <1>1, <2>1
  <2>2. m # adder[e].new BY <2>1, NoneAssumption DEF AddersApart
  <2>3. Unheard(m) BY <2>1 DEF AddersApart, Unheard
  <2> QED BY <1>2, <2>2, <2>3
<1> QED BY <1>3 DEF AddersApart

LEMMA AddFailsApart ==
    ASSUME Shape, AddersApart, NEW e \in Entries, AddFails(e)
    PROVE  AddersApart'
<1>1. /\ \A f \in Entries \ {e} : adder'[f] = adder[f]
      /\ adder'[e].pc = "idle" /\ adder'[e].new = None /\ adder'[e].victim = None
  BY DEF AddFails, NoAdder, Shape
<1>2. \A m \in Clients : Unheard(m) => Unheard(m)' BY DEF AddFails, Unheard, Mentioned
<1>3. raced' = raced BY DEF AddFails
<1> QED BY <1>1, <1>2, <1>3, ApartKeptBut

LEMMA AddCancelledApart ==
    ASSUME Shape, AddersApart, NEW e \in Entries, AddCancelled(e)
    PROVE  AddersApart'
<1>1. /\ \A f \in Entries \ {e} : adder'[f] = adder[f]
      /\ adder'[e].pc = "idle" /\ adder'[e].new = None /\ adder'[e].victim = None
  BY DEF AddCancelled, NoAdder, Shape
<1>2. adder[e].victim \in raced BY DEF AddCancelled, AddersApart
<1>3. \A m \in Clients : m # adder[e].victim => session'[m] = session[m]
  BY DEF AddCancelled, Shape
<1>4. UNCHANGED <<devices, emeter, reconnect, fetch, retiring, dropping, raced>>
  BY DEF AddCancelled
<1>5. \A m \in Clients : Unheard(m) => Unheard(m)' BY <1>2, <1>3, <1>4 DEF Unheard, Mentioned
<1> QED BY <1>1, <1>4, <1>5, ApartKeptBut

LEMMA AddClosesApart ==
    ASSUME Shape, AddersApart, NEW e \in Entries, NEW energy \in BOOLEAN, AddCloses(e, energy)
    PROVE  AddersApart'
<1> PICK k \in Keys : k = adder[e].key BY DEF AddCloses, Shape
<1> PICK n \in Clients : n = adder[e].new BY DEF AddCloses, Shape
<1>1. /\ \A f \in Entries \ {e} : adder'[f] = adder[f]
      /\ adder'[e].pc = "idle" /\ adder'[e].new = None /\ adder'[e].victim = None
  BY DEF AddCloses, NoAdder, Shape
<1>2. adder[e].victim \in raced BY DEF AddCloses, AddersApart
<1>3. \A m \in Clients : m # adder[e].victim => session'[m] = session[m]
  BY DEF AddCloses, Shape
<1>4. \A j \in Keys : devices'[j] \in {devices[j], n} /\ emeter'[j] \in {emeter[j], n}
  BY DEF AddCloses, Register, Shape
<1>5. UNCHANGED <<reconnect, fetch, retiring, dropping>> /\ raced' \subseteq raced \cup {devices[k]}
      /\ raced \subseteq raced'
  BY DEF AddCloses
<1>6. ASSUME NEW m \in Clients, m # n, Unheard(m) PROVE Unheard(m)'
  BY <1>2, <1>3, <1>4, <1>5, <1>6 DEF Unheard, Mentioned
<1> QED BY <1>1, <1>5, <1>6, ApartKeptBut

LEMMA AddsStartApart ==
    ASSUME AddersApart, AddsStart
    PROVE  AddersApart'
<1>1. \A e \in Entries : adder'[e].pc # "closing" /\ adder'[e].new = None /\ adder'[e].victim = None
  BY DEF AddsStart, Adding, NoAdder
<1> QED BY <1>1 DEF AddersApart

LEMMA AddConnectsApart ==
    ASSUME Shape, AddersApart, NEW e \in Entries, NEW k \in Keys, NEW n \in Clients,
           NEW energy \in BOOLEAN, AddConnects(e, k, n, energy)
    PROVE  AddersApart'
<1> USE NoneAssumption
<1> PICK p \in ClientOrNone : p = devices[k] BY DEF Shape
<1>1. /\ adder[e].pc = "connecting"
      /\ session' = [session EXCEPT ![n] = "open"]
      /\ UNCHANGED <<fetch, reconnect, dropping>>
  BY DEF AddConnects
<1>2. /\ session[n] = "closed" /\ ~Mentioned(n)
      /\ \A f \in Entries : n # adder[f].new /\ n # adder[f].victim
  BY DEF AddConnects, Fresh
<1>3. p # n BY <1>2 DEF Mentioned
<1>4. CASE p # None /\ ~(inFlight[p] > 0)
  <2>1. /\ adder' = [adder EXCEPT ![e] = [pc |-> "closing", key |-> k, new |-> n, victim |-> p]]
        /\ raced' = raced \cup {p} /\ UNCHANGED <<devices, emeter, retiring>>
    BY <1>4 DEF AddConnects
  <2>2. /\ \A f \in Entries \ {e} : adder'[f] = adder[f]
        /\ adder'[e].pc = "closing" /\ adder'[e].new = n /\ adder'[e].victim = p
    BY <2>1 DEF Shape
  <2>3. session'[n] = "open" /\ ~Mentioned(n)' BY <1>1, <1>2, <1>3, <2>1 DEF Mentioned, Shape
  <2>4. ASSUME NEW f \in Entries \ {e}, adder[f].pc = "closing"
        PROVE  /\ session'[adder[f].new] = "open" /\ adder[f].victim \in raced'
               /\ \A m : m = adder[f].new => ~Mentioned(m)'
    <3> PICK m \in Clients : m = adder[f].new BY <2>4 DEF Shape
    <3>1. session[m] = "open" /\ ~Mentioned(m) /\ adder[f].victim \in raced
      BY <2>4 DEF AddersApart
    <3>2. session'[m] = "open" BY <1>1, <3>1 DEF Shape
    <3>3. ~Mentioned(m)' BY <1>1, <2>1, <3>1 DEF Mentioned
    <3> QED BY <2>1, <3>1, <3>2, <3>3
  <2>5. \A f \in Entries \ {e} : adder[f].pc # "closing" => adder[f].new = None /\ adder[f].victim = None
    BY DEF AddersApart
  <2>6. \A f \in Entries : IF adder'[f].pc = "closing"
                           THEN /\ session'[adder'[f].new] = "open"
                                /\ \A m : m = adder'[f].new => ~Mentioned(m)'
                                /\ adder'[f].victim \in raced'
                           ELSE adder'[f].new = None /\ adder'[f].victim = None
    BY <2>1, <2>2, <2>3, <2>4, <2>5
  <2>7. \A f, g \in Entries : adder'[f].new # None /\ adder'[f].new = adder'[g].new => f = g
    BY <1>2, <2>2 DEF AddersApart
  <2> QED BY <2>6, <2>7 DEF AddersApart
<1>5. CASE ~(p # None /\ ~(inFlight[p] > 0))
  <2>1. /\ Register(k, n, energy) /\ raced' = raced
        /\ retiring' \subseteq retiring \cup {p}
        /\ adder' = [adder EXCEPT ![e] = NoAdder]
    BY <1>5 DEF AddConnects
  <2>2. /\ \A f \in Entries \ {e} : adder'[f] = adder[f]
        /\ adder'[e].pc = "idle" /\ adder'[e].new = None /\ adder'[e].victim = None
    BY <2>1 DEF NoAdder, Shape
  <2>3. \A j \in Keys : devices'[j] \in {devices[j], n} /\ emeter'[j] \in {emeter[j], n}
    BY <2>1 DEF Register, Shape
  <2>4. ASSUME NEW m \in Clients, Unheard(m) PROVE Unheard(m)'
    <3>1. m # n BY <1>2, <2>4 DEF Unheard
    <3>2. session'[m] = "open" BY <1>1, <2>4, <3>1 DEF Unheard, Shape
    <3>3. ~Mentioned(m)' BY <1>1, <2>1, <2>3, <2>4, <3>1 DEF Unheard, Mentioned
    <3> QED BY <3>2, <3>3 DEF Unheard
  <2> QED BY <2>1, <2>2, <2>4, ApartKeptBut
<1> QED BY <1>4, <1>5

LEMMA NextAddersApart ==
    ASSUME TypeOK, AddersApart, Next
    PROVE  AddersApart'
<1> Shape BY TypeShape
<1>1. CASE \E l \in Loops : CycleStart(l)
  BY <1>1, PollerUnheard, ApartKept DEF CycleStart
<1>2. ASSUME NEW t \in Fetches, FetchNext(t) PROVE AddersApart'
  <2>1. adder' = adder /\ raced' = raced
    BY <1>2 DEF FetchNext, FetchBegin, FetchSkip, FetchUpdate, FetchEnd, FetchClosed
  <2> QED BY <1>2, <2>1, PollerUnheard, ApartKept
<1>3. ASSUME NEW k \in Keys, ReconnectNext(k) PROVE AddersApart'
  <2>1. adder' = adder /\ raced' = raced
    BY <1>3 DEF ReconnectNext, RequestReconnect, ReconnectFails, ReconnectSwaps,
                ReconnectTooLate, ReconnectClosed
  <2> QED BY <1>3, <2>1, PollerUnheard, ApartKept
<1>4. ASSUME NEW e \in Entries, DropMoved(e) PROVE AddersApart'
  <2>1. adder' = adder /\ raced' = raced BY <1>4 DEF DropMoved
  <2> QED BY <1>4, <2>1, DiscoveryUnheard, ApartKept
<1>5. ASSUME NEW e \in Entries, AddNext(e) PROVE AddersApart'
  <2>1. ASSUME NEW k \in Keys, NEW n \in Clients, NEW energy \in BOOLEAN,
               AddConnects(e, k, n, energy)
        PROVE  AddersApart'
    BY <2>1, AddConnectsApart
  <2> QED BY <1>5, <2>1, AddFailsApart, AddClosesApart, AddCancelledApart DEF AddNext, Resolves
<1>6. ASSUME NEW k \in Keys, Prune(k) PROVE AddersApart'
  <2>1. adder' = adder /\ raced' = raced BY <1>6 DEF Prune
  <2> QED BY <1>6, <2>1, DiscoveryUnheard, ApartKept
<1>7. ASSUME NEW k \in Keys, NEW n \in Clients, NEW energy \in BOOLEAN,
             RegisterFound(k, n, energy)
      PROVE  AddersApart'
  <2>1. adder' = adder /\ raced' = raced BY <1>7 DEF RegisterFound
  <2> QED BY <1>7, <2>1, DiscoveryUnheard, ApartKept
<1>8. CASE DropClosed \/ DisconnectAll
  <2>1. adder' = adder /\ raced' = raced BY <1>8 DEF DropClosed, DisconnectAll
  <2> QED BY <1>8, <2>1, DiscoveryUnheard, ApartKept
<1>9. CASE AddsStart BY <1>9, AddsStartApart
<1>10. CASE PassStart \/ AddsEnd \/ PruneEnd \/ PassEnd \/ Shutdown \/ CloseReconnects
            \/ BeginDisconnect \/ Terminated
  <2>1. UNCHANGED <<devices, emeter, session, fetch, reconnect, adder, retiring, dropping, raced>>
    BY <1>10 DEF PassStart, AddsEnd, PruneEnd, PassEnd, Shutdown, CloseReconnects,
                 BeginDisconnect, Terminated, vars
  <2> QED BY <2>1 DEF AddersApart, Mentioned
<1> QED BY <1>1, <1>2, <1>3, <1>4, <1>5, <1>6, <1>7, <1>8, <1>9, <1>10
        DEF Next, DiscoveryNext, ShutdownNext


-----------------------------------------------------------------------------
(* A retired client is held, and what each stage and phase has waited for. *)

LEMMA ReleaseRetires ==
    ASSUME RetiringHeld, NEW c, Release(c), inFlight' = inFlight
    PROVE  RetiringHeld'
BY DEF RetiringHeld, Release

LEMMA NextRetiringHeld ==
    ASSUME TypeOK, RetiringHeld, Next
    PROVE  RetiringHeld'
<1> Shape BY TypeShape
<1>1. CASE UNCHANGED <<inFlight, retiring>> BY <1>1 DEF RetiringHeld
<1>2. CASE \E l \in Loops : CycleStart(l) BY <1>1, <1>2 DEF CycleStart
<1>3. ASSUME NEW t \in Fetches, FetchNext(t) PROVE RetiringHeld'
  <2>1. CASE FetchBegin(t)
    <3> PICK c \in Clients : c = fetch[t].client BY <2>1 DEF FetchBegin, Shape
    <3>1. inFlight' = [inFlight EXCEPT ![c] = @ + 1] /\ retiring' = retiring
      BY <2>1 DEF FetchBegin
    <3> QED BY <3>1 DEF RetiringHeld, TypeOK
  <2>2. CASE FetchEnd(t)
    <3> PICK c \in Clients : c = fetch[t].client BY <2>2 DEF FetchEnd, Shape
    <3>1. /\ inFlight' = [inFlight EXCEPT ![c] = IF inFlight[c] <= 1 THEN 0 ELSE @ - 1]
          /\ retiring' = IF inFlight[c] <= 1 THEN retiring \ {c} ELSE retiring
      BY <2>2 DEF FetchEnd
    <3> QED BY <3>1 DEF RetiringHeld, TypeOK
  <2>3. CASE FetchSkip(t) \/ FetchUpdate(t) \/ FetchClosed(t)
    BY <1>1, <2>3 DEF FetchSkip, FetchUpdate, FetchClosed
  <2> QED BY <1>3, <2>1, <2>2, <2>3 DEF FetchNext
<1>4. ASSUME NEW k \in Keys, ReconnectNext(k) PROVE RetiringHeld'
  <2>1. ASSUME NEW n \in Clients, ReconnectSwaps(k, n) PROVE RetiringHeld'
    BY <2>1 DEF ReconnectSwaps, RetiringHeld
  <2>2. CASE ~\E n \in Clients : ReconnectSwaps(k, n)
    BY <1>1, <1>4, <2>2 DEF ReconnectNext, RequestReconnect, ReconnectFails,
                            ReconnectTooLate, ReconnectClosed
  <2> QED BY <2>1, <2>2
<1>5. ASSUME NEW e \in Entries, DropMoved(e) PROVE RetiringHeld'
  <2>1. inFlight' = inFlight BY <1>5 DEF DropMoved
  <2>2. retiring' = retiring \/ Release(devices[manual[e]]) BY <1>5 DEF DropMoved
  <2> QED BY <1>1, <2>1, <2>2, ReleaseRetires
<1>6. ASSUME NEW e \in Entries, AddNext(e) PROVE RetiringHeld'
  <2>1. ASSUME NEW k \in Keys, NEW n \in Clients, NEW energy \in BOOLEAN,
               AddConnects(e, k, n, energy)
        PROVE  RetiringHeld'
    <3> PICK p \in ClientOrNone : p = devices[k] BY DEF Shape
    <3>1. /\ inFlight' = inFlight
          /\ \/ retiring' = retiring
             \/ ~(p # None /\ ~(inFlight[p] > 0)) /\ p # None /\ retiring' = retiring \cup {p}
      BY <2>1 DEF AddConnects
    <3>2. p # None => inFlight[p] \in Nat BY DEF TypeOK, ClientOrNone
    <3> QED BY <3>1, <3>2 DEF RetiringHeld
  <2>2. CASE AddFails(e) \/ AddCancelled(e) \/ \E energy \in BOOLEAN : AddCloses(e, energy)
    BY <1>1, <2>2 DEF AddFails, AddCancelled, AddCloses
  <2> QED BY <1>6, <2>1, <2>2 DEF AddNext, Resolves
<1>7. ASSUME NEW k \in Keys, Prune(k) PROVE RetiringHeld'
  BY <1>7, ReleaseRetires DEF Prune
<1>8. ASSUME NEW k \in Keys, NEW n \in Clients, NEW energy \in BOOLEAN,
             RegisterFound(k, n, energy)
      PROVE  RetiringHeld'
  BY <1>1, <1>8 DEF RegisterFound
<1>9. CASE PassStart \/ AddsStart \/ AddsEnd \/ DropClosed \/ PruneEnd \/ PassEnd
  BY <1>1, <1>9 DEF PassStart, AddsStart, AddsEnd, DropClosed, PruneEnd, PassEnd
<1>10. CASE ShutdownNext \/ Terminated
  BY <1>1, <1>10 DEF ShutdownNext, Shutdown, CloseReconnects, BeginDisconnect, DisconnectAll,
                     Terminated, vars
<1> QED BY <1>2, <1>3, <1>4, <1>5, <1>6, <1>7, <1>8, <1>9, <1>10 DEF Next, DiscoveryNext

LEMMA NextQuiet ==
    ASSUME Shape, Quiet, Next
    PROVE  Quiet'
<1>1. CASE \E l \in Loops : CycleStart(l) BY <1>1 DEF CycleStart, Quiet
<1>2. ASSUME NEW t \in Fetches, FetchNext(t) PROVE Quiet'
  <2>1. phase \in {"running", "cancelling"}
        \/ phase \notin {"reconnects", "disconnecting", "done"}
    BY <1>2 DEF FetchNext, FetchBegin, FetchSkip, FetchUpdate, FetchEnd, FetchClosed, Quiet
  <2>2. UNCHANGED <<devices, adder, stage, phase>>
    BY <1>2 DEF FetchNext, FetchBegin, FetchSkip, FetchUpdate, FetchEnd, FetchClosed
  <2> QED BY <2>1, <2>2 DEF Quiet
<1>3. ASSUME NEW k \in Keys, ReconnectNext(k) PROVE Quiet'
  <2>1. UNCHANGED <<fetch, adder, dropping, stage, phase>>
    BY <1>3 DEF ReconnectNext, RequestReconnect, ReconnectFails, ReconnectSwaps,
                ReconnectTooLate, ReconnectClosed
  <2>2. CASE RequestReconnect(k)
    <3>1. fetch[<<"emeter", k>>].pc # "idle" /\ <<"emeter", k>> \in Fetches
      BY <2>2 DEF RequestReconnect, Fetches, Loops
    <3> QED BY <2>1, <3>1 DEF Quiet
  <2>3. CASE ~RequestReconnect(k)
    <3>1. phase \notin {"disconnecting", "done"}
      BY <1>3, <2>3 DEF ReconnectNext, ReconnectFails, ReconnectSwaps, ReconnectTooLate,
                        ReconnectClosed, Quiet
    <3> QED BY <2>1, <3>1 DEF Quiet
  <2> QED BY <2>2, <2>3
<1>4. ASSUME NEW e \in Entries, AddNext(e) PROVE Quiet'
  <2>1. /\ adder[e].pc # "idle" /\ UNCHANGED <<stage, phase>>
        /\ \A f \in Entries \ {e} : adder'[f] = adder[f]
    BY <1>4 DEF AddNext, AddFails, AddConnects, AddCloses, AddCancelled, Shape
  <2> QED BY <2>1 DEF Quiet
<1>5. CASE AddsStart BY <1>5 DEF AddsStart, Quiet
<1>6. CASE PassStart \/ AddsEnd \/ PruneEnd
           \/ (\E e \in Entries : DropMoved(e)) \/ \E k \in Keys : Prune(k)
  <2>1. phase = "running" /\ phase' = "running" /\ adder' = adder
        /\ (stage' # "adding" => stage # "adding" \/ \A e \in Entries : adder[e].pc = "idle")
    BY <1>6 DEF PassStart, AddsEnd, PruneEnd, DropMoved, Prune
  <2> QED BY <2>1 DEF Quiet
<1>14. ASSUME NEW k \in Keys, NEW n \in Clients, NEW energy \in BOOLEAN,
              RegisterFound(k, n, energy)
       PROVE  Quiet'
  <2>1. stage = "registering" /\ UNCHANGED <<adder, stage, phase>> BY <1>14 DEF RegisterFound
  <2> QED BY <2>1 DEF Quiet
<1>7. CASE DropClosed BY <1>7 DEF DropClosed, Quiet
<1>8. CASE PassEnd BY <1>8 DEF PassEnd, Quiet
<1>9. CASE Shutdown BY <1>9 DEF Shutdown, Quiet
<1>10. CASE CloseReconnects BY <1>10 DEF CloseReconnects, Quiet
<1>11. CASE BeginDisconnect BY <1>11 DEF BeginDisconnect, Quiet
<1>12. CASE DisconnectAll BY <1>12 DEF DisconnectAll, Quiet
<1>13. CASE Terminated BY <1>13 DEF Terminated, vars, Quiet
<1> QED BY <1>1, <1>2, <1>3, <1>4, <1>5, <1>6, <1>7, <1>8, <1>9, <1>10, <1>11, <1>12, <1>13, <1>14
        DEF Next, DiscoveryNext, ShutdownNext

-----------------------------------------------------------------------------
(* The inductive invariant. *)

LEMMA NextSafe ==
    ASSUME TypeOK, InFlightExact, OneKeyEach, AddersApart, Quiet, Next,
           NEW d \in Clients, SafeClient(d)
    PROVE  SafeClient(d)'
<1> Shape BY TypeShape
<1>1. CASE \E l \in Loops : CycleStart(l) BY <1>1, CycleStartSafe
<1>2. CASE \E t \in Fetches : FetchNext(t)
  BY <1>2, FetchBeginSafe, FetchSkipSafe, FetchUpdateSafe, FetchEndSafe, FetchClosedSafe
     DEF FetchNext
<1>3. CASE \E k \in Keys : ReconnectNext(k)
  BY <1>3, RequestReconnectSafe, ReconnectFailsSafe, ReconnectSwapsSafe, ReconnectTooLateSafe,
     ReconnectClosedSafe DEF ReconnectNext
<1>4. CASE \E e \in Entries : DropMoved(e) BY <1>4, DropMovedSafe
<1>5. ASSUME NEW e \in Entries, AddNext(e) PROVE SafeClient(d)'
  BY <1>5, AddFailsSafe, AddConnectsSafe, AddClosesSafe, AddCancelledSafe
     DEF AddNext, Resolves
<1>6. CASE \E k \in Keys : Prune(k) BY <1>6, PruneSafe
<1>7. CASE \E k \in Keys, n \in Clients, energy \in BOOLEAN : RegisterFound(k, n, energy)
  BY <1>7, RegisterFoundSafe
<1>8. CASE AddsStart BY <1>8, AddsStartSafe
<1>9. CASE DropClosed BY <1>9, DropClosedSafe
<1>10. CASE DisconnectAll BY <1>10, DisconnectAllSafe
<1>11. CASE PassStart \/ AddsEnd \/ PruneEnd \/ PassEnd \/ Shutdown \/ CloseReconnects
            \/ BeginDisconnect \/ Terminated
  <2>1. UNCHANGED <<devices, session, retiring, fetch, reconnect, adder, dropping, raced, cut>>
    BY <1>11 DEF PassStart, AddsEnd, PruneEnd, PassEnd, Shutdown, CloseReconnects,
                 BeginDisconnect, Terminated, vars
  <2> QED BY <2>1, ProgressSafe
<1> QED BY <1>1, <1>2, <1>3, <1>4, <1>5, <1>6, <1>7, <1>8, <1>9, <1>10, <1>11
        DEF Next, DiscoveryNext, ShutdownNext

LEMMA InitIInv == Init => IInv
<1> SUFFICES ASSUME Init PROVE IInv OBVIOUS
<1> USE NoneAssumption
<1>1. TypeOK /\ InFlightExact BY InitTypeOK, InitInFlightExact
<1>2. OneKeyEach /\ RetiringDropped /\ RetiringHeld
  BY DEF Init, OneKeyEach, RetiringDropped, RetiringHeld
<1>3. AddersApart BY DEF Init, AddersApart, NoAdder
<1>4. Quiet BY DEF Init, Quiet, NoAdder
<1>5. HeldNeverClosed /\ NoLeak BY DEF Init, HeldNeverClosed, NoLeak, NoFetch
<1>6. RegisteredNeverClosed BY DEF Init, RegisteredNeverClosed, Registered
<1> QED BY <1>1, <1>2, <1>3, <1>4, <1>5, <1>6 DEF IInv

LEMMA NextIInv == IInv /\ [Next]_vars => IInv'
<1> SUFFICES ASSUME IInv, [Next]_vars PROVE IInv' OBVIOUS
<1>1. CASE Next
  <2>1. TypeOK' BY <1>1, NextTypeOK DEF IInv
  <2>2. InFlightExact' BY <1>1, NextInFlightExact DEF IInv
  <2>3. OneKeyEach' BY <1>1, NextOneKeyEach DEF IInv
  <2>4. AddersApart' BY <1>1, NextAddersApart DEF IInv
  <2>5. RetiringHeld' BY <1>1, NextRetiringHeld DEF IInv
  <2>6. Quiet' BY <1>1, NextQuiet, TypeShape DEF IInv
  <2>7. \A c \in Clients : SafeClient(c) BY SafeByClient DEF IInv
  <2>8. \A c \in Clients : SafeClient(c)' BY <1>1, <2>7, NextSafe DEF IInv
  <2>9. (HeldNeverClosed /\ RegisteredNeverClosed /\ RetiringDropped /\ NoLeak)'
    BY <2>1, <2>8, SafeByClientNext
  <2> QED BY <2>1, <2>2, <2>3, <2>4, <2>5, <2>6, <2>9 DEF IInv
<1>2. CASE UNCHANGED vars
  BY <1>2 DEF vars, IInv, TypeOK, InFlightExact, Holders, OneKeyEach, AddersApart, Mentioned,
              RetiringDropped, RetiringHeld, Quiet, HeldNeverClosed, RegisteredNeverClosed,
              NoLeak, Registered, InHand, Closing, ClosedByFetch, ClosedByReconnect,
              ClosedByAdder
<1> QED BY <1>1, <1>2

\* The client registry and the poller keep to the inductive invariant, whatever the sets of
\* keys, entries and clients.
THEOREM InvariantHolds == Spec => []IInv
<1>1. Init => IInv BY InitIInv
<1>2. IInv /\ [Next]_vars => IInv' BY NextIInv
<1> QED BY <1>1, <1>2, PTL DEF Spec

\* No client is closed while a fetch of device_manager's poller holds it (poller.py
\* close_when_free), but for one a re-add has closed or overwritten.
THEOREM HeldIsNeverClosed == Spec => []HeldNeverClosed
<1>1. IInv => HeldNeverClosed BY DEF IInv
<1> QED BY <1>1, InvariantHolds, PTL

\* A registered client is open and nobody is closing it, with the same exception.
THEOREM RegisteredIsNeverClosed == Spec => []RegisteredNeverClosed
<1>1. IInv => RegisteredNeverClosed BY DEF IInv
<1> QED BY <1>1, InvariantHolds, PTL

\* An open client is always in someone's hands (device_manager.py release_client), but for
\* those a cancellation dropped.
THEOREM NothingLeaks == Spec => []NoLeak
<1>1. IInv => NoLeak BY DEF IInv
<1> QED BY <1>1, InvariantHolds, PTL


-----------------------------------------------------------------------------
(* What a step never does, and what a shutdown leaves. *)

\* A shutdown leaves open only what a cancellation or a re-add took from everyone's hands
\* (device_manager.py disconnect_all_devices after poller.py close).
THEOREM ShutdownLeavesNothingOpen == Spec => []ShutdownClosesAll
<1>1. IInv => ShutdownClosesAll
  <2> SUFFICES ASSUME IInv, phase = "done", NEW c \in Clients \ (raced \cup cut),
                      session[c] # "closed"
               PROVE  FALSE
    BY DEF ShutdownClosesAll
  <2> USE NoneAssumption
  <2>1. session[c] = "open" BY DEF IInv, TypeOK
  <2>2. /\ \A t \in Fetches : fetch[t].pc = "idle"
        /\ \A e \in Entries : adder[e].pc = "idle"
        /\ \A k \in Keys : reconnect[k].pc = "idle" /\ devices[k] = None
        /\ dropping = None
    BY DEF IInv, Quiet
  <2>3. ~Registered(c) /\ Holders(c) = {} BY <2>2 DEF Registered, Holders
  <2>4. ~InHand(c) BY <2>2 DEF InHand, IInv, AddersApart
  <2>5. ~Closing(c)
    BY <2>2 DEF Closing, ClosedByFetch, ClosedByReconnect, ClosedByAdder
  <2> QED BY <2>1, <2>3, <2>4, <2>5 DEF IInv, NoLeak
<1> QED BY <1>1, InvariantHolds, PTL

\* Only a connect opens a session; a fetch never opens a closed one again (poller.py
\* close_when_free).
THEOREM ClosedStaysClosed == Spec => NeverReopened
<1>1. ASSUME IInv, Next, NEW c \in Clients \ raced, session[c] = "closed", session'[c] = "open"
      PROVE  Fresh(c)
  <2> Shape BY <1>1, TypeShape DEF IInv
  <2>1. CASE UNCHANGED session BY <1>1, <2>1
  <2>2. ASSUME NEW n \in Clients, Fresh(n), session' = [session EXCEPT ![n] = "open"]
        PROVE  Fresh(c)
    BY <1>1, <2>2 DEF Shape
  <2>3. ASSUME NEW n \in ClientOrNone,
               session' = [session EXCEPT ![n] = "closed"] \/ session' = session
        PROVE  FALSE
    BY <1>1, <2>3, NoneAssumption DEF Shape
  <2>4. ASSUME NEW t \in Fetches, FetchNext(t) PROVE Fresh(c)
    <3>1. CASE FetchUpdate(t)
      <4>1. session' = [session EXCEPT ![fetch[t].client] = "open"] /\ fetch[t].pc = "running"
        BY <3>1 DEF FetchUpdate
      <4>2. fetch[t].client = c BY <1>1, <4>1 DEF Shape
      <4> QED BY <1>1, <4>1, <4>2 DEF IInv, HeldNeverClosed
    <3>2. CASE FetchClosed(t)
      <4> PICK n \in Clients : n = fetch[t].client BY <3>2 DEF FetchClosed, Shape
      <4> QED BY <2>3, <3>2 DEF FetchClosed, Finished, CutShort, ClientOrNone
    <3>3. CASE FetchBegin(t) \/ FetchSkip(t) \/ FetchEnd(t)
      BY <2>1, <3>3 DEF FetchBegin, FetchSkip, FetchEnd
    <3> QED BY <2>4, <3>1, <3>2, <3>3 DEF FetchNext
  <2>5. ASSUME NEW k \in Keys, ReconnectNext(k) PROVE Fresh(c)
    <3>1. ASSUME NEW n \in Clients, ReconnectSwaps(k, n) \/ ReconnectTooLate(k, n)
          PROVE  Fresh(c)
      BY <2>2, <3>1 DEF ReconnectSwaps, ReconnectTooLate
    <3>2. CASE ReconnectClosed(k)
      <4> PICK n \in Clients : n = reconnect[k].client BY <3>2 DEF ReconnectClosed, Shape
      <4> QED BY <2>3, <3>2 DEF ReconnectClosed, Finished, CutShort, ClientOrNone
    <3>3. CASE RequestReconnect(k) \/ ReconnectFails(k)
      BY <2>1, <3>3 DEF RequestReconnect, ReconnectFails
    <3> QED BY <2>5, <3>1, <3>2, <3>3 DEF ReconnectNext
  <2>6. ASSUME NEW e \in Entries, AddNext(e) PROVE Fresh(c)
    <3>1. ASSUME NEW k \in Keys, NEW n \in Clients, NEW energy \in BOOLEAN,
                 AddConnects(e, k, n, energy)
          PROVE  Fresh(c)
      BY <2>2, <3>1 DEF AddConnects
    <3>2. CASE AddCancelled(e) \/ \E energy \in BOOLEAN : AddCloses(e, energy)
      <4> PICK n \in Clients : n = adder[e].victim BY <3>2 DEF AddCancelled, AddCloses, Shape
      <4> QED BY <2>3, <3>2 DEF AddCancelled, AddCloses, ClientOrNone
    <3>3. CASE AddFails(e) BY <2>1, <3>3 DEF AddFails
    <3> QED BY <2>6, <3>1, <3>2, <3>3 DEF AddNext, Resolves
  <2>7. ASSUME NEW k \in Keys, NEW n \in Clients, NEW energy \in BOOLEAN,
               RegisterFound(k, n, energy)
        PROVE  Fresh(c)
    BY <2>2, <2>7 DEF RegisterFound
  <2>8. CASE DropClosed
    BY <1>1, <2>3, <2>8 DEF DropClosed, Finished, CutShort, IInv, TypeOK
  <2>9. CASE DisconnectAll BY <1>1, <2>9 DEF DisconnectAll
  <2>10. CASE (\E l \in Loops : CycleStart(l)) \/ (\E e \in Entries : DropMoved(e))
              \/ (\E k \in Keys : Prune(k)) \/ PassStart \/ AddsStart \/ AddsEnd \/ PruneEnd
              \/ PassEnd \/ Shutdown \/ CloseReconnects \/ BeginDisconnect \/ Terminated
    BY <2>1, <2>10 DEF CycleStart, DropMoved, Prune, PassStart, AddsStart, AddsEnd, PruneEnd,
                       PassEnd, Shutdown, CloseReconnects, BeginDisconnect, Terminated, vars
  <2> QED BY <1>1, <2>4, <2>5, <2>6, <2>7, <2>8, <2>9, <2>10
          DEF Next, DiscoveryNext, ShutdownNext
<1>2. IInv /\ [Next]_vars
        => [\A c \in Clients \ raced : session[c] = "closed" /\ session'[c] = "open" => Fresh(c)]_vars
  BY <1>1
<1> QED BY <1>2, InvariantHolds, PTL DEF Spec, NeverReopened

\* A client leaves the registry only into someone's hands (device_manager.py _release).
THEOREM DroppedIsInHands == Spec => DroppedIsReleased
<1>1. ASSUME IInv, Next, NEW c \in Clients \ raced', Registered(c), ~Registered(c)'
      PROVE  Closing(c)' \/ c \in retiring' \/ session'[c] = "closed"
  <2> Shape BY <1>1, TypeShape DEF IInv
  <2> USE NoneAssumption
  <2> DEFINE Goal == Closing(c)' \/ c \in retiring' \/ session'[c] = "closed"
  <2>1. CASE UNCHANGED devices BY <1>1, <2>1 DEF Registered
  <2>2. ASSUME NEW k \in Keys, devices[k] # None, Release(devices[k]),
               devices' = [devices EXCEPT ![k] = None]
        PROVE  Goal
    <3>1. devices[k] = c BY <1>1, <2>2 DEF Registered, Shape
    <3> QED BY <2>2, <3>1 DEF Release, Closing
  <2>3. ASSUME NEW e \in Entries, DropMoved(e) PROVE Goal
    <3> PICK k \in Keys : k = manual[e] BY <1>1, <2>3 DEF DropMoved, IInv, TypeOK
    <3>1. devices' = devices \/ (devices' = [devices EXCEPT ![k] = None]
                                 /\ (devices[k] # None => Release(devices[k])))
      BY <2>3 DEF DropMoved
    <3>2. devices[k] = None => \A j \in Keys : devices'[j] = devices[j] BY <3>1 DEF Shape
    <3> QED BY <1>1, <2>1, <2>2, <3>1, <3>2 DEF Registered
  <2>4. ASSUME NEW k \in Keys, Prune(k) PROVE Goal BY <2>2, <2>4 DEF Prune
  <2>5. ASSUME NEW k \in Keys, ReconnectNext(k) PROVE Goal
    <3>1. ASSUME NEW n \in Clients, ReconnectSwaps(k, n) PROVE Goal
      <4>1. devices[k] = reconnect[k].client /\ devices' = [devices EXCEPT ![k] = n]
        BY <3>1 DEF ReconnectSwaps, MaySwap
      <4>2. c = reconnect[k].client BY <1>1, <4>1 DEF Registered, Shape
      <4>3. IF inFlight[c] > 0 THEN retiring' = retiring \cup {c}
            ELSE reconnect' = [reconnect EXCEPT ![k] = [pc |-> "closing", client |-> c]]
        BY <3>1, <4>2 DEF ReconnectSwaps
      <4>4. inFlight[c] > 0 \/ (reconnect'[k].pc = "closing" /\ reconnect'[k].client = c)
        BY <4>3 DEF Shape
      <4> QED BY <4>3, <4>4 DEF Closing, ClosedByReconnect
    <3>2. CASE ~\E n \in Clients : ReconnectSwaps(k, n)
      BY <2>1, <2>5, <3>2 DEF ReconnectNext, RequestReconnect, ReconnectFails,
                              ReconnectTooLate, ReconnectClosed
    <3> QED BY <3>1, <3>2
  <2>6. ASSUME NEW e \in Entries, AddNext(e) PROVE Goal
    <3>1. ASSUME NEW k \in Keys, NEW n \in Clients, NEW energy \in BOOLEAN,
                 AddConnects(e, k, n, energy)
          PROVE  Goal
      <4>1. devices' = devices
            \/ (devices' = [devices EXCEPT ![k] = n]
                /\ retiring' = IF devices[k] # None THEN retiring \cup {devices[k]} ELSE retiring)
        BY <3>1 DEF AddConnects, Register
      <4>2. devices' # devices => devices[k] = c BY <1>1, <4>1 DEF Registered, Shape
      <4> QED BY <1>1, <2>1, <4>1, <4>2
    <3>2. ASSUME NEW energy \in BOOLEAN, AddCloses(e, energy) PROVE Goal
      <4> PICK k \in Keys : k = adder[e].key BY <3>2 DEF AddCloses, Shape
      <4>1. /\ devices' = [devices EXCEPT ![k] = adder[e].new]
            /\ raced' = raced \cup ({devices[k]} \ {None})
        BY <3>2 DEF AddCloses, Register
      <4> QED BY <1>1, <4>1 DEF Registered, Shape
    <3>3. CASE AddFails(e) \/ AddCancelled(e) BY <2>1, <3>3 DEF AddFails, AddCancelled
    <3> QED BY <2>6, <3>1, <3>2, <3>3 DEF AddNext, Resolves
  <2>7. ASSUME NEW k \in Keys, NEW n \in Clients, NEW energy \in BOOLEAN,
               RegisterFound(k, n, energy)
        PROVE  Goal
    <3>1. devices[k] = None /\ devices' = [devices EXCEPT ![k] = n]
      BY <2>7 DEF RegisterFound, Register
    <3> QED BY <1>1, <3>1 DEF Registered, Shape
  <2>8. CASE DisconnectAll BY <1>1, <2>8 DEF DisconnectAll
  <2>9. CASE (\E l \in Loops : CycleStart(l)) \/ (\E t \in Fetches : FetchNext(t))
             \/ PassStart \/ AddsStart \/ AddsEnd \/ DropClosed \/ PruneEnd \/ PassEnd
    BY <2>1, <2>9 DEF CycleStart, FetchNext, FetchBegin, FetchSkip, FetchUpdate, FetchEnd,
                      FetchClosed, PassStart, AddsStart, AddsEnd, DropClosed, PruneEnd, PassEnd
  <2>10. CASE Shutdown \/ CloseReconnects \/ BeginDisconnect \/ Terminated
    BY <2>1, <2>10 DEF Shutdown, CloseReconnects, BeginDisconnect, Terminated, vars
  <2> QED BY <1>1, <2>3, <2>4, <2>5, <2>6, <2>7, <2>8, <2>9, <2>10
          DEF Next, DiscoveryNext, ShutdownNext
<1>2. IInv /\ [Next]_vars
        => [\A c \in Clients \ raced' : Registered(c) /\ ~Registered(c)'
               => Closing(c)' \/ c \in retiring' \/ session'[c] = "closed"]_vars
  BY <1>1
<1> QED BY <1>2, InvariantHolds, PTL DEF Spec, DroppedIsReleased
=============================================================================
