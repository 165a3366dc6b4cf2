--------------------------- MODULE ClientLifecycle ---------------------------
(***************************************************************************)
(* The life of a python-kasa client (one connection to one device) between *)
(* the two components that share it:                                        *)
(*                                                                          *)
(*   - the device manager (collector/device_manager.py), which registers,   *)
(*     replaces and drops clients, one per registry key (an IPv4 address);  *)
(*   - the poller (collector/poller.py), whose two periodic loops fetch on  *)
(*     the clients they saw when a cycle began, and whose reconnect tasks   *)
(*     swap a strip's client in place.                                      *)
(*                                                                          *)
(* Everything runs on one asyncio event loop: a step of this module is the  *)
(* code between two awaits.  A close (`disconnect`) is an await, so it has  *)
(* a beginning and an end.  Connecting a client is one step: it ends with   *)
(* an open client in hand or with nothing.  Which devices answer, which are *)
(* missed, and when a back-off gap is over, are left open here.             *)
(***************************************************************************)
EXTENDS Naturals, FiniteSets

CONSTANTS
    Keys,       \* registry keys: resolved IPv4 addresses
    Clients,    \* client objects; one no task can reach again is made anew
    Entries,    \* KASA_COLLECTOR_DEVICE_HOSTS: a key, or a DNS name (not in Keys)
    None        \* no client, no key

ASSUME KeysAssumption == IsFiniteSet(Keys)
ASSUME NoneAssumption == None \notin Keys /\ None \notin Clients /\ None \notin Entries

Loops == {"emeter", "sysinfo"}
Fetches == Loops \X Keys

VARIABLES
    devices,    \* DeviceManager.devices
    emeter,     \* DeviceManager.emeter_devices, the dict both loops poll
    manual,     \* DeviceManager.manual_addresses
    session,    \* each client's connection: "open" or "closed"
    inFlight,   \* _ClientState.in_flight
    retiring,   \* _ClientState.retiring
    fetch,      \* the task polling a key in a loop, with its client
    reconnect,  \* the reconnect task of a key, with the client it replaces or closes
    adder,      \* the add_manual_device task of an entry
    dropping,   \* the dropped client the discovery task is waiting to close
    stage,      \* where the discovery task is in its pass
    phase,      \* where KasaCollector.shutdown is
    raced,      \* history: clients closed, or overwritten, while registered by a re-add
    cut         \* history: clients a cancellation left in nobody's hands

vars == <<devices, emeter, manual, session, inFlight, retiring, fetch, reconnect,
          adder, dropping, stage, phase, raced, cut>>

NoFetch == [pc |-> "idle", client |-> None]
NoReconnect == [pc |-> "idle", client |-> None]
NoAdder == [pc |-> "idle", key |-> None, new |-> None, victim |-> None]
Adding == [pc |-> "connecting", key |-> None, new |-> None, victim |-> None]

-----------------------------------------------------------------------------
(* Who refers to a client. *)

Registered(c) == \E k \in Keys : devices[k] = c

\* The fetches between hold() and release() of client c.
Holders(c) == {t \in Fetches : fetch[t].pc = "running" /\ fetch[t].client = c}

ClosedByFetch(c) == \E t \in Fetches : fetch[t].pc = "closing" /\ fetch[t].client = c
ClosedByReconnect(c) ==
    \E k \in Keys : reconnect[k].pc = "closing" /\ reconnect[k].client = c
ClosedByAdder(c) == \E e \in Entries : adder[e].pc = "closing" /\ adder[e].victim = c

\* Some task is inside `await device.disconnect()` for c.
Closing(c) ==
    ClosedByFetch(c) \/ ClosedByReconnect(c) \/ ClosedByAdder(c) \/ dropping = c

\* c is the open client an add_manual_device task is about to register.
InHand(c) == \E e \in Entries : adder[e].new = c

\* c is known to someone other than the task that connected it.
Mentioned(c) ==
    \/ \E k \in Keys : c \in {devices[k], emeter[k], reconnect[k].client}
    \/ \E t \in Fetches : fetch[t].client = c
    \/ c \in retiring \/ dropping = c \/ c \in raced

\* A client object that can be made: closed, and out of every task's reach.
Fresh(c) ==
    /\ session[c] = "closed" /\ ~Mentioned(c)
    /\ \A e \in Entries : c \notin {adder[e].new, adder[e].victim}

-----------------------------------------------------------------------------
Init ==
    /\ devices = [k \in Keys |-> None]
    /\ emeter = [k \in Keys |-> None]
    /\ manual = [e \in Entries |-> None]
    /\ session = [c \in Clients |-> "closed"]
    /\ inFlight = [c \in Clients |-> 0]
    /\ retiring = {}
    /\ fetch = [t \in Fetches |-> NoFetch]
    /\ reconnect = [k \in Keys |-> NoReconnect]
    /\ adder = [e \in Entries |-> NoAdder]
    /\ dropping = None
    /\ stage = "idle"
    /\ phase = "running"
    /\ raced = {}
    /\ cut = {}

discoveryVars == <<manual, adder, dropping, stage>>
historyVars == <<raced, cut>>

-----------------------------------------------------------------------------
(* The poller's fetches. *)

Polled(k) == emeter[k] # None

\* A loop's cycle: one task for each client emeter_devices holds at this moment,
\* once every task of its last cycle is over.
CycleStart(l) ==
    /\ phase = "running"
    /\ \A k \in Keys : fetch[<<l, k>>].pc = "idle"
    /\ \E k \in Keys : Polled(k)
    /\ fetch' = [t \in Fetches |->
                    IF t[1] = l /\ Polled(t[2])
                    THEN [pc |-> "spawned", client |-> emeter[t[2]]]
                    ELSE fetch[t]]
    /\ UNCHANGED <<devices, emeter, session, inFlight, retiring, reconnect, phase,
                   discoveryVars, historyVars>>

\* Mutants, here and below: the next definition with a bug the properties find.
IsCurrentUnchecked(k, c) == TRUE

IsCurrent(k, c) == devices[k] = c

HoldAsFlag(c) == inFlight' = [inFlight EXCEPT ![c] = 1]

Hold(c) == inFlight' = [inFlight EXCEPT ![c] = @ + 1]

\* The task's first step: a client still registered is held.
FetchBegin(t) ==
    LET c == fetch[t].client IN
    /\ fetch[t].pc = "spawned"
    /\ IsCurrent(t[2], c)
    /\ Hold(c)
    /\ fetch' = [fetch EXCEPT ![t] = [pc |-> "running", client |-> c]]
    /\ UNCHANGED <<devices, emeter, session, retiring, reconnect, phase,
                   discoveryVars, historyVars>>

\* A client replaced since the cycle began is skipped; a cancelled task never starts.
FetchSkip(t) ==
    /\ fetch[t].pc = "spawned"
    /\ phase # "running" \/ ~IsCurrent(t[2], fetch[t].client)
    /\ fetch' = [fetch EXCEPT ![t] = NoFetch]
    /\ UNCHANGED <<devices, emeter, session, inFlight, retiring, reconnect, phase,
                   discoveryVars, historyVars>>

\* device.update(): python-kasa opens a session again when the client has none.
FetchUpdate(t) ==
    /\ fetch[t].pc = "running"
    /\ session' = [session EXCEPT ![fetch[t].client] = "open"]
    /\ UNCHANGED <<devices, emeter, inFlight, retiring, fetch, reconnect, phase,
                   discoveryVars, historyVars>>

\* A SMART strip with an outlet python-kasa gave up on: one reconnect of it at a time.
RequestReconnect(k) ==
    LET t == <<"emeter", k>> IN
    /\ fetch[t].pc = "running"
    /\ reconnect[k].pc = "idle"
    /\ reconnect' = [reconnect EXCEPT ![k] = [pc |-> "connecting",
                                              client |-> fetch[t].client]]
    /\ UNCHANGED <<devices, emeter, session, inFlight, retiring, fetch, phase,
                   discoveryVars, historyVars>>

LastHoldLate(c) == inFlight[c] < 1
LastHoldAlways(c) == TRUE

\* release(c) lets go of the last hold on c.
LastHold(c) == inFlight[c] <= 1

\* The fetch is over, whatever its outcome: release the client, and close it when it
\* was retired meanwhile and this was its last fetch.
FetchEnd(t) ==
    LET c == fetch[t].client
        last == LastHold(c) IN
    /\ fetch[t].pc = "running"
    /\ inFlight' = [inFlight EXCEPT ![c] = IF last THEN 0 ELSE @ - 1]
    /\ retiring' = IF last THEN retiring \ {c} ELSE retiring
    /\ fetch' = [fetch EXCEPT ![t] = IF last /\ c \in retiring
                                     THEN [pc |-> "closing", client |-> c]
                                     ELSE NoFetch]
    /\ UNCHANGED <<devices, emeter, session, reconnect, phase,
                   discoveryVars, historyVars>>

\* How a close ends: "closed", or cut short by a cancellation with the session
\* in either state.
Finished(c) == session' = [session EXCEPT ![c] = "closed"] /\ cut' = cut
CutShort(c) ==
    /\ \/ session' = [session EXCEPT ![c] = "closed"]
       \/ session' = session
    /\ cut' = cut \cup {c}

FetchClosed(t) ==
    LET c == fetch[t].client IN
    /\ fetch[t].pc = "closing"
    /\ Finished(c) \/ (phase = "cancelling" /\ CutShort(c))
    /\ fetch' = [fetch EXCEPT ![t] = NoFetch]
    /\ UNCHANGED <<devices, emeter, inFlight, retiring, reconnect, phase,
                   discoveryVars, raced>>

-----------------------------------------------------------------------------
(* The poller's reconnects. *)

ReconnectFails(k) ==
    /\ reconnect[k].pc = "connecting"
    /\ reconnect' = [reconnect EXCEPT ![k] = NoReconnect]
    /\ UNCHANGED <<devices, emeter, session, inFlight, retiring, fetch, phase,
                   discoveryVars, historyVars>>

MaySwapOverAny(k, old) == phase \notin {"disconnecting", "done"}

\* swap_client refuses once the old client is not the registered one.
MaySwap(k, old) == phase \notin {"disconnecting", "done"} /\ IsCurrent(k, old)

InUseNever(c) == FALSE
InUseAlways(c) == TRUE

\* retire(c): a client some fetch holds waits for it in retiring.
InUse(c) == inFlight[c] > 0

SwapPolledOnly(k, old, new) ==
    /\ devices' = devices
    /\ emeter' = [emeter EXCEPT ![k] = IF @ = old THEN new ELSE @]

\* swap_client: the new client in every registry that holds the old one.
Swap(k, old, new) ==
    /\ devices' = [devices EXCEPT ![k] = new]
    /\ emeter' = [emeter EXCEPT ![k] = IF @ = old THEN new ELSE @]

\* The new client is registered in place of the old, which is retired: closed now, or
\* left to the last fetch that holds it.
ReconnectSwaps(k, new) ==
    LET old == reconnect[k].client
        held == InUse(old) IN
    /\ reconnect[k].pc = "connecting"
    /\ phase \in {"running", "cancelling"}
    /\ Fresh(new)
    /\ MaySwap(k, old)
    /\ session' = [session EXCEPT ![new] = "open"]
    /\ Swap(k, old, new)
    /\ retiring' = IF held THEN retiring \cup {old} ELSE retiring
    /\ reconnect' = [reconnect EXCEPT ![k] =
                        IF held THEN NoReconnect
                        ELSE [pc |-> "closing", client |-> old]]
    /\ cut' = cut \ {new}
    /\ UNCHANGED <<inFlight, fetch, phase, discoveryVars, raced>>

\* The old client was replaced or removed while the new one connected: close the new.
ReconnectTooLate(k, new) ==
    /\ reconnect[k].pc = "connecting"
    /\ phase \in {"running", "cancelling"}
    /\ Fresh(new)
    /\ ~MaySwap(k, reconnect[k].client)
    /\ session' = [session EXCEPT ![new] = "open"]
    /\ reconnect' = [reconnect EXCEPT ![k] = [pc |-> "closing", client |-> new]]
    /\ cut' = cut \ {new}
    /\ UNCHANGED <<devices, emeter, inFlight, retiring, fetch, phase,
                   discoveryVars, raced>>

ReconnectClosed(k) ==
    LET c == reconnect[k].client IN
    /\ reconnect[k].pc = "closing"
    /\ Finished(c) \/ (phase = "reconnects" /\ CutShort(c))
    /\ reconnect' = [reconnect EXCEPT ![k] = NoReconnect]
    /\ UNCHANGED <<devices, emeter, inFlight, retiring, fetch, phase,
                   discoveryVars, raced>>

-----------------------------------------------------------------------------
(* The discovery task: reconcile, prune, then register what answered. *)

pollerVars == <<inFlight, fetch, reconnect>>

\* Whether key k is configured: listed itself, or the address of a listed entry.
Configured(k) == k \in Entries \/ \E e \in Entries : manual[e] = k

\* The key under which entry e must be registered; a name with none is always missing.
EntryKey(e) == IF manual[e] # None THEN manual[e] ELSE e
Missing(e) == EntryKey(e) \notin Keys \/ devices[EntryKey(e)] = None

Resolves(e) == IF e \in Keys THEN {e} ELSE Keys

PassStart ==
    /\ phase = "running" /\ stage = "idle"
    /\ stage' = "moved"
    /\ UNCHANGED <<devices, emeter, session, retiring, manual, adder, dropping, phase,
                   pollerVars, historyVars>>

ReleaseForgets(c) == retiring' = retiring /\ dropping' = dropping

\* close_when_free(c), for a client no longer in devices.
Release(c) ==
    IF InUse(c)
    THEN retiring' = retiring \cup {c} /\ dropping' = dropping
    ELSE retiring' = retiring /\ dropping' = c

UnregisterStillPolled(k) == devices' = [devices EXCEPT ![k] = None] /\ emeter' = emeter

\* A key is popped from the registry and from what is polled.
Unregister(k) ==
    /\ devices' = [devices EXCEPT ![k] = None]
    /\ emeter' = [emeter EXCEPT ![k] = None]

\* Entry e, a name, now resolves elsewhere: its client at k is dropped, unless another
\* entry still configures k.
DropMoved(e) ==
    LET k == manual[e]
        stillConfigured == k \in Entries \/ \E f \in Entries \ {e} : manual[f] = k IN
    /\ phase = "running" /\ stage = "moved" /\ dropping = None
    /\ k # None /\ k # e
    /\ manual' = [manual EXCEPT ![e] = None]
    /\ IF stillConfigured
       THEN UNCHANGED <<devices, emeter, retiring, dropping>>
       ELSE /\ Unregister(k)
            /\ IF devices[k] # None THEN Release(devices[k])
               ELSE UNCHANGED <<retiring, dropping>>
    /\ UNCHANGED <<session, adder, stage, phase, pollerVars, historyVars>>

AddsNotAwaited == TRUE

AddsOver == \A e \in Entries : adder[e].pc = "idle"

\* One add_manual_device task for every entry not registered now.
AddsStart ==
    /\ phase = "running" /\ stage = "moved" /\ dropping = None
    /\ stage' = "adding"
    /\ adder' = [e \in Entries |-> IF Missing(e) THEN Adding ELSE NoAdder]
    /\ UNCHANGED <<devices, emeter, session, retiring, manual, dropping, phase,
                   pollerVars, historyVars>>

AddFails(e) ==
    /\ adder[e].pc = "connecting"
    /\ adder' = [adder EXCEPT ![e] = NoAdder]
    /\ UNCHANGED <<devices, emeter, session, retiring, manual, dropping, stage, phase,
                   pollerVars, historyVars>>

\* self.devices[key] = device and _check_and_add_emeter_device; energy tells whether
\* the device measures it.
Register(k, c, energy) ==
    /\ devices' = [devices EXCEPT ![k] = c]
    /\ emeter' = IF energy THEN [emeter EXCEPT ![k] = c] ELSE emeter

\* get_device returned client c at address k.  A client already registered there is
\* released first: if that is a close to wait for, it stays registered meanwhile.
AddConnects(e, k, c, energy) ==
    LET previous == devices[k] IN
    /\ adder[e].pc = "connecting"
    /\ Fresh(c)
    /\ session' = [session EXCEPT ![c] = "open"]
    /\ cut' = cut \ {c}
    /\ IF previous # None /\ ~InUse(previous)
       THEN /\ adder' = [adder EXCEPT ![e] = [pc |-> "closing", key |-> k, new |-> c,
                                              victim |-> previous]]
            /\ raced' = raced \cup {previous}
            /\ UNCHANGED <<devices, emeter, manual, retiring>>
       ELSE /\ Register(k, c, energy)
            /\ manual' = [manual EXCEPT ![e] = k]
            /\ retiring' = IF previous # None THEN retiring \cup {previous} ELSE retiring
            /\ adder' = [adder EXCEPT ![e] = NoAdder]
            /\ raced' = raced
    /\ UNCHANGED <<dropping, stage, phase, pollerVars>>

\* The close of the previous client is over: the new one is registered over whatever
\* client the key holds by now.
AddCloses(e, energy) ==
    LET a == adder[e] IN
    /\ a.pc = "closing"
    /\ session' = [session EXCEPT ![a.victim] = "closed"]
    /\ Register(a.key, a.new, energy)
    /\ manual' = [manual EXCEPT ![e] = a.key]
    /\ raced' = raced \cup ({devices[a.key]} \ {None})
    /\ adder' = [adder EXCEPT ![e] = NoAdder]
    /\ UNCHANGED <<retiring, dropping, stage, phase, cut, pollerVars>>

\* Every add is over; without auto-discovery the pass ends here.
AddsEnd ==
    /\ phase = "running" /\ stage = "adding" /\ AddsOver
    /\ stage' \in {"pruning", "idle"}
    /\ UNCHANGED <<devices, emeter, session, retiring, manual, adder, dropping, phase,
                   pollerVars, historyVars>>

\* remove_missing_devices drops a client, never one of a configured host.
Prune(k) ==
    /\ phase = "running" /\ stage = "pruning" /\ dropping = None
    /\ devices[k] # None
    /\ ~Configured(k)
    /\ Unregister(k)
    /\ Release(devices[k])
    /\ UNCHANGED <<session, manual, adder, stage, phase, pollerVars, historyVars>>

DropClosed ==
    /\ dropping # None
    /\ Finished(dropping) \/ (phase = "cancelling" /\ CutShort(dropping))
    /\ dropping' = None
    /\ UNCHANGED <<devices, emeter, manual, retiring, adder, stage, phase, raced,
                   pollerVars>>

PruneEnd ==
    /\ phase = "running" /\ stage = "pruning" /\ dropping = None
    /\ stage' = "registering"
    /\ UNCHANGED <<devices, emeter, session, retiring, manual, adder, dropping, phase,
                   pollerVars, historyVars>>

\* A reclaimed or newly authenticated device, at a key nothing is registered under.
RegisterFound(k, c, energy) ==
    /\ stage = "registering"
    /\ devices[k] = None
    /\ Fresh(c)
    /\ session' = [session EXCEPT ![c] = "open"]
    /\ cut' = cut \ {c}
    /\ Register(k, c, energy)
    /\ UNCHANGED <<retiring, manual, adder, dropping, stage, phase, raced, pollerVars>>

PassNotCancelled == FALSE

PassCancelled == phase = "cancelling" /\ stage # "idle"

PassEnd ==
    /\ stage = "registering" \/ PassCancelled
    /\ dropping = None /\ AddsOver
    /\ stage' = "idle"
    /\ UNCHANGED <<devices, emeter, session, retiring, manual, adder, dropping, phase,
                   pollerVars, historyVars>>

-----------------------------------------------------------------------------
(* KasaCollector.shutdown. *)

\* The loops and the discovery task are cancelled.  A task of their TaskGroups hears of
\* it one turn of the event loop later, and may take a step it was due before.
Shutdown ==
    /\ phase = "running"
    /\ phase' = "cancelling"
    /\ UNCHANGED <<devices, emeter, session, retiring, discoveryVars, pollerVars,
                   historyVars>>

\* A cancelled add_manual_device: get_device closes what it opened, but the task that
\* waits for the old client to close drops the new one it has in hand.
AddCancelled(e) ==
    LET a == adder[e] IN
    /\ phase = "cancelling"
    /\ a.pc = "closing"
    /\ \/ session' = [session EXCEPT ![a.victim] = "closed"]
       \/ session' = session
    /\ cut' = cut \cup {a.new}
    /\ adder' = [adder EXCEPT ![e] = NoAdder]
    /\ UNCHANGED <<devices, emeter, manual, retiring, dropping, stage, phase, raced,
                   pollerVars>>

\* Every cancelled task is over: poller.close() cancels the reconnects.
CloseReconnects ==
    /\ phase = "cancelling"
    /\ stage = "idle" /\ dropping = None /\ AddsOver
    /\ \A t \in Fetches : fetch[t].pc = "idle"
    /\ phase' = "reconnects"
    /\ UNCHANGED <<devices, emeter, session, retiring, discoveryVars, pollerVars,
                   historyVars>>

ReconnectsNotAwaited == TRUE

ReconnectsOver == \A k \in Keys : reconnect[k].pc = "idle"

\* No reconnect is left: disconnect_all_devices begins.
BeginDisconnect ==
    /\ phase = "reconnects" /\ ReconnectsOver
    /\ phase' = "disconnecting"
    /\ UNCHANGED <<devices, emeter, session, retiring, discoveryVars, pollerVars,
                   historyVars>>

DisconnectAll ==
    /\ phase = "disconnecting"
    /\ session' = [c \in Clients |-> IF Registered(c) THEN "closed" ELSE session[c]]
    /\ devices' = [k \in Keys |-> None]
    /\ emeter' = [k \in Keys |-> None]
    /\ phase' = "done"
    /\ UNCHANGED <<retiring, discoveryVars, pollerVars, historyVars>>

Terminated == phase = "done" /\ UNCHANGED vars

-----------------------------------------------------------------------------
FetchNext(t) ==
    FetchBegin(t) \/ FetchSkip(t) \/ FetchUpdate(t) \/ FetchEnd(t) \/ FetchClosed(t)

ReconnectNext(k) ==
    \/ RequestReconnect(k)
    \/ ReconnectFails(k)
    \/ \E c \in Clients : ReconnectSwaps(k, c) \/ ReconnectTooLate(k, c)
    \/ ReconnectClosed(k)

AddNext(e) ==
    \/ AddFails(e)
    \/ \E k \in Resolves(e), c \in Clients, energy \in BOOLEAN : AddConnects(e, k, c, energy)
    \/ \E energy \in BOOLEAN : AddCloses(e, energy)
    \/ AddCancelled(e)

DiscoveryNext ==
    \/ PassStart \/ AddsStart \/ AddsEnd \/ DropClosed \/ PruneEnd \/ PassEnd
    \/ \E e \in Entries : DropMoved(e) \/ AddNext(e)
    \/ \E k \in Keys :
        \/ Prune(k)
        \/ \E c \in Clients, energy \in BOOLEAN : RegisterFound(k, c, energy)

ShutdownNext == Shutdown \/ CloseReconnects \/ BeginDisconnect \/ DisconnectAll

Next ==
    \/ \E l \in Loops : CycleStart(l)
    \/ \E t \in Fetches : FetchNext(t)
    \/ \E k \in Keys : ReconnectNext(k)
    \/ DiscoveryNext
    \/ ShutdownNext
    \/ Terminated

Spec == Init /\ [][Next]_vars

\* What ends on its own: a fetch (its deadline is 80% of the interval and its write has
\* the same again), a connect and a close (python-kasa bounds its own requests), and
\* every step the event loop has queued.  A new cycle, a pass, a reconnect, a re-use of a
\* client and a signal need not come.
Fairness ==
    /\ \A t \in Fetches : WF_vars(FetchBegin(t) \/ FetchSkip(t)) /\ WF_vars(FetchEnd(t))
                          /\ WF_vars(FetchClosed(t))
    /\ \A k \in Keys : WF_vars(ReconnectFails(k) \/ \E c \in Clients :
                                   ReconnectSwaps(k, c) \/ ReconnectTooLate(k, c))
                       /\ WF_vars(ReconnectClosed(k))
    /\ \A e \in Entries : WF_vars(AddNext(e))
    /\ WF_vars(DropClosed)
    /\ WF_vars(PassEnd)
    /\ WF_vars(CloseReconnects \/ BeginDisconnect \/ DisconnectAll)

FairSpec == Spec /\ Fairness

-----------------------------------------------------------------------------
(* Properties. *)

ClientOrNone == Clients \cup {None}

TypeOK ==
    /\ devices \in [Keys -> ClientOrNone]
    /\ emeter \in [Keys -> ClientOrNone]
    /\ manual \in [Entries -> Keys \cup {None}]
    /\ session \in [Clients -> {"open", "closed"}]
    /\ inFlight \in [Clients -> Nat]
    /\ retiring \subseteq Clients
    /\ fetch \in [Fetches -> [pc : {"idle", "spawned", "running", "closing"},
                              client : ClientOrNone]]
    /\ \A t \in Fetches : fetch[t].pc # "idle" => fetch[t].client \in Clients
    /\ reconnect \in [Keys -> [pc : {"idle", "connecting", "closing"},
                               client : ClientOrNone]]
    /\ \A k \in Keys : reconnect[k].pc # "idle" => reconnect[k].client \in Clients
    /\ adder \in [Entries -> [pc : {"idle", "connecting", "closing"},
                              key : Keys \cup {None},
                              new : ClientOrNone,
                              victim : ClientOrNone]]
    /\ \A e \in Entries :
        adder[e].pc = "closing" => /\ adder[e].key \in Keys
                                   /\ {adder[e].new, adder[e].victim} \subseteq Clients
    /\ dropping \in ClientOrNone
    /\ stage \in {"idle", "moved", "adding", "pruning", "registering"}
    /\ phase \in {"running", "cancelling", "reconnects", "disconnecting", "done"}
    /\ raced \subseteq Clients
    /\ cut \subseteq Clients

\* The poller's count of a client is the number of fetches holding it, so the fetch that
\* brings it to zero is really the last (poller.py hold/release).
InFlightExact == \A c \in Clients : inFlight[c] = Cardinality(Holders(c))

\* No client is closed, or being closed, while a fetch holds it, whoever dropped it and
\* whenever: pruned, moved, swapped or replaced.  A client a re-add closes before
\* replacing it is the exception (see AddConnects).
HeldNeverClosed ==
    \A t \in Fetches :
        LET c == fetch[t].client IN
        fetch[t].pc = "running" /\ c \notin raced => session[c] = "open" /\ ~Closing(c)

\* A client the registry hands out is open and nobody is closing it.
RegisteredNeverClosed ==
    \A c \in Clients \ raced : Registered(c) => session[c] = "open" /\ ~Closing(c)

\* No session is forgotten: an open client is registered, about to be, being closed, or
\* retired and still held by the fetch that will close it.
NoLeak ==
    \A c \in Clients \ (raced \cup cut) :
        session[c] = "open" =>
            \/ Registered(c) \/ InHand(c) \/ Closing(c)
            \/ c \in retiring /\ Holders(c) # {}

\* A key out of the registry is out of emeter_devices, and the client polled there is the
\* registered one.  Where DEVICE_HOSTS lists names, a re-add with a device that measures
\* no energy may leave the replaced client in emeter_devices (is_current skips it).
EmeterFollowsDevices ==
    \A k \in Keys :
        emeter[k] # None => /\ devices[k] # None
                            /\ Entries \subseteq Keys => emeter[k] = devices[k]

\* A shutdown leaves no session open but those whose close it cancelled.
ShutdownClosesAll ==
    phase = "done" => \A c \in Clients \ (raced \cup cut) : session[c] = "closed"

\* Only a connect opens a session: nothing fetches on a client once it was closed, and
\* so nothing reopens it (poller.py close_when_free).
NeverReopened ==
    [][\A c \in Clients \ raced : session[c] = "closed" /\ session'[c] = "open" => Fresh(c)]_vars

\* A client the registry drops is closed in the end.
DroppedIsClosed ==
    \A c \in Clients :
        session[c] = "open" /\ ~Registered(c)
            ~> session[c] = "closed" \/ Registered(c) \/ c \in raced \cup cut

\* A shutdown finishes.
ShutdownFinishes == phase = "cancelling" ~> phase = "done"

\* A client leaves the registry only into someone's hands: it is being closed, it was just
\* closed, or it waits in retiring for its last fetch.
DroppedIsReleased ==
    [][\A c \in Clients \ raced' :
          Registered(c) /\ ~Registered(c)'
            => Closing(c)' \/ c \in retiring' \/ session'[c] = "closed"]_vars

\* The first promise without that exception.  Where DEVICE_HOSTS lists a name it fails.
HeldNeverClosedAtAll ==
    \A t \in Fetches : fetch[t].pc = "running" => ~Closing(fetch[t].client)

-----------------------------------------------------------------------------
(* What makes them hold: the inductive invariant. *)

\* A client is registered under one key.
OneKeyEach ==
    \A j, k \in Keys : devices[j] # None /\ devices[j] = devices[k] => j = k

\* The client an add waits to register is open, and nobody else has heard of it.
AddersApart ==
    /\ \A e \in Entries :
        IF adder[e].pc = "closing"
        THEN /\ session[adder[e].new] = "open" /\ ~Mentioned(adder[e].new)
             /\ adder[e].victim \in raced
        ELSE adder[e].new = None /\ adder[e].victim = None
    /\ \A e, f \in Entries : adder[e].new # None /\ adder[e].new = adder[f].new => e = f

\* A retired client is dropped, and some fetch still holds it.
RetiringDropped == \A c \in retiring \ raced : ~Registered(c)
RetiringHeld == \A c \in retiring : inFlight[c] > 0

\* What each stage of a pass, and each phase of the shutdown, has waited for.
Quiet ==
    /\ stage # "adding" => \A e \in Entries : adder[e].pc = "idle"
    /\ phase \in {"reconnects", "disconnecting", "done"} =>
        /\ \A t \in Fetches : fetch[t].pc = "idle"
        /\ \A e \in Entries : adder[e].pc = "idle"
        /\ dropping = None /\ stage = "idle"
    /\ phase \in {"disconnecting", "done"} => \A k \in Keys : reconnect[k].pc = "idle"
    /\ phase = "done" => \A k \in Keys : devices[k] = None

IInv ==
    /\ TypeOK /\ InFlightExact
    /\ OneKeyEach /\ AddersApart /\ RetiringDropped /\ RetiringHeld /\ Quiet
    /\ HeldNeverClosed /\ RegisteredNeverClosed /\ NoLeak

-----------------------------------------------------------------------------
(* ClientHandle: what the two components promise. *)

Life(c) ==
    IF Closing(c) THEN "closing"
    ELSE IF session[c] = "closed" THEN "none"
    ELSE IF InHand(c) THEN "new"
    ELSE IF Registered(c) THEN "live"
    ELSE IF c \in cut THEN "lost"
    ELSE "leaving"

Handle == INSTANCE ClientHandle
    WITH life <- [c \in Clients |-> Life(c)], users <- inFlight, excused <- raced

\* Each client is a counted handle: used only while registered, closed by the last one.
\* A client a re-add closes or overwrites is excused from then on; none is where no entry
\* is a name.
ImplementsHandle == Handle!HandleSpec
=============================================================================
