--------------------------- MODULE DeviceRegistry ---------------------------
(***************************************************************************)
(* Which addresses the device manager collects from (collector/             *)
(* device_manager.py): one discovery pass after another, each reconciling   *)
(* the configured hosts, broadcasting, pruning what has been silent for     *)
(* long, probing by unicast every address it remembers, and authenticating  *)
(* what is new.  Between any two steps of a pass devices come and go, polls *)
(* answer, names move in DNS, and the process may be restarted with nothing *)
(* but the roster file.                                                     *)
(*                                                                          *)
(* An address is a device here: its client is ClientLifecycle's subject.    *)
(* Auto-discovery is on; a device that is up accepts a connection.          *)
(***************************************************************************)
EXTENDS Naturals, FiniteSets

CONSTANTS
    Addrs,        \* IPv4 addresses, the registry's keys
    Listed,       \* the addresses KASA_COLLECTOR_DEVICE_HOSTS lists
    Names,        \* the DNS names it lists
    Meters,       \* addresses whose device measures energy, and so is polled
    KeepMissing,  \* KASA_COLLECTOR_KEEP_MISSING_DEVICES
    Threshold,    \* KASA_COLLECTOR_DISCOVERY_MISS_THRESHOLD
    Grace,        \* KASA_COLLECTOR_DEVICE_DISCOVERY_INTERVAL, in ticks
    MaxEvents,    \* bound on what the world does: devices, DNS, disk, network, restarts
    None

ASSUME RegistryAssumption ==
    /\ Listed \subseteq Addrs /\ Meters \subseteq Addrs
    /\ Addrs \cap Names = {} /\ None \notin Addrs
    /\ KeepMissing \in BOOLEAN
    /\ Threshold \in Nat \ {0} /\ Grace \in Nat /\ MaxEvents \in Nat

VARIABLES
    up,          \* the addresses that answer a connection
    dns,         \* what each name resolves to; nothing while DNS is out
    writable,    \* whether the roster file can be written
    roster,      \* the roster file, known_devices.json
    registered,  \* the keys of DeviceManager.devices
    misses,      \* discovery_misses, 0 for an absent key
    sinceOk,     \* ticks since last_poll_ok, up to Grace + 1 (also: none)
    retired,     \* the keys of retired
    known,       \* known_addresses
    manual,      \* manual_addresses
    movedTo,     \* _moved_to
    asking,      \* addresses a poll in flight waits for
    stage,       \* where discover_devices is
    found,       \* what this pass's broadcast returned
    todo,        \* what is left of the stage
    quiet,       \* history: rounds in a row nothing spoke for a registered address
    events       \* bound: how often the world has changed

world == <<up, dns, writable>>
memory == <<registered, misses, sinceOk, retired, known, manual, movedTo>>
pass == <<stage, found, todo>>
vars == <<world, roster, memory, asking, pass, quiet, events>>

Entries == Listed \cup Names
NoPoll == Grace + 1

Init ==
    /\ up \in SUBSET Addrs
    /\ dns \in [Names -> SUBSET Addrs]
    /\ writable \in BOOLEAN
    /\ roster \in SUBSET Addrs
    /\ registered = {}
    /\ misses = [a \in Addrs |-> 0]
    /\ sinceOk = [a \in Addrs |-> NoPoll]
    /\ retired = {}
    /\ known = roster
    /\ manual = [e \in Entries |-> None]
    /\ movedTo = [e \in Names |-> None]
    /\ asking = {}
    /\ stage = "idle" /\ found = {} /\ todo = {}
    /\ quiet = [a \in Addrs |-> 0]
    /\ events = 0

-----------------------------------------------------------------------------
(* The roster: rewritten whole when an address is new or gone, if it can be. *)

SetKnown(addresses) ==
    /\ known' = addresses
    /\ roster' = IF addresses # known /\ writable THEN addresses ELSE roster

\* Mutants, here and below: the next definition with a bug the properties find.
RememberNothing(a) == SetKnown(known)

Remember(a) == SetKnown(known \cup {a})
Forget(a) == SetKnown(known \ {a})

\* Every registration goes through _check_and_add_emeter_device, which remembers it.
Register(a) ==
    /\ registered' = registered \cup {a}
    /\ Remember(a)
    /\ quiet' = [quiet EXCEPT ![a] = IF a \in registered THEN @ ELSE 0]

NotRegistered == UNCHANGED <<registered, known, roster, quiet>>

\* Configured by address, or as the address a listed name was found at.
Configured(a) == a \in Listed \/ \E e \in Entries : manual[e] = a

-----------------------------------------------------------------------------
(* reconcile_manual_devices *)

PassStart ==
    /\ stage = "idle"
    /\ stage' = "moved"
    /\ todo' = {e \in Names : manual[e] # None}
    /\ UNCHANGED <<world, roster, memory, asking, found, quiet, events>>

HasMovedNever(e) == FALSE

\* A name that resolves, and no longer to its address, is dropped there and is to be
\* added where it points now.
HasMoved(e) == dns[e] # {} /\ manual[e] \notin dns[e]

CheckName(e) ==
    /\ stage = "moved" /\ e \in todo
    /\ ~HasMoved(e)
    /\ todo' = todo \ {e}
    /\ UNCHANGED <<world, roster, memory, asking, stage, found, quiet, events>>

StillConfiguredNever(e, old) == FALSE

\* Another entry configures the address that e moves away from.
StillConfigured(e, old) == old \in Listed \/ \E f \in Entries \ {e} : manual[f] = old

DropMoved(e, new) ==
    LET old == manual[e] IN
    /\ stage = "moved" /\ e \in todo
    /\ HasMoved(e) /\ new \in dns[e]
    /\ todo' = todo \ {e}
    /\ manual' = [manual EXCEPT ![e] = None]
    /\ movedTo' = [movedTo EXCEPT ![e] = new]
    /\ IF StillConfigured(e, old)
       THEN UNCHANGED <<registered, misses, sinceOk, retired, known, roster>>
       ELSE /\ registered' = registered \ {old}
            /\ misses' = [misses EXCEPT ![old] = 0]
            /\ sinceOk' = [sinceOk EXCEPT ![old] = NoPoll]
            /\ retired' = retired \ {old}
            /\ Forget(old)
    /\ UNCHANGED <<world, asking, stage, found, quiet, events>>

\* A listed entry with no registered device.  A name is its own key until it is found.
Missing(e) == (IF manual[e] # None THEN manual[e] ELSE e) \notin registered

AddsStart ==
    /\ stage = "moved" /\ todo = {}
    /\ stage' = "adding"
    /\ todo' = {e \in Entries : Missing(e)}
    /\ UNCHANGED <<world, roster, memory, asking, found, quiet, events>>

\* Where get_device looks for entry e: one of these addresses.
Targets(e) ==
    IF e \in Listed THEN {e}
    ELSE IF movedTo[e] # None THEN {movedTo[e]}
    ELSE dns[e]

ForgetMove(e) == movedTo' = [f \in Names |-> IF f = e THEN None ELSE movedTo[f]]

AddManual(e, a) ==
    /\ stage = "adding" /\ e \in todo
    /\ a \in Targets(e) \cap up
    /\ Register(a)
    /\ manual' = [manual EXCEPT ![e] = a]
    /\ ForgetMove(e)
    /\ todo' = todo \ {e}
    /\ UNCHANGED <<world, misses, sinceOk, retired, asking, stage, found, events>>

AddManualFails(e) ==
    /\ stage = "adding" /\ e \in todo
    /\ Targets(e) \subseteq up => Targets(e) = {}
    /\ ForgetMove(e)
    /\ todo' = todo \ {e}
    /\ NotRegistered
    /\ UNCHANGED <<world, misses, sinceOk, retired, manual, asking, stage, found, events>>

-----------------------------------------------------------------------------
(* discover_devices *)

\* The broadcast is lossy: any of the devices that are up answer it.
Broadcast(answers) ==
    /\ stage = "adding" /\ todo = {}
    /\ answers \subseteq up
    /\ found' = answers
    /\ stage' = "pruning"
    /\ todo' = IF KeepMissing THEN {} ELSE registered
    /\ UNCHANGED <<world, roster, memory, asking, quiet, events>>

\* A broadcast that raises ends the pass: nothing is pruned, reclaimed or authenticated.
BroadcastFails ==
    /\ stage = "adding" /\ todo = {}
    /\ events < MaxEvents
    /\ events' = events + 1
    /\ stage' = "idle"
    /\ UNCHANGED <<world, roster, memory, asking, found, todo, quiet>>

Evidence(a) == a \in found \/ sinceOk[a] <= Grace

TooManyLate(a) == misses[a] + 1 > Threshold

TooMany(a) == misses[a] + 1 >= Threshold

\* One address of remove_missing_devices: kept when configured, seen or polled of late;
\* else a miss more, and at the threshold it is retired.
KeepConfigured(a) ==
    /\ Configured(a)
    /\ UNCHANGED <<registered, misses, sinceOk, retired>>
KeepSeenStillMissed(a) ==
    /\ ~Configured(a) /\ Evidence(a)
    /\ UNCHANGED <<registered, misses, sinceOk, retired>>
KeepSeen(a) ==
    /\ ~Configured(a) /\ Evidence(a)
    /\ misses' = [misses EXCEPT ![a] = 0]
    /\ UNCHANGED <<registered, sinceOk, retired>>
Miss(a) ==
    /\ ~Configured(a) /\ ~Evidence(a)
    /\ ~TooMany(a)
    /\ misses' = [misses EXCEPT ![a] = @ + 1]
    /\ UNCHANGED <<registered, sinceOk, retired>>
Retire(a) ==
    /\ ~Configured(a) /\ ~Evidence(a)
    /\ TooMany(a)
    /\ registered' = registered \ {a}
    /\ misses' = [misses EXCEPT ![a] = 0]
    /\ sinceOk' = [sinceOk EXCEPT ![a] = NoPoll]
    /\ retired' = retired \cup {a}

Prune(a) ==
    /\ stage = "pruning" /\ a \in todo
    /\ KeepConfigured(a) \/ KeepSeen(a) \/ Miss(a) \/ Retire(a)
    /\ todo' = todo \ {a}
    /\ quiet' = [quiet EXCEPT ![a] = IF Evidence(a) THEN 0
                                     ELSE IF @ < Threshold THEN @ + 1 ELSE @]
    /\ UNCHANGED <<world, roster, known, manual, movedTo, asking, stage, found, events>>

ToProbeAnyUnregistered == (known \cup retired) \ registered
ToProbeRetired == retired \ (registered \cup found)

ToProbe == (known \cup retired) \ (registered \cup found)
Back == found \cup registered

\* reclaim_retired_devices: what is back is no longer retired, and every other address
\* ever collected from is probed.
ReclaimStart ==
    /\ stage = "pruning" /\ todo = {}
    /\ stage' = "reclaiming"
    /\ retired' = retired \ Back
    /\ todo' = ToProbe
    /\ UNCHANGED <<world, roster, registered, misses, sinceOk, known, manual, movedTo,
                   asking, found, quiet, events>>

Reclaim(a) ==
    /\ stage = "reclaiming" /\ a \in todo
    /\ todo' = todo \ {a}
    /\ IF a \in up
       THEN /\ Register(a)
            /\ sinceOk' = [sinceOk EXCEPT ![a] = 0]
            /\ retired' = retired \ {a}
            /\ misses' = [misses EXCEPT ![a] = 0]
       ELSE NotRegistered /\ UNCHANGED <<sinceOk, retired, misses>>
    /\ UNCHANGED <<world, manual, movedTo, asking, stage, found, events>>

AuthStart ==
    /\ stage = "reclaiming" /\ todo = {}
    /\ stage' = "authenticating"
    /\ todo' = found \ registered
    /\ UNCHANGED <<world, roster, memory, asking, found, quiet, events>>

Authenticate(a) ==
    /\ stage = "authenticating" /\ a \in todo
    /\ todo' = todo \ {a}
    /\ IF a \in up THEN Register(a) ELSE NotRegistered
    /\ UNCHANGED <<world, misses, sinceOk, retired, manual, movedTo, asking, stage, found,
                   events>>

PassEnd ==
    /\ stage = "authenticating" /\ todo = {}
    /\ stage' = "idle" /\ found' = {} /\ todo' = {}
    /\ UNCHANGED <<world, roster, memory, asking, quiet, events>>

-----------------------------------------------------------------------------
(* Polls, time, and the world. *)

PollStart(a) ==
    /\ a \in (registered \cap Meters) \ asking
    /\ asking' = asking \cup {a}
    /\ UNCHANGED <<world, roster, memory, pass, quiet, events>>

\* mark_reachable, whether or not the address is still registered.
PollEnd(a) ==
    /\ a \in asking
    /\ asking' = asking \ {a}
    /\ sinceOk' = IF a \in up THEN [sinceOk EXCEPT ![a] = 0] ELSE sinceOk
    /\ UNCHANGED <<world, roster, registered, misses, retired, known, manual, movedTo,
                   pass, quiet, events>>

\* Pruning reads the clock once; its own waits are far below a tick.
Tick ==
    /\ stage # "pruning"
    /\ \E a \in Addrs : sinceOk[a] < NoPoll
    /\ sinceOk' = [a \in Addrs |-> IF sinceOk[a] < NoPoll THEN sinceOk[a] + 1 ELSE NoPoll]
    /\ UNCHANGED <<world, roster, registered, misses, retired, known, manual, movedTo,
                   asking, pass, quiet, events>>

Event ==
    /\ events < MaxEvents
    /\ events' = events + 1

UpOrDown(a) ==
    /\ Event
    /\ up' = IF a \in up THEN up \ {a} ELSE up \cup {a}
    /\ UNCHANGED <<dns, writable, roster, memory, asking, pass, quiet>>

Renumber(e) ==
    /\ Event
    /\ \E addresses \in SUBSET Addrs : dns' = [dns EXCEPT ![e] = addresses]
    /\ UNCHANGED <<up, writable, roster, memory, asking, pass, quiet>>

Remount ==
    /\ Event
    /\ writable' = ~writable
    /\ UNCHANGED <<up, dns, roster, memory, asking, pass, quiet>>

\* Killed at any step and started again: __init__ reads the roster, and nothing else is left.
Restart ==
    /\ Event
    /\ registered' = {} /\ retired' = {} /\ known' = roster
    /\ misses' = [a \in Addrs |-> 0]
    /\ sinceOk' = [a \in Addrs |-> NoPoll]
    /\ manual' = [e \in Entries |-> None]
    /\ movedTo' = [e \in Names |-> None]
    /\ asking' = {}
    /\ stage' = "idle" /\ found' = {} /\ todo' = {}
    /\ quiet' = [a \in Addrs |-> 0]
    /\ UNCHANGED <<world, roster>>

-----------------------------------------------------------------------------
Reconcile ==
    \/ PassStart \/ AddsStart
    \/ \E e \in Names : CheckName(e) \/ \E a \in Addrs : DropMoved(e, a)
    \/ \E e \in Entries : AddManualFails(e) \/ \E a \in Addrs : AddManual(e, a)

Discover ==
    \/ \E answers \in SUBSET Addrs : Broadcast(answers)
    \/ \E a \in Addrs : Prune(a) \/ Reclaim(a) \/ Authenticate(a)
    \/ BroadcastFails \/ ReclaimStart \/ AuthStart \/ PassEnd

World ==
    \/ \E a \in Addrs : UpOrDown(a)
    \/ \E e \in Names : Renumber(e)
    \/ Remount \/ Restart

Next ==
    \/ Reconcile \/ Discover
    \/ \E a \in Addrs : PollStart(a) \/ PollEnd(a)
    \/ Tick
    \/ World

Spec == Init /\ [][Next]_vars

\* periodic_discover never ends and outlives a failed pass; every wait in it is bounded.
FairSpec == Spec /\ WF_vars(Reconcile \/ Discover)

-----------------------------------------------------------------------------
(* Properties. *)

TypeOK ==
    /\ up \subseteq Addrs /\ dns \in [Names -> SUBSET Addrs] /\ writable \in BOOLEAN
    /\ roster \subseteq Addrs /\ registered \subseteq Addrs
    /\ retired \subseteq Addrs /\ known \subseteq Addrs
    /\ misses \in [Addrs -> 0 .. Threshold - 1]
    /\ sinceOk \in [Addrs -> 0 .. NoPoll]
    /\ manual \in [Entries -> Addrs \cup {None}]
    /\ movedTo \in [Names -> Addrs \cup {None}]
    /\ asking \subseteq Addrs
    /\ stage \in {"idle", "moved", "adding", "pruning", "reclaiming", "authenticating"}
    /\ found \subseteq Addrs /\ todo \subseteq Addrs \cup Names
    /\ quiet \in [Addrs -> 0 .. Threshold]
    /\ events \in 0 .. MaxEvents

\* An address collected from, or retired, is remembered: pruning never forgets one.
CollectedIsKnown == registered \cup retired \subseteq known

\* Only one route registers an address in a pass: what the reclaim probes was not found
\* and what is authenticated is not registered, so no client is overwritten there.
RoutesAreDisjoint ==
    /\ stage = "reclaiming" => todo \cap (registered \cup found) = {}
    /\ stage = "authenticating" => todo \cap registered = {}

\* A discovered device is dropped only after Threshold rounds in a row, this one included,
\* in which it neither answered the broadcast nor a poll within the grace.
PrunedOnlyWhenQuiet ==
    [][\A a \in Addrs :
          stage = "pruning" /\ events' = events /\ a \in registered \ registered'
            => /\ quiet'[a] >= Threshold
               /\ a \notin found /\ sinceOk[a] > Grace]_vars

\* A configured device stays, unless its name moved away or the process restarted.
ConfiguredStays ==
    [][\A a \in Addrs :
          events' = events /\ a \in registered \ registered' => ~Configured(a)']_vars

\* An address that is remembered, in memory and on disk, and answers from now on is
\* collected from again, whatever the broadcast says and however often it restarts.
Remembered(a) == a \in roster \cap known
RememberedIsReclaimed ==
    \A a \in Addrs :
        <>[](a \in up) => (Remembered(a) ~> a \in registered \/ ~Remembered(a))

\* A listed name ends up at the address it resolves to, and stays there.
NameIsFollowed ==
    \A e \in Names, a \in Addrs :
        <>[](dns[e] = {a} /\ a \in up) => <>[](manual[e] = a /\ a \in registered)

\* "The persisted roster cannot drift from the live one."
RosterMatches == stage = "idle" /\ writable => registered \subseteq roster
=============================================================================
