------------------------- MODULE DeviceRegistryProofs -------------------------
(***************************************************************************)
(* For any addresses, names, threshold and grace: what the registry         *)
(* collects from it remembers, a configured address is never dropped, and   *)
(* any other only after Threshold silent rounds.                            *)
(*                                                                          *)
(* RegistryInv is what these rest on.  The misses the code counts are at    *)
(* most the silent rounds, except of a configured address, which is         *)
(* counted otherwise and loses its count with its entry.                    *)
(***************************************************************************)
EXTENDS DeviceRegistry, TLAPS

USE RegistryAssumption

\* An entry's address is registered, and an entry about to be added has none.
ManualIsRegistered ==
    /\ \A e \in Entries : manual[e] # None => manual[e] \in registered
    /\ stage = "adding" => \A e \in todo \cap Entries : manual[e] = None

\* A round looks at addresses that are registered until it drops them.
PrunesRegistered == stage = "pruning" => todo \subseteq registered

MissesAreQuiet ==
    /\ \A a \in Addrs \ registered : misses[a] = 0
    /\ \A a \in registered : Configured(a) \/ misses[a] <= quiet[a]

RegistryInv ==
    /\ TypeOK
    /\ CollectedIsKnown /\ RoutesAreDisjoint
    /\ ManualIsRegistered /\ PrunesRegistered /\ MissesAreQuiet

-----------------------------------------------------------------------------
(* Types. *)

LEMMA TypeOKInit == Init => TypeOK
  BY SMT DEF Init, TypeOK, NoPoll, Entries

LEMMA TypeOKRegister ==
  ASSUME TypeOK, NEW a \in Addrs, Register(a) \/ NotRegistered
  PROVE  /\ registered' \subseteq Addrs /\ known' \subseteq Addrs /\ roster' \subseteq Addrs
         /\ quiet' \in [Addrs -> 0 .. Threshold]
  BY DEF TypeOK, Register, NotRegistered, Remember, SetKnown

LEMMA TypeOKReconcile == ASSUME TypeOK, Reconcile PROVE TypeOK'
<1>1. CASE PassStart \/ AddsStart
  BY <1>1 DEF TypeOK, PassStart, AddsStart, world, memory, Entries
<1>2. ASSUME NEW e \in Names, CheckName(e) PROVE TypeOK'
  BY <1>2 DEF TypeOK, CheckName, world, memory
<1>3. ASSUME NEW e \in Names, NEW new \in Addrs, DropMoved(e, new) PROVE TypeOK'
  BY <1>3 DEF TypeOK, DropMoved, Forget, SetKnown, NoPoll, world, Entries
<1>4. ASSUME NEW e \in Entries, AddManualFails(e) PROVE TypeOK'
  BY <1>4 DEF TypeOK, AddManualFails, NotRegistered, ForgetMove, world
<1>5. ASSUME NEW e \in Entries, NEW a \in Addrs, AddManual(e, a) PROVE TypeOK'
  BY <1>5, TypeOKRegister DEF TypeOK, AddManual, ForgetMove, world
<1> QED
  BY <1>1, <1>2, <1>3, <1>4, <1>5 DEF Reconcile

LEMMA TypeOKPrune == ASSUME TypeOK, NEW a \in Addrs, Prune(a) PROVE TypeOK'
<1>1. /\ misses' \in [Addrs -> 0 .. Threshold - 1]
      /\ registered' \subseteq Addrs /\ retired' \subseteq Addrs
      /\ sinceOk' \in [Addrs -> 0 .. NoPoll]
  BY DEF Prune, TypeOK, KeepConfigured, KeepSeen, Miss, Retire, TooMany, NoPoll
<1>2. quiet' \in [Addrs -> 0 .. Threshold]
  BY DEF Prune, TypeOK
<1> QED
  BY <1>1, <1>2 DEF Prune, TypeOK, world

LEMMA TypeOKDiscover == ASSUME TypeOK, Discover PROVE TypeOK'
<1>1. CASE BroadcastFails \/ ReclaimStart \/ AuthStart \/ PassEnd
  BY <1>1 DEF TypeOK, BroadcastFails, ReclaimStart, AuthStart, PassEnd, Back, ToProbe,
              world, memory
<1>2. ASSUME NEW answers \in SUBSET Addrs, Broadcast(answers) PROVE TypeOK'
  BY <1>2 DEF TypeOK, Broadcast, world, memory
<1>3. ASSUME NEW a \in Addrs, Reclaim(a) PROVE TypeOK'
  BY <1>3, TypeOKRegister DEF TypeOK, Reclaim, NotRegistered, NoPoll, world
<1>4. ASSUME NEW a \in Addrs, Authenticate(a) PROVE TypeOK'
  BY <1>4, TypeOKRegister DEF TypeOK, Authenticate, NotRegistered, world
<1> QED
  BY <1>1, <1>2, <1>3, <1>4, TypeOKPrune DEF Discover

LEMMA TypeOKWorld == ASSUME TypeOK, World PROVE TypeOK'
<1>1. ASSUME NEW a \in Addrs, UpOrDown(a) PROVE TypeOK'
  BY <1>1 DEF TypeOK, UpOrDown, Event, memory, pass
<1>2. ASSUME NEW e \in Names, Renumber(e) PROVE TypeOK'
  BY <1>2 DEF TypeOK, Renumber, Event, memory, pass
<1>3. CASE Remount
  BY <1>3 DEF TypeOK, Remount, Event, memory, pass
<1>4. CASE Restart
  BY <1>4 DEF TypeOK, Restart, Event, NoPoll, world, Entries
<1> QED
  BY <1>1, <1>2, <1>3, <1>4 DEF World

LEMMA TypeOKPolls ==
  ASSUME TypeOK, Tick \/ \E a \in Addrs : PollStart(a) \/ PollEnd(a)
  PROVE  TypeOK'
<1>1. CASE Tick
  BY <1>1 DEF TypeOK, Tick, NoPoll, world, pass
<1>2. ASSUME NEW a \in Addrs, PollStart(a) PROVE TypeOK'
  BY <1>2 DEF TypeOK, PollStart, world, memory, pass
<1>3. ASSUME NEW a \in Addrs, PollEnd(a) PROVE TypeOK'
  BY <1>3 DEF TypeOK, PollEnd, NoPoll, world, pass
<1> QED
  BY <1>1, <1>2, <1>3

LEMMA TypeOKNext == TypeOK /\ [Next]_vars => TypeOK'
<1>1. CASE UNCHANGED vars
  BY <1>1 DEF TypeOK, vars, world, memory, pass
<1> QED
  BY <1>1, TypeOKReconcile, TypeOKDiscover, TypeOKWorld, TypeOKPolls DEF Next

-----------------------------------------------------------------------------
(* The rest of the invariant.  First what leaves all of it alone. *)

LEMMA RegistryInvAside ==
  ASSUME RegistryInv, TypeOK',
         UNCHANGED <<registered, misses, retired, known, manual, quiet, pass>>
  PROVE  RegistryInv'
  BY DEF RegistryInv, CollectedIsKnown, RoutesAreDisjoint, ManualIsRegistered,
         PrunesRegistered, MissesAreQuiet, Configured, pass

\* The end of one stage and the beginning of the next.
LEMMA RegistryInvStage ==
  ASSUME RegistryInv, TypeOK',
         \/ PassStart \/ AddsStart \/ BroadcastFails \/ ReclaimStart \/ AuthStart \/ PassEnd
         \/ \E e \in Names : CheckName(e)
         \/ \E e \in Entries : AddManualFails(e)
         \/ \E answers \in SUBSET Addrs : Broadcast(answers)
  PROVE  RegistryInv'
<1>1. UNCHANGED <<registered, misses, known, manual, quiet>> /\ retired' \subseteq retired
  BY DEF PassStart, AddsStart, BroadcastFails, ReclaimStart, AuthStart, PassEnd, CheckName, AddManualFails,
         NotRegistered, Broadcast, memory
<1>2. CollectedIsKnown' /\ MissesAreQuiet'
  BY <1>1 DEF RegistryInv, CollectedIsKnown, MissesAreQuiet, Configured
<1>3. RoutesAreDisjoint'
  BY DEF RoutesAreDisjoint, PassStart, AddsStart, BroadcastFails, ReclaimStart, AuthStart,
         PassEnd, CheckName, AddManualFails, NotRegistered, Broadcast, memory, ToProbe
<1>4. ManualIsRegistered'
  <2>1. stage' = "adding" => \A e \in todo' \cap Entries : manual[e] = None
    BY DEF RegistryInv, ManualIsRegistered, PassStart, AddsStart, BroadcastFails,
           ReclaimStart, AuthStart, PassEnd, CheckName, AddManualFails, Broadcast, Missing
  <2> QED
    BY <1>1, <2>1 DEF RegistryInv, ManualIsRegistered
<1>5. PrunesRegistered'
  BY DEF PrunesRegistered, PassStart, AddsStart, BroadcastFails, ReclaimStart, AuthStart,
         PassEnd, CheckName, AddManualFails, NotRegistered, Broadcast, memory
<1> QED
  BY <1>2, <1>3, <1>4, <1>5 DEF RegistryInv

\* An address is registered, in whichever stage.
LEMMA RegisterKeeps ==
  ASSUME RegistryInv, NEW a \in Addrs, Register(a) \/ NotRegistered
  PROVE  /\ registered' \cup retired \subseteq known'
         /\ \A b \in Addrs \ registered' : b \notin registered
         /\ registered \subseteq registered' /\ registered' \subseteq registered \cup {a}
         /\ \A b \in registered : quiet'[b] = quiet[b]
         /\ \A b \in registered' \ registered : quiet'[b] = 0
  BY DEF RegistryInv, TypeOK, CollectedIsKnown, Register, NotRegistered, Remember, SetKnown

LEMMA RegistryInvAdds ==
  ASSUME RegistryInv, TypeOK', NEW e \in Entries, NEW a \in Addrs, AddManual(e, a)
  PROVE  RegistryInv'
<1>1. Register(a)
  BY DEF AddManual
<1>2. UNCHANGED <<misses, retired>> /\ stage' = "adding" /\ todo' = todo \ {e}
      /\ stage = "adding" /\ manual[e] = None
  BY DEF AddManual, RegistryInv, ManualIsRegistered
<1>3. CollectedIsKnown' /\ RoutesAreDisjoint' /\ PrunesRegistered'
  BY <1>1, <1>2, RegisterKeeps DEF CollectedIsKnown, RoutesAreDisjoint, PrunesRegistered
<1>4. /\ \A f \in Entries : manual'[f] = manual[f] \/ (f = e /\ manual'[f] = a)
      /\ a \in registered'
  BY DEF AddManual, Register, RegistryInv, TypeOK
<1>5. ManualIsRegistered'
  <2>1. \A f \in Entries : manual'[f] # None => manual'[f] \in registered'
    BY <1>1, <1>2, <1>4, RegisterKeeps DEF RegistryInv, ManualIsRegistered
  <2>2. \A f \in todo' \cap Entries : manual'[f] = None
    BY <1>2, <1>4 DEF RegistryInv, ManualIsRegistered
  <2> QED
    BY <2>1, <2>2 DEF ManualIsRegistered
<1>6. MissesAreQuiet'
  <2>1. \A b \in Addrs : Configured(b) => Configured(b)'
    BY <1>2, <1>4 DEF Configured
  <2>2. \A b \in registered' \ registered : misses[b] = 0 /\ quiet'[b] = 0
    BY <1>1, RegisterKeeps DEF RegistryInv, TypeOK, MissesAreQuiet
  <2> QED
    BY <1>1, <1>2, <2>1, <2>2, RegisterKeeps DEF RegistryInv, TypeOK, MissesAreQuiet
<1> QED
  BY <1>3, <1>5, <1>6 DEF RegistryInv

LEMMA RegistryInvProbes ==
  ASSUME RegistryInv, TypeOK', NEW a \in Addrs, Reclaim(a) \/ Authenticate(a)
  PROVE  RegistryInv'
<1>1. Register(a) \/ NotRegistered
  BY DEF Reclaim, Authenticate
<1>2. /\ UNCHANGED <<manual, stage, found>> /\ todo' = todo \ {a}
      /\ stage \in {"reclaiming", "authenticating"} /\ retired' \subseteq retired
      /\ misses' = misses \/ misses' = [misses EXCEPT ![a] = 0]
  BY DEF Reclaim, Authenticate
<1>3. CollectedIsKnown' /\ RoutesAreDisjoint' /\ PrunesRegistered'
  BY <1>1, <1>2, RegisterKeeps
  DEF RegistryInv, CollectedIsKnown, RoutesAreDisjoint, PrunesRegistered
<1>4. ManualIsRegistered'
  BY <1>1, <1>2, RegisterKeeps DEF RegistryInv, ManualIsRegistered
<1>5. MissesAreQuiet'
  <2>1. \A b \in Addrs : misses'[b] = misses[b] \/ misses'[b] = 0
    BY <1>2 DEF RegistryInv, TypeOK
  <2>2. \A b \in registered' \ registered : misses[b] = 0 /\ quiet'[b] = 0
    BY <1>1, RegisterKeeps DEF RegistryInv, TypeOK, MissesAreQuiet
  <2>3. \A b \in Addrs : quiet'[b] \in Nat
    BY DEF TypeOK
  <2> QED
    BY <1>1, <1>2, <2>1, <2>2, <2>3, RegisterKeeps
    DEF RegistryInv, TypeOK, MissesAreQuiet, Configured
<1> QED
  BY <1>3, <1>4, <1>5 DEF RegistryInv

LEMMA RegistryInvDrop ==
  ASSUME RegistryInv, TypeOK', NEW e \in Names, NEW new \in Addrs, DropMoved(e, new)
  PROVE  RegistryInv'
<1> DEFINE old == manual[e]
<1>1. /\ stage = "moved" /\ UNCHANGED <<stage, quiet>>
      /\ manual' = [manual EXCEPT ![e] = None]
  BY DEF DropMoved
<1>2. RoutesAreDisjoint' /\ PrunesRegistered'
  BY <1>1 DEF RoutesAreDisjoint, PrunesRegistered
<1>3. e \in Entries /\ \A f \in Entries : manual'[f] = IF f = e THEN None ELSE manual[f]
  BY <1>1 DEF RegistryInv, TypeOK, Entries
<1>4. \A b \in Addrs : b # old \/ StillConfigured(e, old) => (Configured(b) => Configured(b)')
  BY <1>3 DEF Configured, StillConfigured
<1>5. CASE StillConfigured(e, old)
  <2>1. UNCHANGED <<registered, misses, retired, known>>
    BY <1>5 DEF DropMoved
  <2>2. CollectedIsKnown' /\ ManualIsRegistered'
    BY <1>1, <1>3, <2>1 DEF RegistryInv, CollectedIsKnown, ManualIsRegistered
  <2>3. MissesAreQuiet'
    BY <1>1, <1>4, <1>5, <2>1 DEF RegistryInv, TypeOK, MissesAreQuiet
  <2> QED
    BY <1>2, <2>2, <2>3 DEF RegistryInv
<1>6. CASE ~StillConfigured(e, old)
  <2>1. /\ registered' = registered \ {old} /\ retired' = retired \ {old}
        /\ known' = known \ {old} /\ misses' = [misses EXCEPT ![old] = 0]
    BY <1>6 DEF DropMoved, Forget, SetKnown
  <2>2. CollectedIsKnown'
    BY <2>1 DEF RegistryInv, CollectedIsKnown
  <2>3. ManualIsRegistered'
    BY <1>1, <1>3, <1>6, <2>1 DEF RegistryInv, ManualIsRegistered, StillConfigured
  <2>4. MissesAreQuiet'
    <3>1. \A b \in Addrs : misses'[b] = IF b = old THEN 0 ELSE misses[b]
      BY <2>1 DEF RegistryInv, TypeOK
    <3> QED
      BY <1>1, <1>4, <2>1, <3>1 DEF RegistryInv, TypeOK, MissesAreQuiet
  <2> QED
    BY <1>2, <2>2, <2>3, <2>4 DEF RegistryInv
<1> QED
  BY <1>5, <1>6

LEMMA RegistryInvPrune ==
  ASSUME RegistryInv, TypeOK', NEW a \in Addrs, Prune(a)
  PROVE  RegistryInv'
<1>1. /\ stage = "pruning" /\ a \in registered /\ UNCHANGED <<known, manual, stage>>
      /\ todo' = todo \ {a} /\ todo \subseteq registered
  BY DEF Prune, RegistryInv, PrunesRegistered
<1>2. registered' = registered
      \/ (registered' = registered \ {a} /\ ~Configured(a) /\ misses'[a] = 0)
  BY DEF Prune, KeepConfigured, KeepSeen, Miss, Retire, RegistryInv, TypeOK
<1>3. retired' \subseteq retired \cup {a}
  BY DEF Prune, KeepConfigured, KeepSeen, Miss, Retire
<1>4. CollectedIsKnown' /\ RoutesAreDisjoint' /\ PrunesRegistered'
  BY <1>1, <1>2, <1>3
  DEF RegistryInv, CollectedIsKnown, RoutesAreDisjoint, PrunesRegistered
<1>5. ManualIsRegistered'
  BY <1>1, <1>2 DEF RegistryInv, ManualIsRegistered, Configured
<1>6. MissesAreQuiet'
  <2>1. \A b \in Addrs \ {a} : misses'[b] = misses[b] /\ quiet'[b] = quiet[b]
    BY DEF Prune, KeepConfigured, KeepSeen, Miss, Retire, RegistryInv, TypeOK
  <2>2. \A b \in Addrs : Configured(b)' <=> Configured(b)
    BY <1>1 DEF Configured
  <2>3. Configured(a) \/ misses'[a] <= quiet'[a]
    <3>1. CASE KeepSeen(a) \/ Retire(a)
      <4>1. misses'[a] = 0
        BY <3>1 DEF KeepSeen, Retire, RegistryInv, TypeOK
      <4> QED
        BY <4>1 DEF TypeOK
    <3>2. CASE Miss(a)
      <4>1. misses[a] <= quiet[a] \/ Configured(a)
        BY <1>1 DEF RegistryInv, MissesAreQuiet
      <4>2. misses'[a] = misses[a] + 1 /\ misses[a] + 1 < Threshold /\ ~Evidence(a)
        BY <3>2 DEF Miss, TooMany, RegistryInv, TypeOK
      <4>3. quiet'[a] = IF quiet[a] < Threshold THEN quiet[a] + 1 ELSE quiet[a]
        BY <4>2 DEF Prune, RegistryInv, TypeOK
      <4> QED
        BY <4>1, <4>2, <4>3 DEF RegistryInv, TypeOK
    <3>3. CASE KeepConfigured(a)
      BY <3>3 DEF KeepConfigured
    <3> QED
      BY <3>1, <3>2, <3>3 DEF Prune
  <2> QED
    BY <1>1, <1>2, <2>1, <2>2, <2>3 DEF RegistryInv, TypeOK, MissesAreQuiet
<1> QED
  BY <1>4, <1>5, <1>6 DEF RegistryInv

LEMMA RegistryInvRestart == ASSUME RegistryInv, TypeOK', Restart PROVE RegistryInv'
<1>1. \A e \in Entries : manual'[e] = None
  BY DEF Restart
<1> QED
  BY <1>1 DEF Restart, RegistryInv, CollectedIsKnown, RoutesAreDisjoint, ManualIsRegistered,
              PrunesRegistered, MissesAreQuiet

LEMMA RegistryInvInit == Init => RegistryInv
<1> SUFFICES ASSUME Init PROVE RegistryInv
  OBVIOUS
<1>1. \A e \in Entries : manual[e] = None
  BY DEF Init
<1> QED
  BY <1>1, TypeOKInit DEF Init, RegistryInv, CollectedIsKnown, RoutesAreDisjoint,
                          ManualIsRegistered, PrunesRegistered, MissesAreQuiet

LEMMA RegistryInvNext == RegistryInv /\ [Next]_vars => RegistryInv'
<1> SUFFICES ASSUME RegistryInv, [Next]_vars PROVE RegistryInv'
  OBVIOUS
<1>1. TypeOK'
  BY TypeOKNext DEF RegistryInv
<1>2. CASE Reconcile
  BY <1>1, <1>2, RegistryInvStage, RegistryInvAdds, RegistryInvDrop DEF Reconcile
<1>3. CASE Discover
  BY <1>1, <1>3, RegistryInvStage, RegistryInvPrune, RegistryInvProbes DEF Discover
<1>4. CASE Restart
  BY <1>1, <1>4, RegistryInvRestart
<1>5. CASE \/ Tick \/ Remount \/ UNCHANGED vars
           \/ \E a \in Addrs : PollStart(a) \/ PollEnd(a) \/ UpOrDown(a)
           \/ \E e \in Names : Renumber(e)
  <2>1. UNCHANGED <<registered, misses, retired, known, manual, quiet, pass>>
    BY <1>5 DEF Tick, PollStart, PollEnd, UpOrDown, Renumber, Remount, vars, memory
  <2> QED
    BY <1>1, <2>1, RegistryInvAside
<1> QED
  BY <1>2, <1>3, <1>4, <1>5 DEF Next, World

-----------------------------------------------------------------------------
(* Theorems. *)

LEMMA Invariance == Spec => []RegistryInv
  BY RegistryInvInit, RegistryInvNext, PTL DEF Spec

\* The registry's state is well typed; in particular a miss counter stays below the
\* threshold (remove_missing_devices).
THEOREM TypeCorrect == Spec => []TypeOK
<1>1. RegistryInv => TypeOK
  BY DEF RegistryInv
<1> QED
  BY <1>1, Invariance, PTL

\* What is collected from, or was retired, is in the roster's memory: only an address that
\* the operator's name moved away from is forgotten (_check_and_add_emeter_device).
THEOREM Remembers == Spec => []CollectedIsKnown
<1>1. RegistryInv => CollectedIsKnown
  BY DEF RegistryInv
<1> QED
  BY <1>1, Invariance, PTL

\* The reclaim and the authentication of a pass never register over a client that is
\* registered (reclaim_retired_devices, discover_devices).
THEOREM Disjoint == Spec => []RoutesAreDisjoint
<1>1. RegistryInv => RoutesAreDisjoint
  BY DEF RegistryInv
<1> QED
  BY <1>1, Invariance, PTL

\* What takes an address out of the registry, apart from a restart.
LEMMA DropsOf ==
  ASSUME RegistryInv, [Next]_vars, events' = events, NEW a \in registered \ registered'
  PROVE  \/ \E e \in Names : /\ stage = "moved" /\ manual[e] = a /\ ~StillConfigured(e, a)
                             /\ manual' = [manual EXCEPT ![e] = None]
         \/ Prune(a) /\ Retire(a)
<1>1. ~Restart
  BY DEF Restart, Event, RegistryInv, TypeOK
<1>2. ASSUME NEW b \in Addrs, Register(b) \/ NotRegistered PROVE FALSE
  BY <1>2 DEF Register, NotRegistered
<1>3. ASSUME NEW e \in Names, NEW new \in Addrs, DropMoved(e, new)
      PROVE  /\ stage = "moved" /\ manual[e] = a /\ ~StillConfigured(e, a)
             /\ manual' = [manual EXCEPT ![e] = None]
  BY <1>3 DEF DropMoved
<1>4. ASSUME NEW b \in Addrs, Prune(b) PROVE b = a /\ Retire(a)
  BY <1>4 DEF Prune, KeepConfigured, KeepSeen, Miss, Retire
<1>5. registered' # registered
  OBVIOUS
<1>6. CASE Reconcile
  BY <1>2, <1>3, <1>5, <1>6
  DEF Reconcile, PassStart, AddsStart, CheckName, AddManual, AddManualFails, NotRegistered,
      Register, memory
<1>7. CASE Discover
  BY <1>4, <1>5, <1>7
  DEF Discover, Broadcast, Reclaim, Authenticate, BroadcastFails, ReclaimStart, AuthStart,
      PassEnd, NotRegistered, Register, memory
<1> QED
  BY <1>1, <1>5, <1>6, <1>7
  DEF Next, World, UpOrDown, Renumber, Remount, PollStart, PollEnd, Tick, vars, memory

\* A discovered address is dropped only by the last of Threshold rounds in a row, each
\* without an answer of it or a recent poll, whatever the code's own count of misses says
\* (remove_missing_devices).
THEOREM DropsOnlyQuiet == Spec => PrunedOnlyWhenQuiet
<1>1. RegistryInv /\ [Next]_vars =>
        \A a \in Addrs :
          stage = "pruning" /\ events' = events /\ a \in registered \ registered'
            => /\ quiet'[a] >= Threshold
               /\ a \notin found /\ sinceOk[a] > Grace
  <2> SUFFICES ASSUME RegistryInv, [Next]_vars, NEW a \in Addrs,
                      stage = "pruning", events' = events, a \in registered \ registered'
               PROVE  /\ quiet'[a] >= Threshold
                      /\ a \notin found /\ sinceOk[a] > Grace
    OBVIOUS
  <2>1. Prune(a) /\ Retire(a)
    BY DropsOf
  <2>2. misses[a] <= quiet[a] /\ misses[a] + 1 >= Threshold
    BY <2>1 DEF Retire, TooMany, RegistryInv, MissesAreQuiet
  <2>3. quiet \in [Addrs -> Nat] /\ misses[a] \in Nat /\ sinceOk[a] \in Nat
    BY DEF RegistryInv, TypeOK, NoPoll
  <2>4. ~Evidence(a)
    BY <2>1 DEF Retire
  <2>5. quiet'[a] = IF quiet[a] < Threshold THEN quiet[a] + 1 ELSE quiet[a]
    BY <2>1, <2>3, <2>4 DEF Prune, Evidence
  <2>6. quiet'[a] >= Threshold
    BY <2>2, <2>3, <2>5
  <2>7. a \notin found /\ sinceOk[a] > Grace
    BY <2>3, <2>4 DEF Evidence
  <2> QED
    BY <2>6, <2>7
<1> QED
  BY <1>1, Invariance, PTL DEF Spec, PrunedOnlyWhenQuiet

\* A configured address is dropped by no step but a restart: only once no entry has it any
\* more does its client go (_drop_moved_manual_devices, remove_missing_devices).
THEOREM KeepsConfigured == Spec => ConfiguredStays
<1>1. RegistryInv /\ [Next]_vars =>
        \A a \in Addrs :
          events' = events /\ a \in registered \ registered' => ~Configured(a)'
  <2> SUFFICES ASSUME RegistryInv, [Next]_vars, NEW a \in Addrs,
                      events' = events, a \in registered \ registered'
               PROVE  ~Configured(a)'
    OBVIOUS
  <2>1. CASE Prune(a) /\ Retire(a)
    BY <2>1 DEF Prune, Retire, Configured
  <2>2. ASSUME NEW e \in Names, manual[e] = a, ~StillConfigured(e, a),
               manual' = [manual EXCEPT ![e] = None]
        PROVE  ~Configured(a)'
    BY <2>2 DEF Configured, StillConfigured, RegistryInv, TypeOK, Entries
  <2> QED
    BY <2>1, <2>2, DropsOf
<1> QED
  BY <1>1, Invariance, PTL DEF Spec, ConfiguredStays
===============================================================================
