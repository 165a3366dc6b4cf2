------------------------------- MODULE DnsCache -------------------------------
(***************************************************************************)
(* The reverse-lookup cache (collector/dns_cache.py), for one address:      *)
(* others share nothing with it.  A caller takes the time, looks in the     *)
(* cache, and on a miss asks a resolver thread; its answer is stored with   *)
(* the time the CALLER took, whenever it arrives.  The lock is let go       *)
(* during the lookup, so lookups of one address overlap, and an older one   *)
(* may store after a newer one; inside it nothing is awaited, so a caller   *)
(* never waits for it.                                                      *)
(*                                                                          *)
(* Times are ages in ticks that stop growing at TTL: an entry that old has  *)
(* expired, and how long ago no step can tell.  The wall clock              *)
(* (time.time()) is taken not to be stepped back.                           *)
(***************************************************************************)
EXTENDS Naturals

CONSTANTS
    Callers,    \* the tasks that look up the address
    TTL         \* KASA_COLLECTOR_DNS_CACHE_TTL; 0 disables the cache

ASSUME TTLAssumption == TTL \in Nat

VARIABLES
    entry,      \* the cached name: `stamp`, the age of its timestamp, and `read`, how
                \* long ago the resolver read it (not in the code); or NoEntry
    call,       \* each caller's lookup: its `since` is the age of its current_time
    served      \* history: the age of the name the cache gave out last, at that moment

dnsVars == <<entry, call, served>>

Ages == 0..TTL
NoEntry == [kind |-> "none"]
Entry(stamp, read) == [kind |-> "entry", stamp |-> stamp, read |-> read]
Idle == [at |-> "idle"]
Looking(since) == [at |-> "looking", since |-> since]
Answered(since, read) == [at |-> "answered", since |-> since, read |-> read]

\* The type invariant of the cache.
DnsTypeOK ==
    /\ entry \in {NoEntry} \cup {Entry(s, r) : s \in Ages, r \in Ages}
    /\ call \in [Callers -> {Idle} \cup {Looking(s) : s \in Ages}
                                    \cup {Answered(s, r) : s \in Ages, r \in Ages}]
    /\ served \subseteq Ages

DnsInit ==
    /\ entry = NoEntry
    /\ call = [c \in Callers |-> Idle]
    /\ served = {}

Fresh == entry.kind = "entry" /\ entry.stamp < TTL

\* A hit returns at once.
Hit(c) ==
    /\ call[c] = Idle /\ Fresh
    /\ served' = {entry.read}
    /\ UNCHANGED <<entry, call>>

\* A miss deletes an expired entry and asks the resolver.
Miss(c) ==
    /\ call[c] = Idle /\ ~Fresh
    /\ entry' = NoEntry
    /\ call' = [call EXCEPT ![c] = Looking(0)]
    /\ UNCHANGED served

\* The resolver thread reads the name; the caller learns it later.
Resolve(c) ==
    /\ call[c].at = "looking"
    /\ call' = [call EXCEPT ![c] = Answered(call[c].since, 0)]
    /\ UNCHANGED <<entry, served>>

\* Mutant of StampOf: the entry is stamped when it is stored.
StampWhenStored(c) == 0

\* The age of the timestamp the caller stores: that of the time it began with.
StampOf(c) == call[c].since

Store(c) ==
    /\ call[c].at = "answered"
    /\ entry' = Entry(StampOf(c), call[c].read)
    /\ call' = [call EXCEPT ![c] = Idle]
    /\ UNCHANGED served

\* The lookup fails (the caller gets the address back) or the caller is cancelled.
LookupEnds(c) ==
    /\ call[c] # Idle
    /\ call' = [call EXCEPT ![c] = Idle]
    /\ UNCHANGED <<entry, served>>

Older(age) == IF age < TTL THEN age + 1 ELSE age

DnsTick ==
    /\ entry' = IF entry.kind = "none" THEN entry
                ELSE Entry(Older(entry.stamp), Older(entry.read))
    /\ call' = [c \in Callers |->
         CASE call[c].at = "idle" -> Idle
           [] call[c].at = "looking" -> Looking(Older(call[c].since))
           [] call[c].at = "answered" ->
                Answered(Older(call[c].since), Older(call[c].read))]
    /\ UNCHANGED served

GetHostname(c) == Hit(c) \/ Miss(c) \/ Resolve(c) \/ Store(c) \/ LookupEnds(c)

-----------------------------------------------------------------------------
\* A name the cache gives out was read from DNS less than TTL ago: not even lookups that
\* overlap, take long or finish in the wrong order make it serve an older one
\* (get_hostname stamps an entry before its lookup).
ServedIsFresh == \A age \in served : age < TTL
==============================================================================
