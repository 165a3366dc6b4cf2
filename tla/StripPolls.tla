------------------------------ MODULE StripPolls ------------------------------
(***************************************************************************)
(* Polling a power strip (poller.py, process_smart_strip_data): the strip's *)
(* own total, where it measures one, and every outlet are read before any   *)
(* is written, in one batch.  An IOT strip's outlets are updated one after  *)
(* the other, and one that fails costs the poll; a SMART strip's update has *)
(* read them all, and one that failed is left out.                          *)
(*                                                                          *)
(* python-kasa lists a SMART strip's outlets in an order that changes, and  *)
(* gives up for good on the energy module of an outlet that keeps failing.  *)
(* Then the poll has the strip connected afresh, in the background, at a    *)
(* growing distance.  Meanwhile the client may be replaced by others.       *)
(* The network's failures and retries are FetchCycle's.                     *)
(***************************************************************************)
EXTENDS Readings, Sequences, Doubling

CONSTANTS
    N,          \* the strip has N outlets, at the positions 1 .. N
    Strips,     \* the kinds of strip: IOT or SMART, whether it measures a total, and
                \* the outlets that report their position
    Reports,    \* what a device may answer an energy read with
    Values,     \* what a device may report for a key of its system information
    FirstGap,   \* _RECONNECT_FIRST_GAP
    MaxGap      \* _RECONNECT_MAX_GAP

ASSUME StripAssumption ==
    /\ N \in Nat \ {0}
    /\ \A s \in Strips :
         /\ s \in [iot : BOOLEAN, total : BOOLEAN, positions : SUBSET (1 .. N)]
         /\ s.iot => s.total /\ s.positions = {}
    /\ FirstGap \in Nat \ {0} /\ MaxGap \in Nat /\ FirstGap <= MaxGap

\* What a device reports is values that Python can hold.
ASSUME ReportAssumption ==
    /\ \A v \in Values : IsValue(v)
    /\ \A report \in Reports : \A k \in DOMAIN report : IsValue(report[k])

VARIABLES
    strip,      \* the strip's kind: it never changes
    client,     \* the client registered: the outlets as it lists them, and the modules
                \* (of outlets, or of the strip) python-kasa has disabled on it
    poll,       \* the poll under way
    reconnect,  \* "none", or a reconnect of the "current" client or of a "replaced" one
    wait,       \* ticks until next_reconnect's not_before
    gap,        \* next_reconnect's gap
    series,     \* history: the <<plug_id, outlet>> of the points InfluxDB holds
    since,      \* history: ticks since a reconnect last started, up to MaxGap
    starts      \* history: how many started, until their distance stops growing

vars == <<strip, client, poll, reconnect, wait, gap, series, since, starts>>
clock == <<wait, gap, since, starts>>

Outlets == 1 .. N
Total == 0                      \* the strip itself, as one that is read
Devices == Outlets \cup {Total}

InOrder == [i \in Outlets |-> i]
Fresh == [order |-> InOrder, disabled |-> {}]
IdlePoll == [at |-> "idle"]
Listed(c) == {c.order[i] : i \in DOMAIN c.order}

Smaller(m, n) == IF m <= n THEN m ELSE n

Init ==
    /\ strip \in Strips
    /\ client = Fresh /\ poll = IdlePoll
    /\ reconnect = "none" /\ wait = 0 /\ gap = FirstGap
    /\ series = {} /\ since = 0 /\ starts = 0

-----------------------------------------------------------------------------
(* The poll.  It is over when its readings are unstorable, or its deadline expires. *)

\* `old` holds the client polled once another has replaced it.
PollStarts ==
    /\ poll.at = "idle"
    /\ poll' = [at |-> "naming", old |-> {}]
    /\ UNCHANGED <<strip, client, reconnect, clock, series>>

\* The client polled, as its last update left it.
Polled == IF poll.old = {} THEN client ELSE CHOOSE c \in poll.old : TRUE

\* A batch to write, of which `gave` gave a storable reading in this poll.
Writing(batch, gave) ==
    IF batch = {} THEN IdlePoll ELSE [at |-> "writing", batch |-> batch, gave |-> gave]

TotalEntry == [who |-> Total, id |-> 0]

\* Mutant of PlugId: the outlets are numbered as they are listed.
ListIndex(order, i) == i

\* plug_id: the position the outlet reports, or the index it is listed at.
PlugId(order, i) == IF order[i] \in strip.positions THEN order[i] ELSE i

OutletEntry(order, i) == [who |-> order[i], id |-> PlugId(order, i)]

\* An IOT strip's total is read, and the first outlet's update begins.
IotTotal ==
    /\ poll.at = "naming" /\ strip.iot
    /\ poll' = [at |-> "updating", next |-> 1, batch |-> {TotalEntry}, gave |-> {Total}]
    /\ UNCHANGED <<strip, client, reconnect, clock, series>>

\* The next outlet's update gave a storable reading; the last one's completes the batch.
IotOutlet ==
    LET batch == poll.batch \cup {OutletEntry(InOrder, poll.next)}
        gave == poll.gave \cup {poll.next} IN
    /\ poll.at = "updating"
    /\ poll' = IF poll.next = N THEN Writing(batch, gave)
               ELSE [poll EXCEPT !.next = @ + 1, !.batch = batch, !.gave = gave]
    /\ UNCHANGED <<strip, client, reconnect, clock, series>>

\* Mutant of OutletFails: the outlet is left out.
OutletLeftOut ==
    /\ poll.at = "updating"
    /\ poll' = IF poll.next = N THEN Writing(poll.batch, poll.gave)
               ELSE [poll EXCEPT !.next = @ + 1]
    /\ UNCHANGED <<strip, client, reconnect, clock, series>>

\* It failed, or cannot be stored: nothing of the strip is.
OutletFails ==
    /\ poll.at = "updating"
    /\ poll' = IdlePoll
    /\ UNCHANGED <<strip, client, reconnect, clock, series>>

-----------------------------------------------------------------------------
(* A reconnect: _request_reconnect and may_reconnect, then the task's end. *)

DisabledOutlets(c) == c.disabled \cap Listed(c)

\* How far apart the n-th start of a reconnect and the next are: 0 before the first.
Distance(n) == IF n = 0 THEN 0 ELSE Smaller(FirstGap * Doubled[n - 1], MaxGap)

\* Mutants of NextGap and Due: the gap does not stop growing; a strip is reconnected once.
GapUncapped == gap * 2
DueOnce == reconnect = "none" /\ starts = 0

NextGap == Smaller(gap * 2, MaxGap)
Due == reconnect = "none" /\ wait = 0

Starts ==
    /\ reconnect' = IF poll.old = {} THEN "current" ELSE "replaced"
    /\ wait' = gap /\ gap' = NextGap
    /\ since' = 0
    /\ starts' = IF Distance(starts) = MaxGap THEN starts ELSE starts + 1

RequestReconnect ==
    IF DisabledOutlets(Polled) # {} /\ Due
    THEN Starts
    ELSE UNCHANGED <<reconnect, clock>>

\* The readings of a SMART strip's update, `gave` being those that can be stored: never a
\* disabled module's.  A strip that measures a total but gives none costs the poll.
Readable == Listed(Polled) \cup (IF strip.total THEN {Total} ELSE {})

SmartReads(gave) ==
    LET order == Polled.order IN
    /\ poll.at = "naming" /\ ~strip.iot
    /\ gave \subseteq Readable \ Polled.disabled
    /\ strip.total => Total \in gave
    /\ RequestReconnect
    /\ poll' = Writing({OutletEntry(order, i) : i \in {i \in DOMAIN order : order[i] \in gave}}
                         \cup {e \in {TotalEntry} : strip.total}, gave)
    /\ UNCHANGED <<strip, client, series>>

\* Nothing could be stored, the deadline expired, or the batch was not written.
PollFails ==
    /\ poll.at # "idle"
    /\ poll' = IdlePoll
    /\ UNCHANGED <<strip, client, reconnect, clock, series>>

PollLands ==
    /\ poll.at = "writing"
    /\ series' = series \cup {<<e.id, e.who>> : e \in {e \in poll.batch : e.who # Total}}
    /\ poll' = IdlePoll
    /\ UNCHANGED <<strip, client, reconnect, clock>>

\* The registry holds another client; a poll and a reconnect go on with the one they have.
Replaces ==
    /\ client' = Fresh
    /\ poll' = IF poll.at = "naming" /\ poll.old = {} /\ ~strip.iot
               THEN [poll EXCEPT !.old = {client}] ELSE poll

Reconnected ==
    /\ reconnect = "current" /\ reconnect' = "none"
    /\ Replaces
    /\ UNCHANGED <<strip, clock, series>>

\* It could not connect, or its client was replaced meanwhile, and what it made is closed.
ReconnectEnds ==
    /\ reconnect # "none" /\ reconnect' = "none"
    /\ UNCHANGED <<strip, client, poll, clock, series>>

\* A reclaim or an operator's change put another client in its place.
Replaced ==
    /\ Replaces
    /\ reconnect' = IF reconnect = "current" THEN "replaced" ELSE reconnect
    /\ UNCHANGED <<strip, clock, series>>

-----------------------------------------------------------------------------
(* What python-kasa does to a SMART strip's client on an update of either loop. *)

Without(order, o) ==
    LET at == CHOOSE i \in DOMAIN order : order[i] = o IN
    [i \in 1 .. Len(order) - 1 |-> order[IF i < at THEN i ELSE i + 1]]

\* An outlet the device does not list is dropped, its module with it, until it is back.
OutletMissing(o) ==
    /\ ~strip.iot /\ o \in Listed(client)
    /\ client' = [order |-> Without(client.order, o), disabled |-> client.disabled \ {o}]
    /\ UNCHANGED <<strip, poll, reconnect, clock, series>>

OutletBack(o) ==
    /\ ~strip.iot /\ o \notin Listed(client)
    /\ client' = [client EXCEPT !.order = Append(@, o)]
    /\ UNCHANGED <<strip, poll, reconnect, clock, series>>

\* One error too many: the module is never read again on this client.
Disables(d) ==
    /\ ~strip.iot /\ d \in (Listed(client) \cup {x \in {Total} : strip.total})
    /\ client' = [client EXCEPT !.disabled = @ \cup {d}]
    /\ UNCHANGED <<strip, poll, reconnect, clock, series>>

Tick ==
    /\ wait' = IF wait > 0 THEN wait - 1 ELSE 0
    /\ since' = Smaller(since + 1, MaxGap)
    /\ UNCHANGED <<strip, client, poll, reconnect, gap, series, starts>>

-----------------------------------------------------------------------------
SmartRead == \E gave \in SUBSET Devices : SmartReads(gave)

PollNext ==
    \/ PollStarts \/ IotTotal \/ IotOutlet \/ OutletFails
    \/ SmartRead \/ PollLands \/ PollFails

LibraryNext ==
    \/ \E o \in Outlets : OutletMissing(o) \/ OutletBack(o)
    \/ \E d \in Devices : Disables(d)

Next == PollNext \/ Reconnected \/ ReconnectEnds \/ Replaced \/ LibraryNext \/ Tick

Spec == Init /\ [][Next]_vars

\* Time passes, the poller polls, a poll and a reconnect end; a strip asked for its readings, or for
\* a connection, again and again gives them one day.
FairSpec ==
    /\ Spec
    /\ WF_vars(Tick) /\ WF_vars(PollStarts) /\ WF_vars(PollFails) /\ WF_vars(ReconnectEnds)
    /\ SF_vars(SmartRead) /\ SF_vars(Reconnected)

-----------------------------------------------------------------------------
(* Properties. *)

\* What is written of a strip is everything this poll read, and of an IOT strip everything
\* there is: no update of one outlet that fails, or that comes while another loop's update
\* changes the list, leaves a partial or a doubled strip (process_smart_strip_data).
LandedIsWhole ==
    poll.at = "writing" =>
        /\ {e.who : e \in poll.batch} = poll.gave
        /\ \A e, f \in poll.batch : e.who = f.who => e = f
        /\ strip.iot => poll.gave = Devices

\* An outlet keeps its series, and shares it with none, however python-kasa reorders a
\* SMART strip's outlets and whichever client lists them (_reported_position).  An outlet
\* that reports no position has no such promise.
SeriesKeepOutlet ==
    \A s, t \in series :
        strip.iot \/ {s[2], t[2]} \subseteq strip.positions => (s[1] = t[1] <=> s[2] = t[2])

\* Reconnects start at most once per gap, which doubles from FirstGap up to MaxGap, and
\* are not held back for longer; clients replaced in between do not change that
\* (_ClientState.may_reconnect; docs/how-it-works.md).
ReconnectsSpaced ==
    [][/\ since' < since => since >= Distance(starts)
       /\ wait' > 0 => since' < Distance(starts')]_vars

\* An outlet whose energy module python-kasa gave up on is read again one day, on a client
\* that has not, for as long as the strip's own module works: once that is disabled too,
\* no reading of the strip gets as far as the request (_request_reconnect).
DisabledIsReadAgain ==
    \A o \in Outlets :
        o \in client.disabled ~> o \notin client.disabled \/ Total \in client.disabled

Near(n, quarters) == 4 * n - quarters \in -2 .. 2

EmeterFits(report, legacyUnits) ==
    LET fields == EmeterFields(report, legacyUnits) IN
    /\ \A k \in DOMAIN fields : fields[k] \in Int64
    /\ \A k \in DOMAIN report \ {"power"} : Storable(report[k]) => k \in DOMAIN fields
    /\ legacyUnits /\ DOMAIN report = {"power"} /\ "power_mw" \in DOMAIN fields =>
         LET exact == Scale * report["power"].quarters IN
         exact \in (-4 * Precision) .. (4 * Precision) => Near(fields["power_mw"], exact)

ReadingsFit ==
    [legacyUnits \in BOOLEAN |->
        \A report \in Reports : Refused(report, legacyUnits) \/ EmeterFits(report, legacyUnits)]

EnergyFits ==
    \A v \in Values : \A k \in DOMAIN SmartEnergyFields(v) :
        SmartEnergyFields(v)[k] \in Int64 \cap Nat

SysinfoFits ==
    \A key \in SysinfoKeys, v \in Values, kp125m \in BOOLEAN :
        \A f \in SysinfoFields(kp125m, {[key |-> key, value |-> v]}) :
            /\ f.value.kind = KeyType(f.key)
            /\ f.value.kind = "int" => AsInt(f.value) \in Int64

\* Whatever the devices report, what is written fits the fields InfluxDB has: an energy
\* field is in int64, a legacy reading to the nearest milli-unit, and a value that cannot
\* be stored costs no other; a key of the system information has one type (emeter_fields,
\* smart_energy_fields, sysinfo_field).
FieldsFit ==
    poll.at = "writing" =>
        /\ ReadingsFit[strip.iot]
        /\ ~strip.iot => EnergyFits
        /\ SysinfoFits
==============================================================================
