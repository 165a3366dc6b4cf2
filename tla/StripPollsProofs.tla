---------------------------- MODULE StripPollsProofs ----------------------------
(***************************************************************************)
(* For every strip, any number of outlets and whatever they report: an      *)
(* outlet that reports its position keeps its series, what is written of a  *)
(* poll is whole, every field of it is one InfluxDB takes, and reconnects   *)
(* keep their distance.                                                     *)
(*                                                                          *)
(* SeriesInv says of the entries not written yet what is promised of the    *)
(* series: an entry's plug_id is the outlet's own position, where it has    *)
(* one, from the moment it is made, and nothing that happens to the client  *)
(* or the poll after that changes it.                                       *)
(***************************************************************************)
EXTENDS StripPolls, DoublingProofs

\* What numbers an outlet by where it is.
Placed(o) == strip.iot \/ o \in strip.positions

SeriesInv ==
    /\ strip \in Strips
    /\ poll.at \in {"idle", "naming", "updating", "writing"}
    /\ poll.at = "updating" => strip.iot /\ poll.next \in Outlets
    /\ poll.at \in {"updating", "writing"} =>
         \A e \in poll.batch : Placed(e.who) => e.id = e.who
    /\ \A s \in series : Placed(s[2]) => s[1] = s[2]

LEMMA SeriesInvInit == Init => SeriesInv
  BY DEF Init, SeriesInv, IdlePoll

\* An entry that is made carries the position of its outlet.
LEMMA TotalIsPlaced == TotalEntry.id = TotalEntry.who
  BY DEF TotalEntry, Total

LEMMA IotEntryIsPlaced ==
  ASSUME strip \in Strips, strip.iot, NEW i \in Outlets
  PROVE  OutletEntry(InOrder, i).id = OutletEntry(InOrder, i).who
<1>1. strip.positions = {}
  BY StripAssumption
<1> QED
  BY <1>1 DEF OutletEntry, PlugId, InOrder

LEMMA SmartEntryIsPlaced ==
  ASSUME ~strip.iot, NEW order, NEW i, Placed(OutletEntry(order, i).who)
  PROVE  OutletEntry(order, i).id = OutletEntry(order, i).who
  BY DEF OutletEntry, PlugId, Placed

\* The readings of a strip become the entries of a batch.
LEMMA SeriesInvReads ==
  ASSUME SeriesInv, IotTotal \/ IotOutlet \/ SmartRead
  PROVE  SeriesInv'
<1>1. strip' = strip /\ series' = series
  BY DEF IotTotal, IotOutlet, SmartRead, SmartReads
<1>2. CASE IotTotal
  <2>1. strip.iot /\ 1 \in Outlets
    BY <1>2, StripAssumption DEF IotTotal, Outlets
  <2>2. poll' = [at |-> "updating", next |-> 1, batch |-> {TotalEntry}, gave |-> {Total}]
    BY <1>2 DEF IotTotal
  <2> QED
    BY <1>1, <2>1, <2>2, TotalIsPlaced DEF SeriesInv, Placed
<1>3. CASE IotOutlet
  <2> DEFINE entry == OutletEntry(InOrder, poll.next)
             batch == poll.batch \cup {entry}
  <2>1. strip \in Strips /\ strip.iot /\ poll.next \in Outlets /\ poll.at = "updating"
    BY <1>3 DEF IotOutlet, SeriesInv
  <2>2. entry.id = entry.who
    BY <2>1, IotEntryIsPlaced
  <2>3. \A e \in batch : Placed(e.who) => e.id = e.who
    BY <2>1, <2>2 DEF SeriesInv
  <2>4. CASE poll.next = N
    <3>1. poll' = IdlePoll \/ (poll'.at = "writing" /\ poll'.batch = batch)
      BY <1>3, <2>4 DEF IotOutlet, Writing
    <3> QED
      BY <1>1, <2>1, <2>3, <3>1 DEF SeriesInv, Placed, IdlePoll
  <2>5. CASE poll.next # N
    <3>1. poll.next + 1 \in Outlets
      BY <2>1, <2>5, StripAssumption DEF Outlets
    <3>2. PICK gave : poll' = [poll EXCEPT !.next = poll.next + 1, !.batch = batch, !.gave = gave]
      BY <1>3, <2>5 DEF IotOutlet
    <3> QED
      BY <1>1, <2>1, <2>3, <3>1, <3>2 DEF SeriesInv, Placed
  <2> QED
    BY <2>4, <2>5
<1>4. CASE SmartRead
  <2>1. PICK gave : SmartReads(gave)
    BY <1>4 DEF SmartRead
  <2> DEFINE order == Polled.order
             batch == {OutletEntry(order, i) : i \in {i \in DOMAIN order : order[i] \in gave}}
                        \cup {e \in {TotalEntry} : strip.total}
  <2>2. \A e \in batch : Placed(e.who) => e.id = e.who
    BY <2>1, SmartEntryIsPlaced, TotalIsPlaced DEF SmartReads
  <2>3. poll' = IdlePoll \/ (poll'.at = "writing" /\ poll'.batch = batch)
    BY <2>1 DEF SmartReads, Writing
  <2> QED
    BY <1>1, <2>2, <2>3 DEF SeriesInv, Placed, IdlePoll
<1> QED
  BY <1>2, <1>3, <1>4

\* A batch that lands adds its entries to what InfluxDB holds.
LEMMA SeriesInvLands == ASSUME SeriesInv, PollLands PROVE SeriesInv'
<1>1. strip' = strip /\ poll' = IdlePoll
  BY DEF PollLands
<1>2. \A s \in series' : Placed(s[2]) => s[1] = s[2]
  <2>1. \A e \in poll.batch : Placed(e.who) => e.id = e.who
    BY DEF PollLands, SeriesInv
  <2>2. series' = series \cup {<<e.id, e.who>> : e \in {e \in poll.batch : e.who # Total}}
    BY DEF PollLands
  <2> QED
    BY <2>1, <2>2 DEF SeriesInv
<1> QED
  BY <1>1, <1>2 DEF SeriesInv, Placed, IdlePoll

\* Another client leaves the poll under way its entries.
LEMMA SeriesInvReplaces ==
  ASSUME SeriesInv, Replaces, UNCHANGED <<strip, series>>
  PROVE  SeriesInv'
<1>1. CASE poll' = poll
  BY <1>1 DEF SeriesInv, Placed
<1>2. CASE poll.at = "naming" /\ poll' = [poll EXCEPT !.old = {client}]
  <2>1. poll'.at = "naming"
    BY <1>2, SMT
  <2> QED
    BY <2>1 DEF SeriesInv, Placed
<1> QED
  BY <1>1, <1>2 DEF Replaces

LEMMA SeriesInvNext == SeriesInv /\ [Next]_vars => SeriesInv'
<1> SUFFICES ASSUME SeriesInv, [Next]_vars PROVE SeriesInv'
  OBVIOUS
<1>1. CASE IotTotal \/ IotOutlet \/ SmartRead
  BY <1>1, SeriesInvReads
<1>2. CASE PollLands
  BY <1>2, SeriesInvLands
<1>3. CASE PollStarts \/ OutletFails \/ PollFails
  BY <1>3 DEF PollStarts, OutletFails, PollFails, SeriesInv, Placed, IdlePoll
<1>4. CASE Reconnected \/ Replaced
  BY <1>4, SeriesInvReplaces DEF Reconnected, Replaced
<1>5. CASE ReconnectEnds \/ LibraryNext \/ Tick \/ UNCHANGED vars
  <2>1. UNCHANGED <<strip, poll, series>>
    BY <1>5 DEF ReconnectEnds, LibraryNext, OutletMissing, OutletBack, Disables, Tick, vars
  <2> QED
    BY <2>1 DEF SeriesInv, Placed
<1> QED
  BY <1>1, <1>2, <1>3, <1>4, <1>5 DEF Next, PollNext

\* An outlet that reports its position keeps its series and shares it with none, in
\* whatever order a client lists the outlets (_reported_position, process_smart_strip_data).
THEOREM OutletsKeepSeries == Spec => []SeriesKeepOutlet
<1>1. SeriesInv => SeriesKeepOutlet
  BY DEF SeriesInv, SeriesKeepOutlet, Placed
<1> QED
  BY <1>1, SeriesInvInit, SeriesInvNext, PTL DEF Spec

-----------------------------------------------------------------------------
(* What is written is whole: WholeInv adds that a client lists each outlet once, and that  *)
(* the batch of an IOT poll under way holds the total and every outlet up to the next.     *)

Ordered(c) ==
    /\ c.order \in Seq(Outlets)
    /\ \A i, j \in DOMAIN c.order : c.order[i] = c.order[j] => i = j

OneEntryEach(batch) == \A e, f \in batch : e.who = f.who => e = f

WholeInv ==
    /\ strip \in Strips
    /\ Ordered(client) /\ client = [order |-> client.order, disabled |-> client.disabled]
    /\ poll.at \in {"idle", "naming", "updating", "writing"}
    /\ poll.at = "naming" =>
         /\ poll = [at |-> "naming", old |-> poll.old]
         /\ poll.old = {} \/ \E c : poll.old = {c} /\ Ordered(c)
    /\ poll.at = "updating" =>
         /\ poll = [at |-> "updating", next |-> poll.next, batch |-> poll.batch,
                    gave |-> poll.gave]
         /\ strip.iot /\ poll.next \in Outlets
         /\ {e.who : e \in poll.batch} = poll.gave /\ poll.gave = 0 .. poll.next - 1
         /\ OneEntryEach(poll.batch)
    /\ LandedIsWhole

LEMMA InOrderIsOrdered == Ordered(Fresh)
<1>1. N \in Nat /\ InOrder \in [1 .. N -> Outlets] /\ \A i \in 1 .. N : InOrder[i] = i
  BY StripAssumption DEF InOrder, Outlets
<1>2. InOrder \in Seq(Outlets) /\ DOMAIN InOrder = 1 .. N
  BY <1>1
<1> QED
  BY <1>1, <1>2 DEF Ordered, Fresh

LEMMA WholeInvInit == Init => WholeInv
  BY InOrderIsOrdered DEF Init, WholeInv, LandedIsWhole, IdlePoll, Fresh

\* A poll of an IOT strip adds an entry for each outlet in turn.
LEMMA WholeInvIot ==
  ASSUME WholeInv, IotTotal \/ IotOutlet \/ OutletFails
  PROVE  WholeInv'
<1> USE StripAssumption
<1>1. CASE IotTotal
  <2>1. strip' = strip /\ client' = client /\ strip.iot
        /\ poll' = [at |-> "updating", next |-> 1, batch |-> {TotalEntry}, gave |-> {Total}]
    BY <1>1 DEF IotTotal
  <2>2. TotalEntry.who = 0 /\ Total = 0 /\ 0 .. 1 - 1 = {0} /\ 1 \in Outlets
    BY DEF TotalEntry, Total, Outlets
  <2> QED
    BY <2>1, <2>2 DEF WholeInv, LandedIsWhole, OneEntryEach, Ordered
<1>2. CASE IotOutlet
  <2> DEFINE n == poll.next
             entry == OutletEntry(InOrder, n)
             batch == poll.batch \cup {entry}
             gave == poll.gave \cup {n}
  <2>1. /\ poll.at = "updating" /\ strip.iot /\ n \in 1 .. N
        /\ {e.who : e \in poll.batch} = poll.gave /\ poll.gave = 0 .. n - 1
        /\ OneEntryEach(poll.batch)
        /\ strip' = strip /\ client' = client
    BY <1>2 DEF IotOutlet, WholeInv, Outlets
  <2>2. entry.who = n
    BY <2>1 DEF OutletEntry, InOrder, Outlets
  <2>3. {e.who : e \in batch} = gave /\ gave = 0 .. n
    BY <2>1, <2>2
  <2>4. OneEntryEach(batch)
    <3>1. \A e \in poll.batch : e.who # n
      BY <2>1
    <3> QED
      BY <2>1, <2>2, <3>1 DEF OneEntryEach
  <2> HIDE DEF batch, gave, entry
  <2>5. CASE n = N
    <3>1. poll' = [at |-> "writing", batch |-> batch, gave |-> gave] \/ poll' = IdlePoll
      BY <1>2, <2>5 DEF IotOutlet, Writing, batch, gave, entry
    <3>2. 0 .. N = Devices
      BY DEF Devices, Outlets, Total
    <3>3. /\ strip' \in Strips /\ Ordered(client)'
          /\ client' = [order |-> client'.order, disabled |-> client'.disabled]
      BY <2>1 DEF WholeInv, Ordered
    <3>4. CASE poll' = IdlePoll
      BY <3>3, <3>4 DEF WholeInv, LandedIsWhole, IdlePoll
    <3>5. CASE poll' = [at |-> "writing", batch |-> batch, gave |-> gave]
      BY <2>3, <2>4, <2>5, <3>2, <3>3, <3>5 DEF WholeInv, LandedIsWhole, OneEntryEach
    <3> QED
      BY <3>1, <3>4, <3>5
  <2>6. CASE n # N
    <3>1. poll' = [at |-> "updating", next |-> n + 1, batch |-> batch, gave |-> gave]
      BY <1>2, <2>6 DEF IotOutlet, WholeInv, batch, gave, entry
    <3>2. n + 1 \in Outlets /\ (n + 1) - 1 = n
      BY <2>1, <2>6 DEF Outlets
    <3> QED
      BY <2>1, <2>3, <2>4, <3>1, <3>2 DEF WholeInv, LandedIsWhole, OneEntryEach, Ordered
  <2> QED
    BY <2>5, <2>6
<1>3. CASE OutletFails
  BY <1>3 DEF OutletFails, WholeInv, LandedIsWhole, IdlePoll, Ordered
<1> QED
  BY <1>1, <1>2, <1>3

\* A SMART strip's batch is made at once, of the client the poll has.
LEMMA WholeInvSmart == ASSUME WholeInv, SmartRead PROVE WholeInv'
<1>1. PICK gave : SmartReads(gave)
  BY DEF SmartRead
<1> DEFINE order == Polled.order
           entries == {OutletEntry(order, i) : i \in {i \in DOMAIN order : order[i] \in gave}}
           batch == entries \cup {e \in {TotalEntry} : strip.total}
<1>2. Ordered(Polled)
  <2>1. poll.old = {} \/ \E c : poll.old = {c} /\ Ordered(c)
    BY <1>1 DEF SmartReads, WholeInv
  <2> QED
    BY <2>1 DEF Polled, WholeInv
<1>3. /\ gave \subseteq Listed(Polled) \cup (IF strip.total THEN {Total} ELSE {})
      /\ strip.total => Total \in gave
      /\ strip' = strip /\ client' = client /\ ~strip.iot
      /\ poll' = Writing(batch, gave)
  BY <1>1 DEF SmartReads, Readable
<1>4. \A i \in DOMAIN order : order[i] \in Outlets /\ OutletEntry(order, i).who = order[i]
  BY <1>2 DEF Ordered, OutletEntry
<1>5. TotalEntry.who = Total /\ Total \notin Outlets
  BY DEF TotalEntry, Total, Outlets
<1>6. {e.who : e \in batch} = gave
  <2>1. Listed(Polled) = {order[i] : i \in DOMAIN order}
    BY DEF Listed
  <2>2. {e.who : e \in entries} = gave \cap Listed(Polled)
    BY <1>4, <2>1
  <2> HIDE DEF entries
  <2> QED
    BY <1>3, <1>5, <2>2
<1>7. OneEntryEach(batch)
  <2>1. \A e \in entries : e.who \in Outlets
    BY <1>4
  <2>2. \A e, f \in entries : e.who = f.who => e = f
    BY <1>2, <1>4 DEF Ordered
  <2> HIDE DEF entries
  <2> QED
    BY <1>5, <2>1, <2>2 DEF OneEntryEach
<1> HIDE DEF batch
<1>8. poll' = IdlePoll \/ poll' = [at |-> "writing", batch |-> batch, gave |-> gave]
  BY <1>3 DEF Writing
<1> QED
  BY <1>3, <1>6, <1>7, <1>8 DEF WholeInv, LandedIsWhole, OneEntryEach, Ordered, IdlePoll

\* A client that loses an outlet, or finds one again, still lists each of them once.
LEMMA OrderedWithout ==
  ASSUME NEW c, Ordered(c), NEW o \in Listed(c), NEW d, d.order = Without(c.order, o)
  PROVE  Ordered(d)
<1> DEFINE s == c.order
           at == CHOOSE i \in DOMAIN s : s[i] = o
           r == d.order
<1>1. s \in Seq(Outlets) /\ DOMAIN s = 1 .. Len(s) /\ Len(s) \in Nat
      /\ \A i, j \in DOMAIN s : s[i] = s[j] => i = j
  BY DEF Ordered
<1>2. at \in 1 .. Len(s)
  BY <1>1 DEF Listed
<1>3. r = [i \in 1 .. Len(s) - 1 |-> s[IF i < at THEN i ELSE i + 1]]
  BY DEF Without
<1> HIDE DEF s, at, r
<1>4. \A i \in 1 .. Len(s) - 1 : (IF i < at THEN i ELSE i + 1) \in 1 .. Len(s)
  BY <1>1, <1>2
<1>5. r \in Seq(Outlets) /\ DOMAIN r = 1 .. Len(s) - 1
  <2>1. r \in [1 .. Len(s) - 1 -> Outlets] /\ Len(s) - 1 \in Nat
    BY <1>1, <1>2, <1>3, <1>4
  <2> QED
    BY <2>1
<1>6. \A i, j \in 1 .. Len(s) - 1 : r[i] = r[j] => i = j
  <2> TAKE i, j \in 1 .. Len(s) - 1
  <2> HAVE r[i] = r[j]
  <2> DEFINE Old(x) == IF x < at THEN x ELSE x + 1
  <2>1. r[i] = s[Old(i)] /\ r[j] = s[Old(j)] /\ Old(i) \in DOMAIN s /\ Old(j) \in DOMAIN s
    BY <1>1, <1>3, <1>4
  <2>2. Old(i) = Old(j)
    BY <1>1, <2>1
  <2> QED
    BY <1>1, <1>2, <2>2
<1> QED
  BY <1>5, <1>6 DEF Ordered, r

LEMMA OrderedAppend ==
  ASSUME NEW c, Ordered(c), NEW o \in Outlets, o \notin Listed(c), NEW d,
         d.order = Append(c.order, o)
  PROVE  Ordered(d)
<1> DEFINE s == c.order
<1>1. s \in Seq(Outlets) /\ DOMAIN s = 1 .. Len(s) /\ \A i \in DOMAIN s : s[i] # o
  BY DEF Ordered, Listed
<1>2. Append(s, o) \in Seq(Outlets) /\ DOMAIN Append(s, o) = 1 .. Len(s) + 1
      /\ Append(s, o)[Len(s) + 1] = o /\ \A i \in 1 .. Len(s) : Append(s, o)[i] = s[i]
  BY <1>1
<1> QED
  BY <1>1, <1>2 DEF Ordered

LEMMA WholeInvNext == WholeInv /\ [Next]_vars => WholeInv'
<1> SUFFICES ASSUME WholeInv, [Next]_vars PROVE WholeInv'
  OBVIOUS
<1>1. CASE IotTotal \/ IotOutlet \/ OutletFails
  BY <1>1, WholeInvIot
<1>2. CASE SmartRead
  BY <1>2, WholeInvSmart
<1>3. CASE PollStarts \/ PollLands \/ PollFails
  BY <1>3 DEF PollStarts, PollLands, PollFails, WholeInv, LandedIsWhole, IdlePoll, Ordered
<1>4. CASE Reconnected \/ Replaced
  <2>1. client' = Fresh /\ strip' = strip
        /\ poll' \in {poll, IF poll.at = "naming" /\ poll.old = {} /\ ~strip.iot
                            THEN [poll EXCEPT !.old = {client}] ELSE poll}
    BY <1>4 DEF Reconnected, Replaced, Replaces
  <2>2. Ordered(client') /\ Ordered(client)
        /\ client' = [order |-> client'.order, disabled |-> client'.disabled]
    BY <2>1, InOrderIsOrdered DEF WholeInv, Fresh
  <2>3. CASE poll' = poll
    BY <2>1, <2>2, <2>3 DEF WholeInv, LandedIsWhole
  <2>4. CASE poll.at = "naming" /\ poll' = [at |-> "naming", old |-> {client}]
    BY <2>1, <2>2, <2>4 DEF WholeInv, LandedIsWhole
  <2> QED
    BY <2>1, <2>3, <2>4 DEF WholeInv
<1>5. CASE LibraryNext
  <2>1. strip' = strip /\ poll' = poll
    BY <1>5 DEF LibraryNext, OutletMissing, OutletBack, Disables
  <2>2. Ordered(client')
    <3>1. ASSUME NEW o \in Outlets, OutletMissing(o) PROVE Ordered(client')
      <4>1. client'.order = Without(client.order, o) /\ o \in Listed(client)
        BY <3>1 DEF OutletMissing
      <4> QED
        BY <4>1, OrderedWithout DEF WholeInv
    <3>2. ASSUME NEW o \in Outlets, OutletBack(o) PROVE Ordered(client')
      <4>1. client'.order = Append(client.order, o) /\ o \notin Listed(client)
        BY <3>2 DEF OutletBack, WholeInv
      <4> QED
        BY <4>1, OrderedAppend DEF WholeInv
    <3>3. ASSUME NEW d \in Devices, Disables(d) PROVE Ordered(client')
      BY <3>3 DEF Disables, WholeInv, Ordered
    <3> QED
      BY <1>5, <3>1, <3>2, <3>3 DEF LibraryNext
  <2>3. client' = [order |-> client'.order, disabled |-> client'.disabled]
    BY <1>5 DEF LibraryNext, OutletMissing, OutletBack, Disables, WholeInv
  <2> QED
    BY <2>1, <2>2, <2>3 DEF WholeInv, LandedIsWhole
<1>6. CASE ReconnectEnds \/ Tick \/ UNCHANGED vars
  <2>1. UNCHANGED <<strip, client, poll>>
    BY <1>6 DEF ReconnectEnds, Tick, vars
  <2> QED
    BY <2>1 DEF WholeInv, LandedIsWhole, Ordered
<1> QED
  BY <1>1, <1>2, <1>3, <1>4, <1>5, <1>6 DEF Next, PollNext

\* What is written of a strip is everything a poll read, once, and of an IOT strip all there
\* is, however python-kasa's list and the client change meanwhile
\* (process_smart_strip_data).
THEOREM WrittenIsWhole == Spec => []LandedIsWhole
<1>1. WholeInv => LandedIsWhole
  BY DEF WholeInv
<1> QED
  BY <1>1, WholeInvInit, WholeInvNext, PTL DEF Spec

-----------------------------------------------------------------------------
(* Reconnects are spaced.  SpacingInv ties the two clocks, the collector's countdown and   *)
(* the time since the last start, to the distance that the number of starts calls for.     *)

SpacingInv ==
    /\ starts \in Nat /\ since \in 0 .. MaxGap
    /\ gap = Distance(starts + 1)
    /\ wait = IF since < Distance(starts) THEN Distance(starts) - since ELSE 0

\* The distances double from FirstGap, and stay at MaxGap once they are there.
LEMMA DistancesDouble ==
  ASSUME NEW n \in Nat
  PROVE  /\ Distance(n) \in 0 .. MaxGap
         /\ Distance(0) = 0 /\ Distance(1) = FirstGap
         /\ n # 0 => Distance(n + 1) = Smaller(Distance(n) * 2, MaxGap)
         /\ Distance(n) = MaxGap => Distance(n + 1) = MaxGap
<1>1. FirstGap \in Nat \ {0} /\ MaxGap \in Nat /\ FirstGap <= MaxGap
  BY StripAssumption
<1>2. Distance(0) = 0 /\ Distance(1) = FirstGap
  <2>1. Doubled[1 - 1] = 1 /\ FirstGap * 1 = FirstGap
    BY <1>1, DoublesEachTime
  <2> QED
    BY <1>1, <2>1 DEF Distance, Smaller
<1>3. CASE n = 0
  BY <1>1, <1>2, <1>3
<1>4. CASE n # 0
  <2> DEFINE far == FirstGap * Doubled[n - 1]
  <2>1. n - 1 \in Nat /\ (n - 1) + 1 = n /\ (n + 1) - 1 = n /\ n + 1 # 0
    BY <1>4
  <2>2. Doubled[n - 1] \in Nat \ {0} /\ Doubled[n] = 2 * Doubled[n - 1]
    BY <2>1, DoublesEachTime
  <2>3. far \in Nat /\ FirstGap * Doubled[n] = far * 2
    BY <1>1, <2>2
  <2>4. Distance(n) = Smaller(far, MaxGap) /\ Distance(n + 1) = Smaller(far * 2, MaxGap)
    BY <1>4, <2>1, <2>3 DEF Distance
  <2> HIDE DEF far
  <2> QED
    BY <1>1, <1>2, <1>4, <2>3, <2>4 DEF Smaller
<1> QED
  BY <1>3, <1>4

LEMMA SpacingInvInit == Init => SpacingInv
<1>1. Distance(0) = 0 /\ Distance(0 + 1) = FirstGap /\ MaxGap \in Nat
  BY DistancesDouble, StripAssumption
<1> QED
  BY <1>1 DEF Init, SpacingInv

\* A start: its countdown is the distance to the next one.
LEMMA SpacingInvStarts == ASSUME SpacingInv, Starts, wait = 0 PROVE SpacingInv'
<1>1. starts \in Nat /\ gap = Distance(starts + 1) /\ MaxGap \in Nat
  BY StripAssumption DEF SpacingInv
<1>2. wait' = gap /\ gap' = Smaller(gap * 2, MaxGap) /\ since' = 0
      /\ starts' = IF Distance(starts) = MaxGap THEN starts ELSE starts + 1
  BY DEF Starts, NextGap
<1>3. starts' \in Nat /\ gap = Distance(starts') /\ gap' = Distance(starts' + 1)
  <2>1. CASE Distance(starts) = MaxGap
    <3>1. starts' = starts /\ gap = MaxGap /\ gap' = MaxGap
      BY <1>1, <1>2, <2>1, DistancesDouble DEF Smaller
    <3> QED
      BY <1>1, <2>1, <3>1
  <2>2. CASE Distance(starts) # MaxGap
    <3>1. starts' = starts + 1 /\ starts + 1 \in Nat /\ starts + 1 # 0
      BY <1>1, <1>2, <2>2
    <3>2. Distance((starts + 1) + 1) = Smaller(Distance(starts + 1) * 2, MaxGap)
      BY <3>1, DistancesDouble
    <3> QED
      BY <1>1, <1>2, <3>1, <3>2
  <2> QED
    BY <2>1, <2>2
<1>4. Distance(starts') \in 0 .. MaxGap
  BY <1>3, DistancesDouble
<1>5. wait' = IF since' < Distance(starts') THEN Distance(starts') - since' ELSE 0
  BY <1>1, <1>2, <1>3, <1>4
<1> QED
  BY <1>1, <1>2, <1>3, <1>5 DEF SpacingInv, Distance

LEMMA SpacingInvTick == ASSUME SpacingInv, Tick PROVE SpacingInv'
<1> DEFINE far == Distance(starts)
<1>1. far \in 0 .. MaxGap /\ MaxGap \in Nat /\ since \in 0 .. MaxGap
      /\ wait = IF since < far THEN far - since ELSE 0
  BY DistancesDouble, StripAssumption DEF SpacingInv
<1>2. wait' = (IF wait > 0 THEN wait - 1 ELSE 0) /\ since' = Smaller(since + 1, MaxGap)
      /\ starts' = starts /\ gap' = gap
  BY DEF Tick
<1> HIDE DEF far
<1>3. since' \in 0 .. MaxGap /\ wait' = IF since' < far THEN far - since' ELSE 0
  BY <1>1, <1>2 DEF Smaller
<1> QED
  BY <1>2, <1>3 DEF SpacingInv, Distance, far

\* Only a request for a reconnect, and a tick, move the clocks.
LEMMA ClockSteps ==
  ASSUME [Next]_vars
  PROVE  (Starts /\ wait = 0) \/ Tick \/ UNCHANGED clock
<1>1. ASSUME NEW gave, SmartReads(gave)
      PROVE  (Starts /\ wait = 0) \/ UNCHANGED clock
  BY <1>1 DEF SmartReads, RequestReconnect, Due
<1>2. CASE PollStarts \/ IotTotal \/ IotOutlet \/ OutletFails \/ PollLands \/ PollFails
  BY <1>2 DEF PollStarts, IotTotal, IotOutlet, OutletFails, PollLands, PollFails
<1>3. CASE Reconnected \/ ReconnectEnds \/ Replaced \/ LibraryNext \/ UNCHANGED vars
  BY <1>3 DEF Reconnected, ReconnectEnds, Replaced, LibraryNext, OutletMissing, OutletBack,
              Disables, vars, clock
<1> QED
  BY <1>1, <1>2, <1>3 DEF Next, PollNext, SmartRead

LEMMA SpacingInvNext == SpacingInv /\ [Next]_vars => SpacingInv'
<1> SUFFICES ASSUME SpacingInv, [Next]_vars PROVE SpacingInv'
  OBVIOUS
<1>1. CASE UNCHANGED clock
  BY <1>1 DEF clock, SpacingInv, Distance
<1> QED
  BY <1>1, ClockSteps, SpacingInvStarts, SpacingInvTick

\* Whatever replaces the client meanwhile, a strip is reconnected no sooner than the
\* distance since the last time, and is not held back for longer
\* (_ClientState.may_reconnect).
THEOREM SpacedReconnects == Spec => ReconnectsSpaced
<1> DEFINE Spaced ==
      /\ since' < since => since >= Distance(starts)
      /\ wait' > 0 => since' < Distance(starts')
<1>1. SpacingInv /\ SpacingInv' /\ [Next]_vars => [Spaced]_vars
  <2> SUFFICES ASSUME SpacingInv, SpacingInv', [Next]_vars PROVE Spaced
    OBVIOUS
  <2>1. wait' > 0 => since' < Distance(starts')
    <3>1. starts' \in Nat /\ since' \in Nat
          /\ wait' = IF since' < Distance(starts') THEN Distance(starts') - since' ELSE 0
      BY StripAssumption DEF SpacingInv, Distance
    <3> QED
      BY <3>1
  <2>2. since \in Nat /\ Distance(starts) \in Nat
    BY DistancesDouble, StripAssumption DEF SpacingInv
  <2>3. CASE Starts /\ wait = 0
    BY <2>1, <2>2, <2>3 DEF SpacingInv
  <2>4. CASE Tick \/ UNCHANGED clock
    <3>1. ~(since' < since)
      BY <2>2, <2>4, StripAssumption DEF Tick, clock, Smaller, SpacingInv
    <3> QED
      BY <2>1, <3>1
  <2> QED
    BY <2>3, <2>4, ClockSteps
<1>2. Spec => [][Spaced]_vars
  BY <1>1, SpacingInvInit, SpacingInvNext, PTL DEF Spec
<1> QED
  BY <1>2 DEF ReconnectsSpaced

-----------------------------------------------------------------------------
(* What is written fits.  Nothing here is of the state: whatever value a device reports,   *)
(* and whatever the widths, the field made of it is one InfluxDB takes.                    *)

\* Truncating and rounding a number of quarters: whole numbers stay what they are.
LEMMA Truncates ==
  ASSUME NEW q \in Int
  PROVE  /\ Truncated(q) \in Int
         /\ q % 4 = 0 => 4 * Truncated(q) = q
  BY SMT DEF Truncated

LEMMA Rounds ==
  ASSUME NEW q \in Int
  PROVE  /\ Rounded(q) \in Int /\ Near(Rounded(q), q)
         /\ q >= 0 => Rounded(q) >= 0
         /\ q % 4 = 0 => Rounded(q) = Truncated(q)
<1>1. PICK n \in Int, r \in 0 .. 3 : q = 4 * n + r
  <2>1. q \div 4 \in Int /\ q % 4 \in 0 .. 3 /\ q = (4 * (q \div 4)) + (q % 4)
    OBVIOUS
  <2> QED
    BY <2>1
<1>2. q \div 4 = n /\ q % 4 = r
  BY <1>1
<1>3. Rounded(q) = IF r < 2 \/ (r = 2 /\ n % 2 = 0) THEN n ELSE n + 1
  BY <1>2 DEF Rounded
<1>4. Rounded(q) \in Int /\ Near(Rounded(q), q) /\ (q >= 0 => Rounded(q) >= 0)
  BY <1>1, <1>3 DEF Near
<1>5. q % 4 = 0 => Rounded(q) = Truncated(q)
  BY <1>1, <1>2, <1>3, Truncates
<1> QED
  BY <1>4, <1>5

\* Below Precision a float rounds to no more than Precision.
LEMMA RoundedIsSmall ==
  ASSUME NEW q \in (-4 * Precision) .. (4 * Precision)
  PROVE  Rounded(q) \in (-Precision) .. Precision
<1>1. Precision \in Nat /\ q \in Int
  BY WidthAssumption
<1>2. Rounded(q) \in Int /\ 4 * Rounded(q) - q \in -2 .. 2
  BY <1>1, Rounds DEF Near
<1> QED
  BY <1>1, <1>2

LEMMA SmallFits == ASSUME NEW n \in (-Precision) .. Precision PROVE n \in Int64
  BY WidthAssumption DEF Int64, IntMin

\* A storable value fits as the integer it truncates to, a bool as 0 or 1.
LEMMA TruncatedFits ==
  ASSUME NEW v, IsValue(v), Storable(v)
  PROVE  AsInt(v) \in Int64
<1>1. CASE v.kind = "bool"
  <2>1. v.quarters \in {0, 4}
    BY <1>1 DEF IsValue
  <2>2. Truncated(0) = 0 /\ Truncated(4) = 1
    BY SMT DEF Truncated
  <2> QED
    BY <2>1, <2>2, WidthAssumption DEF AsInt, Int64, IntMin
<1>2. CASE v.kind # "bool"
  BY <1>2 DEF Storable, AsInt
<1> QED
  BY <1>1, <1>2

\* Rounding a storable float keeps it within int64: it is whole, or well within.
LEMMA RoundedFits ==
  ASSUME NEW v, IsValue(v), Storable(v), v.kind = "float"
  PROVE  Rounded(v.quarters) \in Int64
<1>1. v.quarters \in Int /\ Truncated(v.quarters) \in Int64
      /\ (v.quarters % 4 = 0 \/ v.quarters \in (-4 * Precision) .. (4 * Precision))
  BY DEF IsValue, Storable
<1> DEFINE q == v.quarters
<1> HIDE DEF q
<1>2. CASE q % 4 = 0
  BY <1>1, <1>2, Rounds DEF q
<1>3. CASE q \in (-4 * Precision) .. (4 * Precision)
  BY <1>3, RoundedIsSmall, SmallFits DEF q
<1> QED
  BY <1>1, <1>2, <1>3 DEF q

\* A legacy value scaled is a value still, whole if it was.
LEMMA ScaledIsValue ==
  ASSUME NEW v, IsValue(v), v.kind \in Numbers \cup {"bool"}
  PROVE  /\ Scale * v.quarters \in Int
         /\ v.kind # "float" => (Scale * v.quarters) % 4 = 0
         /\ IsValue(Float(Scale * v.quarters))
<1> DEFINE q == v.quarters
<1>1. q \in Int /\ (v.kind # "float" => q % 4 = 0) /\ Scale \in Int /\ Precision \in Int
  BY WidthAssumption DEF IsValue, Numbers
<1> HIDE DEF q
<1>2. Scale * q \in Int
  BY <1>1
<1>3. q % 4 = 0 => (Scale * q) % 4 = 0
  <2> SUFFICES ASSUME q % 4 = 0 PROVE (Scale * q) % 4 = 0
    OBVIOUS
  <2>1. PICK m \in Int : q = 4 * m
    <3>1. q \div 4 \in Int /\ q = 4 * (q \div 4)
      BY <1>1
    <3> QED
      BY <3>1
  <2>2. Scale * m \in Int /\ Scale * q = 4 * (Scale * m)
    BY <1>1, <2>1
  <2> DEFINE s == Scale * m
  <2> HIDE DEF s
  <2>3. s \in Int /\ Scale * q = 4 * s
    BY <2>2 DEF s
  <2> QED
    BY <2>3
<1> DEFINE t == Scale * q
<1> HIDE DEF t
<1>4. IsValue(Float(t))
  <2>1. t \in Int /\ 4 * (t \div 4) \in Int /\ (4 * (t \div 4)) % 4 = 0
    BY <1>2 DEF t
  <2>2. CASE t \in (-4 * Precision) .. (4 * Precision)
    BY <2>1, <2>2 DEF IsValue, Float
  <2>3. CASE ~(t \in (-4 * Precision) .. (4 * Precision))
    BY <2>1, <2>3 DEF IsValue, Float
  <2> QED
    BY <2>2, <2>3
<1> QED
  BY <1>1, <1>2, <1>3, <1>4 DEF t, q

LEMMA MilliIsValue ==
  ASSUME NEW report, \A k \in DOMAIN report : IsValue(report[k])
  PROVE  IsValue(InMilli(report))
<1> DEFINE p == report["power"]
           t == Scale * p.quarters
<1>1. CASE "power_mw" \in DOMAIN report
  BY <1>1 DEF InMilli
<1>2. CASE /\ "power_mw" \notin DOMAIN report /\ "power" \in DOMAIN report
           /\ p.kind \in Numbers \cup {"bool"}
  <2>1. InMilli(report) = IF p.kind = "float" THEN Float(t)
                          ELSE [kind |-> "int", quarters |-> t]
    BY <1>2 DEF InMilli
  <2>2. t \in Int /\ (p.kind # "float" => t % 4 = 0) /\ IsValue(Float(t))
    BY <1>2, ScaledIsValue
  <2> HIDE DEF t
  <2>3. t % 4 = 0 => IsValue([kind |-> "int", quarters |-> t])
    BY <2>2 DEF IsValue
  <2> QED
    BY <2>1, <2>2, <2>3
<1>3. CASE /\ "power_mw" \notin DOMAIN report
           /\ ~("power" \in DOMAIN report /\ p.kind \in Numbers \cup {"bool"})
  <2>1. InMilli(report) = Null
    BY <1>3 DEF InMilli
  <2> QED
    BY <2>1 DEF Null, IsValue
<1> QED
  BY <1>1, <1>2, <1>3

\* A milli-unit field fits, and is within half a unit of the legacy value it comes from.
LEMMA MilliFits ==
  ASSUME NEW report, \A k \in DOMAIN report : IsValue(report[k]), Storable(InMilli(report))
  PROVE  MilliField(InMilli(report)) \in Int64
<1> DEFINE v == InMilli(report)
<1>1. IsValue(v)
  BY MilliIsValue
<1> HIDE DEF v
<1>2. MilliField(v) \in Int64
  BY <1>1, RoundedFits, TruncatedFits DEF MilliField, v
<1> QED
  BY <1>2 DEF v

LEMMA MilliIsNear ==
  ASSUME NEW report, \A k \in DOMAIN report : IsValue(report[k]), DOMAIN report = {"power"},
         Storable(InMilli(report)),
         Scale * report["power"].quarters \in (-4 * Precision) .. (4 * Precision)
  PROVE  Near(MilliField(InMilli(report)), Scale * report["power"].quarters)
<1> DEFINE p == report["power"]
           t == Scale * p.quarters
<1>1. p.kind \in Numbers \cup {"bool"}
  <2>1. InMilli(report) # Null
    BY DEF Storable, Null, Numbers
  <2> QED
    BY <2>1 DEF InMilli
<1>2. InMilli(report) = IF p.kind = "float" THEN Float(t)
                        ELSE [kind |-> "int", quarters |-> t]
  BY <1>1 DEF InMilli
<1>3. t \in Int /\ (p.kind # "float" => t % 4 = 0)
  BY <1>1, ScaledIsValue
<1>4. t \in (-4 * Precision) .. (4 * Precision)
  OBVIOUS
<1> HIDE DEF t, p
<1>5. CASE p.kind = "float"
  <2>1. InMilli(report) = [kind |-> "float", quarters |-> t]
    BY <1>2, <1>4, <1>5 DEF Float
  <2>2. MilliField(InMilli(report)) = Rounded(t)
    BY <2>1 DEF MilliField
  <2>3. Near(Rounded(t), t)
    BY <1>3, Rounds
  <2> QED
    BY <2>2, <2>3 DEF t, p
<1>6. CASE p.kind # "float"
  <2>1. InMilli(report) = [kind |-> "int", quarters |-> t]
    BY <1>2, <1>6
  <2>2. MilliField(InMilli(report)) = Truncated(t)
    BY <2>1 DEF MilliField, AsInt
  <2>3. Near(Truncated(t), t)
    <3>1. 4 * Truncated(t) = t /\ Truncated(t) \in Int
      BY <1>3, <1>6, Truncates
    <3> QED
      BY <1>3, <3>1 DEF Near
  <2> QED
    BY <2>2, <2>3 DEF t, p
<1> QED
  BY <1>5, <1>6

LEMMA EmeterFitsAll ==
  ASSUME NEW report \in Reports, NEW legacyUnits \in BOOLEAN
  PROVE  EmeterFits(report, legacyUnits)
<1>1. \A k \in DOMAIN report : IsValue(report[k])
  BY ReportAssumption
<1> DEFINE fields == EmeterFields(report, legacyUnits)
<1>2. ASSUME NEW keys
      PROVE  /\ DOMAIN AsReported(report, keys)
                  = {k \in keys \cap DOMAIN report : Storable(report[k])}
             /\ \A k \in DOMAIN AsReported(report, keys) :
                  AsReported(report, keys)[k] \in Int64
  BY <1>1, TruncatedFits DEF AsReported
<1>3. CASE ~legacyUnits
  <2>1. fields = AsReported(report, DOMAIN report)
    BY <1>3 DEF EmeterFields
  <2>2. DOMAIN fields = {k \in DOMAIN report : Storable(report[k])}
        /\ \A k \in DOMAIN fields : fields[k] \in Int64
    BY <1>2, <2>1
  <2> QED
    BY <1>3, <2>2 DEF EmeterFits
<1>4. CASE legacyUnits
  <2> DEFINE others == AsReported(report, DOMAIN report \ {"power_mw", "power"})
             milli == IF Storable(InMilli(report)) THEN {"power_mw"} ELSE {}
  <2>1. fields = [k \in DOMAIN others \cup milli |->
                    IF k = "power_mw" THEN MilliField(InMilli(report)) ELSE others[k]]
    BY <1>4 DEF EmeterFields
  <2>2. /\ DOMAIN others = {k \in DOMAIN report \ {"power_mw", "power"} : Storable(report[k])}
        /\ \A k \in DOMAIN others : others[k] \in Int64
    BY <1>2
  <2> HIDE DEF others, fields
  <2>3. /\ DOMAIN fields = DOMAIN others \cup milli
        /\ \A k \in DOMAIN fields :
             fields[k] = IF k = "power_mw" THEN MilliField(InMilli(report)) ELSE others[k]
    BY <2>1
  <2>4. "power_mw" \in DOMAIN fields <=> Storable(InMilli(report))
    BY <2>2, <2>3
  <2>5. \A k \in DOMAIN fields : fields[k] \in Int64
    BY <1>1, <2>2, <2>3, <2>4, MilliFits
  <2>6. \A k \in DOMAIN report \ {"power"} : Storable(report[k]) => k \in DOMAIN fields
    <3>1. "power_mw" \in DOMAIN report => InMilli(report) = report["power_mw"]
      BY DEF InMilli
    <3> QED
      BY <2>2, <2>3, <2>4, <3>1
  <2>7. ASSUME DOMAIN report = {"power"}, "power_mw" \in DOMAIN fields,
               Scale * report["power"].quarters \in (-4 * Precision) .. (4 * Precision)
        PROVE  Near(fields["power_mw"], Scale * report["power"].quarters)
    <3>1. fields["power_mw"] = MilliField(InMilli(report)) /\ Storable(InMilli(report))
      BY <2>3, <2>4, <2>7
    <3> QED
      BY <1>1, <2>7, <3>1, MilliIsNear
  <2> QED
    BY <2>5, <2>6, <2>7 DEF EmeterFits, fields
<1> QED
  BY <1>3, <1>4

LEMMA EnergyFitsAll == EnergyFits
<1> SUFFICES ASSUME NEW v \in Values, NEW k \in DOMAIN SmartEnergyFields(v)
             PROVE  SmartEnergyFields(v)[k] \in Int64 \cap Nat
  BY DEF EnergyFits
<1> DEFINE field == IF v.kind = "float" THEN Rounded(v.quarters) ELSE AsInt(v)
<1>1. v.kind \in Numbers /\ Storable(v) /\ v.quarters >= 0 /\ IsValue(v)
      /\ SmartEnergyFields(v)[k] = field
  BY ReportAssumption DEF SmartEnergyFields
<1>2. field \in Int64
  BY <1>1, RoundedFits, TruncatedFits
<1>3. v.quarters \in Int
  BY <1>1 DEF IsValue, Numbers
<1>4. field >= 0
  <2>1. Rounded(v.quarters) >= 0
    BY <1>1, <1>3, Rounds
  <2>2. Truncated(v.quarters) >= 0
    BY <1>1, <1>3 DEF Truncated
  <2> QED
    BY <2>1, <2>2 DEF AsInt
<1>5. Int64 \subseteq Int
  BY WidthAssumption DEF Int64, IntMin
<1> HIDE DEF field
<1> QED
  BY <1>1, <1>2, <1>4, <1>5

\* A field of the system information has its key's type, and an integer one fits.
LEMMA WholeFits == ASSUME NEW n \in Int64 PROVE AsInt(Whole(n)) = n
<1>1. n \in Int
  BY WidthAssumption DEF Int64, IntMin
<1>2. 4 * n \in Int /\ (4 * n) % 4 = 0
  BY <1>1
<1>3. 4 * Truncated(4 * n) = 4 * n /\ Truncated(4 * n) \in Int
  BY <1>2, Truncates
<1>4. Truncated(4 * n) = n
  BY <1>1, <1>3
<1> QED
  BY <1>4 DEF AsInt, Whole

LEMMA FieldFits ==
  ASSUME NEW key, NEW v, NEW w \in SysinfoField(key, v)
  PROVE  w.kind = KeyType(key) /\ (w.kind = "int" => AsInt(w) \in Int64)
<1>1. KeyType(key) \in {"int", "float", "bool", "text", "dropped"}
  BY DEF KeyType
<1>2. CASE KeyType(key) = "int"
  <2>1. IsWhole(v) /\ Storable(v) /\ w = Whole(AsInt(v))
    BY <1>2 DEF SysinfoField
  <2>2. AsInt(v) \in Int64
    BY <2>1 DEF IsWhole, Storable, AsInt
  <2> QED
    BY <1>2, <2>1, <2>2, WholeFits DEF Whole
<1>3. CASE KeyType(key) = "float"
  BY <1>3 DEF SysinfoField
<1>4. CASE KeyType(key) = "bool"
  BY <1>4 DEF SysinfoField
<1>5. CASE KeyType(key) = "text"
  BY <1>5 DEF SysinfoField, Text
<1>6. CASE KeyType(key) = "dropped"
  BY <1>6 DEF SysinfoField
<1> QED
  BY <1>1, <1>2, <1>3, <1>4, <1>5, <1>6

LEMMA SysinfoFitsAll == SysinfoFits
<1> SUFFICES ASSUME NEW key \in SysinfoKeys, NEW v \in Values, NEW kp125m \in BOOLEAN,
                    NEW f \in SysinfoFields(kp125m, {[key |-> key, value |-> v]})
             PROVE  /\ f.value.kind = KeyType(f.key)
                    /\ f.value.kind = "int" => AsInt(f.value) \in Int64
  BY DEF SysinfoFits
<1> DEFINE e == Normal(kp125m, [key |-> key, value |-> v])
<1>1. PICK w \in SysinfoField(e.key, e.value) : f = [key |-> e.key, value |-> w]
  BY DEF SysinfoFields
<1> HIDE DEF e
<1>2. w.kind = KeyType(e.key) /\ (w.kind = "int" => AsInt(w) \in Int64)
  BY <1>1, FieldFits
<1> QED
  BY <1>1, <1>2

\* Every field written is one InfluxDB takes: in int64, rounded where the reading was a
\* legacy one, of its key's type, and none lost for another's sake (emeter_fields,
\* smart_energy_fields, sysinfo_field).
THEOREM WrittenFits == Spec => []FieldsFit
<1>1. SeriesInv => FieldsFit
  <2> SUFFICES ASSUME SeriesInv PROVE ReadingsFit[strip.iot]
    BY EnergyFitsAll, SysinfoFitsAll DEF FieldsFit
  <2>1. strip.iot \in BOOLEAN
    BY StripAssumption DEF SeriesInv
  <2> QED
    BY <2>1, EmeterFitsAll DEF ReadingsFit
<1> QED
  BY <1>1, SeriesInvInit, SeriesInvNext, PTL DEF Spec
===============================================================================
