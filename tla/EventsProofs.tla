----------------------------- MODULE EventsProofs -----------------------------
(***************************************************************************)
(* The log of events, the commands and the children, for every size of the *)
(* log, whatever the panel reports, and however many processes there may   *)
(* be.                                                                     *)
(***************************************************************************)
EXTENDS Events, FiniteSetTheorems, TLAPS

Fields == {"event_log", "event_log_last", "alarms", "troubles", "system_troubles",
           "ac_power_failure", "programming_mode", "zone", "zone_active", "light", "light_changed",
           "output", "refresh_pending"}

\* The log has an entry.
LEMMA LogSizes == LogSize \in Nat \ {0} /\ LogSize \in 1 .. 256
<1>1. LogSize \in 1 .. 256
  BY Zenon, EventsAssumption
<1> QED BY <1>1

\* The events of a plan are events.
LEMMA PlannedEvents ==
  ASSUME NEW p \in Plans, NEW e \in p.events
  PROVE  e \in Event
BY Zenon, EventsAssumption

\* What the panel reports of a zone, a light, an output, and the refresh.
ThingReported ==
  \/ \E state \in SUBSET ZoneBits : HandleZoneStatus(state) \/ HandleEquipListZoneData(state)
  \/ HandleKeyfob
  \/ \E on \in BOOLEAN : HandleUserLights(on) \/ HandleLightsState(on)
  \/ \E on \in BOOLEAN : HandleEquipListOutputData(on)
  \/ EquipmentRefresh \/ HandleTimeAndDate

\* None of that touches the log, the lists or what a client hears of events.
LEMMA EventsUntouched ==
  ASSUME Fields \subseteq DOMAIN self, ThingReported
  PROVE  /\ DOMAIN self' = DOMAIN self
         /\ \A x \in {"event_log", "event_log_last", "alarms", "troubles", "system_troubles",
                      "ac_power_failure", "programming_mode"} : self'[x] = self[x]
         /\ recent' = recent /\ heard' = heard /\ sigchld' = sigchld /\ plan' = plan
<1>1. ASSUME NEW state, ZoneReported(state)
      PROVE  /\ self' = [self EXCEPT !.zone = state, !.zone_active = TRUE]
             /\ recent' = recent /\ heard' = heard /\ sigchld' = sigchld /\ plan' = plan
  BY <1>1 DEF ZoneReported, Undisturbed
<1>2. CASE \E state \in SUBSET ZoneBits : HandleZoneStatus(state) \/ HandleEquipListZoneData(state)
  BY <1>1, <1>2 DEF HandleZoneStatus, HandleEquipListZoneData, Fields
<1>3. CASE HandleKeyfob
  BY <1>3 DEF HandleKeyfob, Undisturbed, Fields
<1>4. CASE \E on \in BOOLEAN : HandleUserLights(on)
  BY <1>4 DEF HandleUserLights, Undisturbed, Fields
<1>5. CASE \E on \in BOOLEAN : HandleLightsState(on)
  BY <1>5 DEF HandleLightsState, Undisturbed, Fields
<1>6. CASE \E on \in BOOLEAN : HandleEquipListOutputData(on)
  BY <1>6 DEF HandleEquipListOutputData, Undisturbed, Fields
<1>7. CASE EquipmentRefresh
  BY <1>7 DEF EquipmentRefresh, Undisturbed, Fields
<1>8. CASE HandleTimeAndDate
  BY <1>8 DEF HandleTimeAndDate, Undisturbed, Fields
<1> QED BY <1>2, <1>3, <1>4, <1>5, <1>6, <1>7, <1>8 DEF ThingReported

\* The steps there are.
LEMMA Steps ==
  Next <=> \/ \E e \in plan.events : HandleAlarm(e)
           \/ ThingReported
           \/ ChildEnds \/ SigchldDelivered \/ Reaps
BY DEF Next, ThingReported

-----------------------------------------------------------------------------
(* Where an entry of a ring is found.                                      *)

\* The entry k places before the last one, counted around the end of the ring.
LEMMA Around ==
  ASSUME NEW size \in Nat \ {0}, NEW last \in 0 .. size - 1, NEW k \in 0 .. size - 1
  PROVE  (last - k + size) % size = IF k <= last THEN last - k ELSE last - k + size
<1>1. CASE k <= last
  <2>1. last - k \in Nat /\ last - k < size
    BY <1>1
  <2>2. ASSUME NEW n \in Nat, n < size PROVE (n + size) % size = n
    BY <2>2, SMTT(30)
  <2>3. (last - k + size) % size = last - k
    BY <2>1, <2>2
  <2> QED BY <1>1, <2>3
<1>2. CASE k > last
  <2>1. last - k + size \in Nat /\ last - k + size < size
    BY <1>2
  <2>2. ASSUME NEW n \in Nat, n < size PROVE n % size = n
    BY <2>2
  <2>3. (last - k + size) % size = last - k + size
    BY <2>1, <2>2
  <2> QED BY <1>2, <2>3
<1> QED BY <1>1, <1>2

\* The next slot of the ring, without the modulus.
LEMMA Advance ==
  ASSUME NEW last \in 0 .. LogSize - 1
  PROVE  NextSlot(last) = IF last = LogSize - 1 THEN 0 ELSE last + 1
<1>1. LogSize \in Nat \ {0}
  BY LogSizes
<1>2. CASE last = LogSize - 1
  BY <1>1, <1>2 DEF NextSlot
<1>3. CASE last # LogSize - 1
  <2>1. last + 1 \in Nat /\ last + 1 < LogSize
    BY <1>1, <1>3
  <2>2. ASSUME NEW n \in Nat, n < LogSize PROVE n % LogSize = n
    BY <1>1, <2>2
  <2> QED BY <1>3, <2>1, <2>2 DEF NextSlot
<1> QED BY <1>2, <1>3

\* Window(s, e): the entries of s move by one place, none of them more.
LEMMA WindowEntries ==
  ASSUME NEW S, NEW s \in Seq(S), NEW e \in S, Len(s) <= LogSize
  PROVE  /\ Window(s, e) \in Seq(S)
         /\ Len(Window(s, e)) \in 1 .. LogSize
         /\ Len(Window(s, e)) = IF Len(s) < LogSize THEN Len(s) + 1 ELSE LogSize
         /\ Window(s, e)[Len(Window(s, e))] = e
         /\ \A k \in 1 .. Len(Window(s, e)) - 1 :
              Window(s, e)[Len(Window(s, e)) - k] = s[Len(s) - (k - 1)]
<1>1. LogSize \in Nat \ {0}
  BY LogSizes
<1>2. CASE Len(s) < LogSize
  BY <1>1, <1>2 DEF Window
<1>3. CASE Len(s) = LogSize
  <2>1. s # <<>>
    BY <1>1, <1>3
  <2>2. /\ Tail(s) \in Seq(S) /\ Len(Tail(s)) = Len(s) - 1
        /\ \A i \in 1 .. Len(s) - 1 : Tail(s)[i] = s[i + 1]
    BY <2>1
  <2> DEFINE t == Tail(s)
  <2>3. Window(s, e) = Append(t, e) /\ t \in Seq(S) /\ Len(t) = LogSize - 1
    BY <1>1, <1>3, <2>2 DEF Window
  <2> HIDE DEF t
  <2>4. /\ Append(t, e) \in Seq(S) /\ Len(Append(t, e)) = LogSize
        /\ Append(t, e)[LogSize] = e
        /\ \A i \in 1 .. LogSize - 1 : Append(t, e)[i] = t[i]
    BY <1>1, <2>3
  <2>5. \A k \in 1 .. LogSize - 1 : t[LogSize - k] = s[LogSize - (k - 1)]
    <3>1. \A k \in 1 .. LogSize - 1 : /\ LogSize - k \in 1 .. LogSize - 1
                                      /\ LogSize - k + 1 = LogSize - (k - 1)
      BY <1>1
    <3> QED BY <1>1, <1>3, <2>2, <3>1 DEF t
  <2> DEFINE w == Append(t, e)
  <2>6. \A k \in 1 .. LogSize - 1 : w[LogSize - k] = s[LogSize - (k - 1)]
    BY <1>1, <2>4, <2>5
  <2>7. w \in Seq(S) /\ Len(w) = LogSize /\ w[LogSize] = e
    BY <2>4
  <2> HIDE DEF w
  <2>8. Window(s, e) = w
    BY <2>3 DEF w
  <2> QED BY <1>1, <1>3, <2>6, <2>7, <2>8
<1>4. Len(s) < LogSize \/ Len(s) = LogSize
  BY <1>1
<1> QED BY Zenon, <1>2, <1>3, <1>4

-----------------------------------------------------------------------------
(* The log.                                                                *)

LogTypes ==
  /\ Fields \subseteq DOMAIN self
  /\ self.event_log_last \in 0 .. LogSize - 1
  /\ DOMAIN self.event_log = 0 .. LogSize - 1
  /\ recent \in Seq(Event)
  /\ Len(recent) <= LogSize
  /\ plan \in Plans

LogInv == LogTypes /\ LogHoldsLatest

\* Nothing but concordd_handle_alarm() touches the log.
LEMMA LogUntouched ==
  ASSUME LogInv, plan' = plan, recent' = recent,
         Fields \subseteq DOMAIN self',
         self'.event_log = self.event_log, self'.event_log_last = self.event_log_last
  PROVE  LogInv'
BY DEF LogInv, LogTypes, LogHoldsLatest

\* concordd_handle_alarm() fills the next slot with e, the last event from now on.
LEMMA AlarmMoves ==
  ASSUME LogTypes, NEW e \in plan.events, HandleAlarm(e)
  PROVE  /\ LogTypes'
         /\ self'.event_log_last =
              IF self.event_log_last = LogSize - 1 THEN 0 ELSE self.event_log_last + 1
         /\ self'.event_log = [self.event_log EXCEPT ![self'.event_log_last] = Record(e)]
         /\ Len(recent') \in 1 .. LogSize /\ Len(recent') - 1 <= Len(recent)
         /\ recent'[Len(recent')] = e
         /\ \A k \in 1 .. Len(recent') - 1 :
              recent'[Len(recent') - k] = recent[Len(recent) - (k - 1)]
<1>1. LogSize \in Nat \ {0} /\ e \in Event
  BY LogSizes, PlannedEvents DEF LogTypes
<1>2. NextSlot(self.event_log_last) =
        IF self.event_log_last = LogSize - 1 THEN 0 ELSE self.event_log_last + 1
  BY Advance DEF LogTypes
<1>3. /\ self'.event_log_last = NextSlot(self.event_log_last)
      /\ self'.event_log = [self.event_log EXCEPT ![NextSlot(self.event_log_last)] = Record(e)]
      /\ DOMAIN self' = DOMAIN self
      /\ recent' = Window(recent, e) /\ plan' = plan
  BY DEF HandleAlarm, Undisturbed, LogTypes, Fields
<1>4. /\ Window(recent, e) \in Seq(Event)
      /\ Len(Window(recent, e)) \in 1 .. LogSize
      /\ Len(Window(recent, e)) = IF Len(recent) < LogSize THEN Len(recent) + 1 ELSE LogSize
      /\ Window(recent, e)[Len(Window(recent, e))] = e
      /\ \A k \in 1 .. Len(Window(recent, e)) - 1 :
           Window(recent, e)[Len(Window(recent, e)) - k] = recent[Len(recent) - (k - 1)]
  <2>1. recent \in Seq(Event) /\ Len(recent) <= LogSize
    BY DEF LogTypes
  <2>2. e \in Event
    BY <1>1
  <2> DEFINE S == Event
             r == recent
  <2>3. r \in Seq(S) /\ Len(r) <= LogSize /\ e \in S
    BY <2>1, <2>2
  <2> HIDE DEF S, r
  <2>4. /\ Window(r, e) \in Seq(S)
        /\ Len(Window(r, e)) \in 1 .. LogSize
        /\ Len(Window(r, e)) = IF Len(r) < LogSize THEN Len(r) + 1 ELSE LogSize
        /\ Window(r, e)[Len(Window(r, e))] = e
        /\ \A k \in 1 .. Len(Window(r, e)) - 1 :
             Window(r, e)[Len(Window(r, e)) - k] = r[Len(r) - (k - 1)]
    BY <2>3, WindowEntries
  <2> QED BY Zenon, <2>4 DEF S, r
<1>5. /\ NextSlot(self.event_log_last) \in 0 .. LogSize - 1
      /\ DOMAIN self'.event_log = 0 .. LogSize - 1
  BY <1>1, <1>2, <1>3 DEF LogTypes
<1>6. LogTypes'
  BY <1>3, <1>4, <1>5 DEF LogTypes
<1> QED BY <1>2, <1>3, <1>4, <1>6

\* concordd_handle_alarm() makes e the last entry and keeps all but the oldest.
LEMMA AlarmLogged ==
  ASSUME LogInv, NEW e \in plan.events, HandleAlarm(e)
  PROVE  LogInv'
<1> DEFINE last == self.event_log_last
           next == self'.event_log_last
<1>1. /\ LogTypes'
      /\ next = IF last = LogSize - 1 THEN 0 ELSE last + 1
      /\ self'.event_log = [self.event_log EXCEPT ![next] = Record(e)]
      /\ Len(recent') \in 1 .. LogSize /\ Len(recent') - 1 <= Len(recent)
      /\ recent'[Len(recent')] = e
      /\ \A k \in 1 .. Len(recent') - 1 :
           recent'[Len(recent') - k] = recent[Len(recent) - (k - 1)]
  BY AlarmMoves DEF LogInv
<1>2. /\ LogSize \in Nat \ {0} /\ Len(recent) \in Nat
      /\ last \in 0 .. LogSize - 1 /\ next \in 0 .. LogSize - 1
      /\ DOMAIN self.event_log = 0 .. LogSize - 1
  BY <1>1, LogSizes DEF LogInv, LogTypes
<1>3. ASSUME NEW k \in 0 .. Len(recent') - 1
      PROVE  self'.event_log[(self'.event_log_last - k + LogSize) % LogSize]
               = Record(recent'[Len(recent') - k])
  <2> DEFINE slot == (next - k + LogSize) % LogSize
  <2>1. k \in 0 .. LogSize - 1
    BY <1>1, <1>2
  <2>2. slot = IF k <= next THEN next - k ELSE next - k + LogSize
    <3>1. LogSize \in Nat \ {0} /\ next \in 0 .. LogSize - 1
      BY <1>2
    <3> HIDE DEF next, last
    <3> QED BY <2>1, <3>1, Around
  <2> HIDE DEF slot, next
  <2>3. CASE k = 0
    <3>1. slot = next /\ Len(recent') - k = Len(recent')
      BY <1>1, <1>2, <2>2, <2>3
    <3>2. self'.event_log[next] = Record(e)
      BY <1>1, <1>2
    <3> QED BY <1>1, <3>1, <3>2 DEF slot, next
  <2>4. CASE k # 0
    <3> DEFINE before == (last - (k - 1) + LogSize) % LogSize
    <3>1. k \in 1 .. Len(recent') - 1 /\ k - 1 \in 0 .. Len(recent) - 1
          /\ k - 1 \in 0 .. LogSize - 1
      BY <1>1, <1>2, <2>1, <2>4 DEF LogInv, LogTypes
    <3>2. before = IF k - 1 <= last THEN last - (k - 1) ELSE last - (k - 1) + LogSize
      <4>1. LogSize \in Nat \ {0} /\ last \in 0 .. LogSize - 1
        BY <1>2
      <4> HIDE DEF last
      <4> QED BY <3>1, <4>1, Around
    <3>3. self.event_log[before] = Record(recent[Len(recent) - (k - 1)])
      BY <3>1 DEF LogInv, LogHoldsLatest
    <3> HIDE DEF before, last
    <3>4. slot = before /\ slot # next /\ slot \in 0 .. LogSize - 1
      BY <1>1, <1>2, <2>1, <2>2, <2>4, <3>2
    <3>5. self'.event_log[slot] = self.event_log[slot]
      BY <1>1, <1>2, <3>4
    <3> QED BY <1>1, <3>1, <3>3, <3>4, <3>5 DEF slot, next
  <2> QED BY <2>3, <2>4
<1> QED BY <1>1, <1>3 DEF LogInv, LogHoldsLatest

\* The event log, a ring that is full after LogSize events and goes on being
\* written, always holds the last events, each in its place, for every size of
\* the ring and whatever the panel reports.
THEOREM LogKept == Spec => []LogHoldsLatest
<1>1. Init => LogInv
  <2> SUFFICES ASSUME Init PROVE LogInv
    OBVIOUS
  <2>1. LogTypes
    BY LogSizes DEF Init, LogTypes, Fields
  <2>2. LogHoldsLatest
    BY DEF Init, LogHoldsLatest
  <2> QED BY <2>1, <2>2 DEF LogInv
<1>2. LogInv /\ [Next]_vars => LogInv'
  <2> SUFFICES ASSUME LogInv, [Next]_vars PROVE LogInv'
    OBVIOUS
  <2>1. ASSUME NEW e \in plan.events, HandleAlarm(e) PROVE LogInv'
    BY <2>1, AlarmLogged
  <2>2. CASE ThingReported
    BY <2>2, EventsUntouched, LogUntouched DEF LogInv, LogTypes, Fields
  <2>3. CASE ChildEnds \/ SigchldDelivered \/ Reaps \/ UNCHANGED vars
    BY <2>3, LogUntouched DEF ChildEnds, SigchldDelivered, Reaps, vars, LogInv, LogTypes
  <2> QED BY <2>1, <2>2, <2>3, Steps
<1>3. LogInv => LogHoldsLatest
  BY DEF LogInv
<1> QED BY <1>1, <1>2, <1>3, PTL DEF Spec

-----------------------------------------------------------------------------
(* The lists of alarms and troubles.                                       *)

Lists == DOMAIN Classes

\* The list has an entry of the kind that e would take, and it is e's.
Holds(list, e) ==
  /\ ListKey(list, e) \in DOMAIN self[list]
  /\ self[list][ListKey(list, e)] = Record(e)

SameEntry(list, e, f) == HasEntry(list, f) /\ ListKey(list, f) = ListKey(list, e)

ListsInv == LogTypes /\ ListsAgreeWithLog

\* What ListsAgreeWithLog says of one of the last events.
LEMMA Agreement ==
  ListsAgreeWithLog <=>
    \A list \in Lists, i \in DOMAIN recent :
      HasEntry(list, recent[i]) =>
        \/ Holds(list, recent[i])
        \/ \E j \in i + 1 .. Len(recent) : SameEntry(list, recent[i], recent[j])
BY Zenon DEF ListsAgreeWithLog, Lists, Holds, SameEntry

\* The list after e: e has its entry, and the entries of other events stay.
LEMMA ListAfter ==
  ASSUME NEW list, NEW e, NEW f, NEW after,
         after = Listed(list, e)
  PROVE  /\ HasEntry(list, e) =>
              ListKey(list, e) \in DOMAIN after /\ after[ListKey(list, e)] = Record(e)
         /\ ~ SameEntry(list, f, e) /\ Holds(list, f) =>
              ListKey(list, f) \in DOMAIN after /\ after[ListKey(list, f)] = Record(f)
<1>1. CASE HasEntry(list, e)
  BY <1>1 DEF Listed, Entered, SameEntry, Holds
<1>2. CASE ~ HasEntry(list, e)
  BY <1>2 DEF Listed, Holds
<1> QED BY <1>1, <1>2

\* Nothing but concordd_handle_alarm() touches the lists.
LEMMA ListsUntouched ==
  ASSUME ListsInv, plan' = plan, recent' = recent,
         Fields \subseteq DOMAIN self', self'.event_log_last = self.event_log_last,
         self'.event_log = self.event_log,
         \A list \in Lists : self'[list] = self[list]
  PROVE  ListsInv'
BY DEF ListsInv, LogTypes, ListsAgreeWithLog, Lists

\* concordd_handle_alarm() moves every event by one place, and e takes its entries.
LEMMA AlarmListed ==
  ASSUME ListsInv, NEW e \in plan.events, HandleAlarm(e)
  PROVE  ListsInv'
<1>1. /\ LogTypes'
      /\ Len(recent') \in 1 .. LogSize /\ Len(recent') - 1 <= Len(recent)
      /\ recent'[Len(recent')] = e
      /\ \A k \in 1 .. Len(recent') - 1 :
           recent'[Len(recent') - k] = recent[Len(recent) - (k - 1)]
  BY AlarmMoves DEF ListsInv
<1>2. /\ DOMAIN recent = 1 .. Len(recent) /\ Len(recent) \in Nat
      /\ DOMAIN recent' = 1 .. Len(recent') /\ Len(recent') \in Nat
  BY <1>1 DEF ListsInv, LogTypes
<1>3. \A list \in Lists : self'[list] = Listed(list, e)
  BY DEF HandleAlarm, ListsInv, LogTypes, Fields, Lists, Classes
<1>4. ASSUME NEW list \in Lists, NEW i \in DOMAIN recent', NEW f, f = recent'[i],
             HasEntry(list, f),
             \A j \in i + 1 .. Len(recent') : ~ SameEntry(list, f, recent'[j])
      PROVE  Holds(list, f)'
  <2>1. CASE i = Len(recent')
    <3>1. f = e
      BY <1>1, <1>4, <2>1
    <3> QED BY <1>3, <1>4, <3>1, ListAfter DEF Holds
  <2>2. CASE i < Len(recent')
    <3> DEFINE was == Len(recent) - (Len(recent') - i - 1)
    <3>1. was \in DOMAIN recent /\ f = recent[was]
      <4>1. Len(recent') - i \in 1 .. Len(recent') - 1
        BY <1>2, <2>2
      <4>2. recent'[Len(recent') - (Len(recent') - i)] = recent[Len(recent) - (Len(recent') - i - 1)]
        BY <1>1, <4>1
      <4>3. Len(recent') - (Len(recent') - i) = i
        BY <1>2
      <4> QED BY <1>1, <1>2, <1>4, <2>2, <4>2, <4>3
    <3>2. ASSUME NEW j \in was + 1 .. Len(recent) PROVE ~ SameEntry(list, f, recent[j])
      <4> DEFINE k == Len(recent) - j + 1
      <4>1. /\ k \in 1 .. Len(recent') - 1 /\ Len(recent') - k \in i + 1 .. Len(recent')
            /\ Len(recent) - (k - 1) = j
        BY <1>1, <1>2, <2>2
      <4>2. recent'[Len(recent') - k] = recent[Len(recent) - (k - 1)]
        BY <1>1, <4>1
      <4>3. recent'[Len(recent') - k] = recent[j]
        BY <4>1, <4>2
      <4> HIDE DEF k
      <4> QED BY <1>4, <4>1, <4>3
    <3> HIDE DEF was
    <3>3. Holds(list, f)
      BY <1>4, <3>1, <3>2, Agreement DEF ListsInv
    <3>4. ~ SameEntry(list, f, e)
      BY <1>1, <1>2, <1>4, <2>2
    <3> QED BY <1>3, <3>3, <3>4, ListAfter DEF Holds
  <2> QED BY <1>2, <2>1, <2>2
<1>5. ASSUME NEW list \in Lists, NEW i \in DOMAIN recent', HasEntry(list, recent'[i]),
             {j \in i + 1 .. Len(recent') :
                HasEntry(list, recent'[j]) /\ ListKey(list, recent'[j]) = ListKey(list, recent'[i])} = {}
      PROVE  /\ ListKey(list, recent'[i]) \in DOMAIN self'[list]
             /\ self'[list][ListKey(list, recent'[i])] = Record(recent'[i])
  BY <1>4, <1>5 DEF SameEntry, Holds
<1>6. ListsAgreeWithLog'
  BY <1>5 DEF ListsAgreeWithLog, Lists
<1> QED BY <1>1, <1>6 DEF ListsInv

\* A list of alarms or troubles has the latest event of each type and partition
\* that the log still holds, for every size of the log and whatever the panel
\* reports: restorals and cancellations take the place of what they end.
THEOREM ListsAgree == Spec => []ListsAgreeWithLog
<1>1. Init => ListsInv
  <2> SUFFICES ASSUME Init PROVE ListsInv
    OBVIOUS
  <2>1. LogTypes
    BY LogSizes DEF Init, LogTypes, Fields
  <2>2. DOMAIN recent = {}
    BY DEF Init
  <2>3. ListsAgreeWithLog
    BY <2>2 DEF ListsAgreeWithLog
  <2> QED BY <2>1, <2>3 DEF ListsInv
<1>2. ListsInv /\ [Next]_vars => ListsInv'
  <2> SUFFICES ASSUME ListsInv, [Next]_vars PROVE ListsInv'
    OBVIOUS
  <2>1. ASSUME NEW e \in plan.events, HandleAlarm(e) PROVE ListsInv'
    BY <2>1, AlarmListed
  <2>2. CASE ThingReported
    BY <2>2, EventsUntouched, ListsUntouched DEF ListsInv, LogTypes, Fields, Lists, Classes
  <2>3. CASE ChildEnds \/ SigchldDelivered \/ Reaps \/ UNCHANGED vars
    BY <2>3, ListsUntouched DEF ChildEnds, SigchldDelivered, Reaps, vars, ListsInv, LogTypes
  <2> QED BY <2>1, <2>2, <2>3, Steps
<1>3. ListsInv => ListsAgreeWithLog
  BY DEF ListsInv
<1> QED BY <1>1, <1>2, <1>3, PTL DEF Spec

-----------------------------------------------------------------------------
(* What a client heard.                                                    *)

Told(e) == <<SignalOf(e), Record(e)>>

Signals == {Told(e) : e \in Event}

HearingInv ==
  /\ LogTypes
  /\ heard.events \in Seq(Signals) /\ Len(heard.events) <= LogSize
  /\ EventsHeardInOrder

\* As many numbers as before, each greater by d.
LEMMA Shifted ==
  ASSUME NEW S \in SUBSET Int, IsFiniteSet(S), NEW d \in Int
  PROVE  /\ IsFiniteSet({x + d : x \in S})
         /\ Cardinality({x + d : x \in S}) = Cardinality(S)
<1> DEFINE T == {x + d : x \in S}
           f == [x \in S |-> x + d]
<1>1. f \in Bijection(S, T)
  <2>1. f \in [S -> T]
    OBVIOUS
  <2>2. \A x, y \in S : f[x] = f[y] => x = y
    OBVIOUS
  <2>3. \A t \in T : \E x \in S : f[x] = t
    OBVIOUS
  <2> HIDE DEF f, T
  <2> QED BY <2>1, <2>2, <2>3 DEF Bijection, Injection, Surjection, IsInjective
<1>2. ExistsBijection(S, T)
  BY <1>1 DEF ExistsBijection
<1> QED BY <1>2, FS_Bijection

\* Nothing but concordd_handle_alarm() announces an event.
LEMMA HearingUntouched ==
  ASSUME HearingInv, LogTypes', recent' = recent, heard'.events = heard.events
  PROVE  HearingInv'
BY DEF HearingInv, EventsHeardInOrder, AnnouncedFrom

\* A client hears of the event that is handled, and what it heard before moves by
\* as many places as events were announced.
LEMMA AlarmHeard ==
  ASSUME HearingInv, NEW e \in plan.events, HandleAlarm(e)
  PROVE  HearingInv'
<1>1. /\ LogTypes'
      /\ Len(recent') \in 1 .. LogSize /\ Len(recent') - 1 <= Len(recent)
      /\ recent'[Len(recent')] = e
      /\ \A k \in 1 .. Len(recent') - 1 :
           recent'[Len(recent') - k] = recent[Len(recent) - (k - 1)]
  BY AlarmMoves DEF HearingInv
<1>2. /\ DOMAIN recent = 1 .. Len(recent) /\ Len(recent) \in Nat /\ LogSize \in Nat \ {0}
      /\ DOMAIN recent' = 1 .. Len(recent') /\ Len(recent') \in Nat
  BY <1>1, LogSizes DEF HearingInv, LogTypes
<1>3. Told(e) \in Signals
  <2>1. plan \in Plans
    BY DEF HearingInv, LogTypes
  <2>2. e \in Event
    BY <2>1, PlannedEvents
  <2> QED BY <2>2 DEF Signals
<1> DEFINE h == heard.events
           hh == heard'.events
<1>4. hh = IF IsOutput(e) THEN h ELSE Window(h, Told(e))
  BY DEF HandleAlarm, Announces, IsAnnounced, Told
<1>5. h \in Seq(Signals) /\ Len(h) <= LogSize
  BY DEF HearingInv
<1>6. /\ Window(h, Told(e)) \in Seq(Signals)
      /\ Len(Window(h, Told(e))) \in 1 .. LogSize
      /\ Len(Window(h, Told(e))) = IF Len(h) < LogSize THEN Len(h) + 1 ELSE LogSize
      /\ Window(h, Told(e))[Len(Window(h, Told(e)))] = Told(e)
      /\ \A k \in 1 .. Len(Window(h, Told(e))) - 1 :
           Window(h, Told(e))[Len(Window(h, Told(e))) - k] = h[Len(h) - (k - 1)]
  <2> HIDE DEF h, hh
  <2> DEFINE told == Told(e)
  <2>1. told \in Signals
    BY <1>3
  <2> HIDE DEF told
  <2>2. /\ Window(h, told) \in Seq(Signals)
        /\ Len(Window(h, told)) \in 1 .. LogSize
        /\ Len(Window(h, told)) = IF Len(h) < LogSize THEN Len(h) + 1 ELSE LogSize
        /\ Window(h, told)[Len(Window(h, told))] = told
        /\ \A k \in 1 .. Len(Window(h, told)) - 1 :
             Window(h, told)[Len(Window(h, told)) - k] = h[Len(h) - (k - 1)]
    BY <1>5, <2>1, WindowEntries
  <2> QED BY Zenon, <2>2 DEF told
<1> HIDE DEF h, hh
<1>7. hh \in Seq(Signals) /\ Len(hh) <= LogSize /\ Len(h) \in Nat
  BY <1>2, <1>4, <1>5, <1>6
<1>8. ASSUME NEW i \in DOMAIN recent', NEW f, f = recent'[i], ~ IsOutput(f),
             NEW S, S = {j \in i .. Len(recent') : ~ IsOutput(recent'[j])}
      PROVE  Cardinality(S) <= Len(hh) /\ hh[Len(hh) - Cardinality(S) + 1] = Told(f)
  <2>1. CASE i = Len(recent')
    <3>1. S = {i} /\ f = e
      BY <1>1, <1>2, <1>8, <2>1
    <3>2. Cardinality(S) = 1
      BY <3>1, FS_Singleton
    <3> QED BY <1>4, <1>6, <1>7, <1>8, <3>1, <3>2
  <2>2. CASE i < Len(recent')
    <3> DEFINE d == Len(recent') - Len(recent) - 1
               T == AnnouncedFrom(i - d)
    <3>1. /\ d \in Int /\ i - d \in DOMAIN recent
          /\ \A j \in i - d .. Len(recent) : recent[j] = recent'[j + d]
      <4>1. ASSUME NEW j \in i - d .. Len(recent) PROVE recent[j] = recent'[j + d]
        <5> DEFINE k == Len(recent) + 1 - j
        <5>1. /\ k \in 1 .. Len(recent') - 1
              /\ Len(recent') - k = j + d /\ Len(recent) - (k - 1) = j
          BY <1>1, <1>2, <2>2
        <5> HIDE DEF k, d
        <5>2. recent'[Len(recent') - k] = recent[Len(recent) - (k - 1)]
          BY <1>1, <5>1
        <5> QED BY <5>1, <5>2
      <4> QED BY <1>1, <1>2, <2>2, <4>1
    <3> HIDE DEF d
    <3>2. recent[i - d] = f
      BY <1>2, <1>8, <3>1
    <3>3. /\ Cardinality(T) <= Len(h)
          /\ h[Len(h) - Cardinality(T) + 1] = Told(f)
      BY <1>8, <3>1, <3>2 DEF HearingInv, EventsHeardInOrder, Told, h
    <3>4. IsFiniteSet(T) /\ Cardinality(T) \in Nat \ {0} /\ T \in SUBSET Int
      <4>1. T \in SUBSET ((i - d) .. Len(recent)) /\ i - d \in T
        BY <1>2, <1>8, <3>1, <3>2 DEF AnnouncedFrom
      <4>2. IsFiniteSet(T)
        <5>1. IsFiniteSet((i - d) .. Len(recent))
          BY <1>2, <3>1, FS_Interval
        <5> HIDE DEF T
        <5> QED BY <4>1, <5>1, FS_Subset
      <4>3. Cardinality(T) \in Nat /\ Cardinality(T) # 0
        BY <4>1, <4>2, FS_CardinalityType, FS_EmptySet
      <4> QED BY <4>1, <4>2, <4>3
    <3> DEFINE U == {x + d : x \in T}
    <3>5. IsFiniteSet(U) /\ Cardinality(U) = Cardinality(T)
      BY <3>1, <3>4, Shifted
    <3>6. Len(recent) + d = Len(recent') - 1
      BY <1>2 DEF d
    <3>7. U = {j \in i .. Len(recent') - 1 : ~ IsOutput(recent'[j])}
      <4>1. ASSUME NEW j \in i .. Len(recent') - 1, ~ IsOutput(recent'[j]) PROVE j \in U
        <5>1. j - d \in i - d .. Len(recent) /\ j - d + d = j
          BY <1>2, <3>1, <3>6
        <5>2. j - d \in T
          BY <3>1, <4>1, <5>1 DEF AnnouncedFrom
        <5> QED BY <5>1, <5>2
      <4>2. ASSUME NEW j \in U PROVE j \in i .. Len(recent') - 1 /\ ~ IsOutput(recent'[j])
        <5>1. PICK x \in T : j = x + d
          OBVIOUS
        <5> QED BY <1>2, <3>1, <3>6, <5>1 DEF AnnouncedFrom
      <4> QED BY <4>1, <4>2
    <3> HIDE DEF T, U
    <3>8. CASE IsOutput(e)
      <4>1. S = U
        BY <1>1, <1>2, <1>8, <2>2, <3>7, <3>8
      <4> QED BY <1>4, <3>3, <3>5, <3>8, <4>1
    <3>9. CASE ~ IsOutput(e)
      <4>1. S = U \union {Len(recent')} /\ Len(recent') \notin U
        BY <1>1, <1>2, <1>8, <2>2, <3>7, <3>9
      <4>2. Cardinality(S) = Cardinality(T) + 1
        BY <3>5, <4>1, FS_AddElement
      <4>3. Cardinality(S) <= LogSize
        <5>1. S \in SUBSET (1 .. Len(recent'))
          BY <1>2, <1>8
        <5>2. IsFiniteSet(1 .. Len(recent')) /\ Cardinality(1 .. Len(recent')) <= LogSize
          BY <1>1, <1>2, FS_Interval
        <5>3. Cardinality(S) <= Cardinality(1 .. Len(recent'))
          BY <5>1, <5>2, FS_Subset
        <5>4. Cardinality(1 .. Len(recent')) \in Nat
          BY <5>2, FS_CardinalityType
        <5> QED BY <1>2, <3>4, <4>2, <5>2, <5>3, <5>4
      <4>4. Cardinality(S) <= Len(hh) /\ Cardinality(T) \in 1 .. Len(hh) - 1
        <5>1. Len(hh) = IF Len(h) < LogSize THEN Len(h) + 1 ELSE LogSize
          BY Zenon, <1>4, <1>6, <3>9
        <5>2. Cardinality(T) <= Len(h)
          BY <3>3
        <5> HIDE DEF T, U
        <5> QED BY <1>2, <1>7, <3>4, <4>2, <4>3, <5>1, <5>2
      <4>5. hh[Len(hh) - Cardinality(T)] = h[Len(h) - (Cardinality(T) - 1)]
        <5>1. hh = Window(h, Told(e))
          BY <1>4, <3>9
        <5>2. \A k \in 1 .. Len(hh) - 1 : hh[Len(hh) - k] = h[Len(h) - (k - 1)]
          BY Zenon, <1>6, <5>1
        <5> QED BY <4>4, <5>2
      <4>6. /\ Len(hh) - Cardinality(S) + 1 = Len(hh) - Cardinality(T)
            /\ Len(h) - (Cardinality(T) - 1) = Len(h) - Cardinality(T) + 1
        BY <1>7, <3>4, <4>2
      <4> QED BY <3>3, <4>4, <4>5, <4>6
    <3> QED BY <3>8, <3>9
  <2> QED BY <1>2, <2>1, <2>2
<1>9. EventsHeardInOrder'
  BY <1>8 DEF EventsHeardInOrder, AnnouncedFrom, Told, hh
<1> QED BY <1>1, <1>7, <1>9 DEF HearingInv, hh

\* A client hears of every event once and in the order they were handled, for
\* every size of the log and whatever the panel reports, outputs in between.
THEOREM HeardInOrder == Spec => []EventsHeardInOrder
<1>1. Init => HearingInv
  <2> SUFFICES ASSUME Init PROVE HearingInv
    OBVIOUS
  <2>1. LogTypes
    BY LogSizes DEF Init, LogTypes, Fields
  <2>2. DOMAIN recent = {} /\ heard.events = <<>>
    BY DEF Init
  <2>3. EventsHeardInOrder
    BY <2>2 DEF EventsHeardInOrder
  <2>4. <<>> \in Seq(Signals) /\ Len(<<>>) = 0 /\ 0 <= LogSize
    BY LogSizes
  <2> QED BY <2>1, <2>2, <2>3, <2>4 DEF HearingInv
<1>2. HearingInv /\ [Next]_vars => HearingInv'
  <2> SUFFICES ASSUME HearingInv, [Next]_vars PROVE HearingInv'
    OBVIOUS
  <2>1. ASSUME NEW e \in plan.events, HandleAlarm(e) PROVE HearingInv'
    BY <2>1, AlarmHeard
  <2>2. CASE ThingReported
    BY <2>2, EventsUntouched, HearingUntouched DEF HearingInv, LogTypes, Fields
  <2>3. CASE ChildEnds \/ SigchldDelivered \/ Reaps \/ UNCHANGED vars
    BY <2>3, HearingUntouched DEF ChildEnds, SigchldDelivered, Reaps, vars, HearingInv, LogTypes
  <2> QED BY <2>1, <2>2, <2>3, Steps
<1>3. HearingInv => EventsHeardInOrder
  BY DEF HearingInv
<1> QED BY <1>1, <1>2, <1>3, PTL DEF Spec

-----------------------------------------------------------------------------
(* The children and what they were told.                                   *)

Things == {"AC", "ZONE", "LIGHT", "OUTPUT"}
Counts == [running : Nat, zombies : Nat]

\* A child was told what it is for, or fork() failed and nothing is known of it.
Followed(told, before, after) ==
  /\ DOMAIN after = Things
  /\ \A x \in Things :
       IF x \in DOMAIN told THEN after[x] \in {told[x], {}} ELSE after[x] = before[x]

\* fork() makes no zombie, and tells at most what it should.
LEMMA ForkedFollowed ==
  ASSUME NEW c \in Counts, NEW sc, DOMAIN sc = Things, NEW told,
         NEW t \in Forked([children |-> c, script |-> sc], told)
  PROVE  /\ t = [children |-> t.children, script |-> t.script]
         /\ t.children \in Counts /\ t.children.zombies = c.zombies
         /\ Followed(told, sc, t.script)
<1> DEFINE s == [children |-> c, script |-> sc]
<1>1. CASE t = [children |-> [c EXCEPT !.running = @ + 1], script |-> Knowing(sc, told, TRUE)]
  <2>1. [c EXCEPT !.running = @ + 1] \in Counts /\ [c EXCEPT !.running = @ + 1].zombies = c.zombies
    BY DEF Counts
  <2>2. Followed(told, sc, Knowing(sc, told, TRUE))
    BY DEF Knowing, Followed
  <2> QED BY <1>1, <2>1, <2>2
<1>2. CASE t = [s EXCEPT !.script = Knowing(@, told, FALSE)]
  <2>1. t = [children |-> c, script |-> Knowing(sc, told, FALSE)]
    BY <1>2
  <2>2. Followed(told, sc, Knowing(sc, told, FALSE))
    BY DEF Knowing, Followed
  <2> QED BY <2>1, <2>2
<1>3. s.children = c /\ s.script = sc
  OBVIOUS
<1> QED BY <1>1, <1>2, <1>3 DEF Forked

Types ==
  /\ children \in Counts
  /\ sigchld \in [pending : BOOLEAN, handling : BOOLEAN]
  /\ DOMAIN script = Things
  /\ Fields \subseteq DOMAIN self
  /\ self.zone_active \in BOOLEAN

\* A command that is started follows what it is told, when it is configured.
LEMMA RunsFollowed ==
  ASSUME Types, NEW command, NEW told, Runs(command, told)
  PROVE  /\ children' \in Counts /\ children'.zombies = children.zombies
         /\ IF command \in Commands THEN Followed(told, script, script') ELSE script' = script
<1>1. PICK t \in ForkedIf(command \in Commands, Here, told) :
        children' = t.children /\ script' = t.script
  BY DEF Runs
<1>2. CASE command \in Commands
  BY <1>1, <1>2, ForkedFollowed DEF ForkedIf, Here, Types
<1>3. CASE command \notin Commands
  <2>1. t = Here
    BY <1>1, <1>3 DEF ForkedIf
  <2> QED BY <1>1, <1>3, <2>1 DEF Here, Types
<1> QED BY <1>2, <1>3

\* Of the commands an event starts those for the AC power follow what it says.
LEMMA EventRunsFollowed ==
  ASSUME Types, NEW e, EventRuns(e)
  PROVE  /\ children' \in Counts /\ children'.zombies = children.zombies
         /\ IF IsAcFailure(e) /\ AcCommand(AcTold(e)) \in Commands
            THEN Followed([AC |-> {AcTold(e)}], script, script')
            ELSE Followed(<<>>, script, script')
<1> DEFINE wanted == IsAcFailure(e) /\ AcCommand(AcTold(e)) \in Commands
           told == [AC |-> {AcTold(e)}]
<1>1. PICK s \in ForkedIf(wanted, Here, told) : \E t \in Forked(s, <<>>) :
        children' = t.children /\ script' = t.script
  BY DEF EventRuns
<1>2. PICK t \in Forked(s, <<>>) : children' = t.children /\ script' = t.script
  BY <1>1
<1>3. /\ s = [children |-> s.children, script |-> s.script]
      /\ s.children \in Counts /\ s.children.zombies = children.zombies
      /\ DOMAIN s.script = Things
      /\ IF wanted THEN Followed(told, script, s.script) ELSE s.script = script
  <2>1. CASE wanted
    <3>1. s \in Forked([children |-> children, script |-> script], told)
      BY <1>1, <2>1 DEF ForkedIf, Here
    <3>2. /\ s = [children |-> s.children, script |-> s.script]
          /\ s.children \in Counts /\ s.children.zombies = children.zombies
          /\ Followed(told, script, s.script)
      BY <3>1, ForkedFollowed DEF Types
    <3> QED BY <2>1, <3>2 DEF Followed
  <2>2. CASE ~ wanted
    <3>1. s = Here
      BY <1>1, <2>2 DEF ForkedIf
    <3> QED BY <2>2, <3>1 DEF Here, Types
  <2> QED BY <2>1, <2>2
<1>4. /\ t.children \in Counts /\ t.children.zombies = s.children.zombies
      /\ Followed(<<>>, s.script, t.script)
  <2>1. t \in Forked([children |-> s.children, script |-> s.script], <<>>)
    BY <1>2, <1>3
  <2> QED BY <1>3, <2>1, ForkedFollowed
<1>5. DOMAIN <<>> = {}
  OBVIOUS
<1>6. CASE wanted
  BY <1>2, <1>3, <1>4, <1>5, <1>6 DEF Followed
<1>7. CASE ~ wanted
  BY <1>2, <1>3, <1>4, <1>7
<1> QED BY <1>6, <1>7

\* The handlers of what the panel reports make no zombies.
LEMMA HandlersFork ==
  ASSUME Types, (\E e \in plan.events : HandleAlarm(e)) \/ ThingReported
  PROVE  Types' /\ children'.zombies = children.zombies /\ sigchld' = sigchld
<1> DEFINE Forks == /\ children' \in Counts /\ children'.zombies = children.zombies
                    /\ DOMAIN script' = Things
           Active == self'.zone_active \in BOOLEAN
<1>1. ASSUME NEW command, NEW told, Runs(command, told) PROVE Forks
  BY <1>1, RunsFollowed DEF Followed, Types
<1>2. ASSUME NEW e, EventRuns(e) PROVE Forks
  BY <1>2, EventRunsFollowed DEF Followed
<1>3. ASSUME UNCHANGED <<children, script>> PROVE Forks
  BY <1>3 DEF Types
<1>4. CASE \E e \in plan.events : HandleAlarm(e)
  <2>1. PICK e \in plan.events : HandleAlarm(e)
    BY <1>4
  <2>2. Fields \subseteq DOMAIN self' /\ Active /\ sigchld' = sigchld
    BY <2>1 DEF HandleAlarm, Undisturbed, Types, Fields
  <2>3. Forks
    BY <1>1, <1>2, <1>3, <2>1 DEF HandleAlarm
  <2> QED BY <2>2, <2>3 DEF Types
<1>5. CASE ThingReported
  <2>1. Fields \subseteq DOMAIN self' /\ sigchld' = sigchld
    BY <1>5, EventsUntouched DEF Types
  <2> SUFFICES Forks /\ Active
    BY <2>1 DEF Types
  <2>2. ASSUME NEW state, ZoneReported(state) PROVE Forks /\ Active
    <3>1. Active
      BY <2>2 DEF ZoneReported, Types, Fields
    <3>2. Forks
      BY <1>1, <1>3, <2>2 DEF ZoneReported
    <3> QED BY <3>1, <3>2
  <2>3. CASE \E state \in SUBSET ZoneBits : HandleZoneStatus(state) \/ HandleEquipListZoneData(state)
    BY <2>2, <2>3 DEF HandleZoneStatus, HandleEquipListZoneData
  <2>4. CASE HandleKeyfob
    <3>1. Active
      BY <2>4 DEF HandleKeyfob, Types, Fields
    <3> QED BY <1>1, <2>4, <3>1 DEF HandleKeyfob
  <2>5. CASE \E on \in BOOLEAN : HandleUserLights(on)
    <3>1. Active
      BY <2>5 DEF HandleUserLights, Types, Fields
    <3> QED BY <1>1, <2>5, <3>1 DEF HandleUserLights
  <2>6. CASE \E on \in BOOLEAN : HandleLightsState(on)
    <3>1. Active
      BY <2>6 DEF HandleLightsState, Types, Fields
    <3> QED BY <1>1, <1>3, <2>6, <3>1 DEF HandleLightsState
  <2>7. CASE (\E on \in BOOLEAN : HandleEquipListOutputData(on)) \/ EquipmentRefresh \/ HandleTimeAndDate
    <3>1. Active
      BY <2>7 DEF HandleEquipListOutputData, EquipmentRefresh, HandleTimeAndDate, Types, Fields
    <3>2. UNCHANGED <<children, script>>
      BY <2>7 DEF HandleEquipListOutputData, EquipmentRefresh, HandleTimeAndDate
    <3> QED BY <1>3, <3>1, <3>2
  <2> QED BY <1>5, <2>3, <2>4, <2>5, <2>6, <2>7 DEF ThingReported
<1> QED BY <1>4, <1>5

\* Every step keeps the children counted, and the dead ones signalled.
LEMMA ChildrenStep ==
  ASSUME Types, [Next]_vars
  PROVE  Types' /\ (NoZombieForgotten => NoZombieForgotten')
<1>1. CASE (\E e \in plan.events : HandleAlarm(e)) \/ ThingReported
  BY <1>1, HandlersFork DEF NoZombieForgotten
<1>2. CASE ChildEnds
  <2>1. children' \in Counts
    BY <1>2 DEF ChildEnds, Types, Counts
  <2>2. sigchld' \in [pending : BOOLEAN, handling : BOOLEAN] /\ sigchld'.pending
    BY <1>2 DEF ChildEnds, Types
  <2> QED BY <1>2, <2>1, <2>2 DEF ChildEnds, Types, NoZombieForgotten
<1>3. CASE SigchldDelivered
  <2>1. sigchld' \in [pending : BOOLEAN, handling : BOOLEAN] /\ sigchld'.handling
    BY <1>3 DEF SigchldDelivered
  <2> QED BY <1>3, <2>1 DEF SigchldDelivered, Types, NoZombieForgotten
<1>4. CASE Reaps
  <2>1. children' \in Counts
    BY <1>4 DEF Reaps, Types, Counts
  <2>2. (children.zombies > 0) \in BOOLEAN
    OBVIOUS
  <2>3. sigchld' = [sigchld EXCEPT !.handling = children.zombies > 0]
    BY <1>4 DEF Reaps, HandlingAfter
  <2>4. sigchld' \in [pending : BOOLEAN, handling : BOOLEAN]
    BY <2>2, <2>3, Zenon DEF Types
  <2>5. children'.zombies > 0 => sigchld'.handling
    BY <1>4, <2>3 DEF Reaps, Types, Counts
  <2> QED BY <1>4, <2>1, <2>4, <2>5 DEF Reaps, Types, NoZombieForgotten
<1>5. CASE UNCHANGED vars
  BY <1>5 DEF vars, Types, NoZombieForgotten
<1> QED BY <1>1, <1>2, <1>3, <1>4, <1>5, Steps

\* A child that ended is reaped, however few signals the system makes of the
\* ends of many, and however many end while the handler of SIGCHLD runs.
THEOREM AllReaped == Spec => []NoZombieForgotten
<1>1. Init => Types /\ NoZombieForgotten
  BY DEF Init, Types, Counts, Things, Fields, NoZombieForgotten
<1>2. Types /\ NoZombieForgotten /\ [Next]_vars => (Types /\ NoZombieForgotten)'
  BY ChildrenStep
<1> QED BY <1>1, <1>2, PTL DEF Spec

-----------------------------------------------------------------------------
(* What clients and commands know.                                         *)

\* A command that is not configured tells nothing.  A zone that is not active was
\* not told of since it was made so; a light that never changed was never told of.
AcKnown ==
  /\ heard.ac \subseteq {self.ac_power_failure}
  /\ script.AC \subseteq {self.ac_power_failure}
  /\ "AcPowerFailure" \notin Commands => script.AC = {}

ZoneKnown ==
  /\ script.ZONE \subseteq {"TRIPPED" \in self.zone} \/ "ZONE" \in stale
  /\ "ZoneChanged" \notin Commands => script.ZONE = {}
  /\ ~ self.zone_active => script.ZONE = {} \/ "ZONE" \in stale

LightKnown ==
  /\ script.LIGHT \subseteq {self.light} \/ "LIGHT" \in stale
  /\ "LightChanged" \notin Commands => script.LIGHT = {}
  /\ ~ self.light_changed => script.LIGHT = {}

OutputKnown ==
  /\ script.OUTPUT \subseteq {self.output} \/ "OUTPUT" \in stale
  /\ "OutputChanged" \notin Commands => script.OUTPUT = {}

ScriptInv ==
  /\ Types
  /\ DOMAIN heard = {"events", "ac"}
  /\ AcKnown /\ ZoneKnown /\ LightKnown /\ OutputKnown

\* One of the two commands for the AC power alone is told of half the changes.
AcCommandsPaired == "AcPowerFailure" \in Commands <=> "AcPowerRestored" \in Commands

\* What no step touches stays known; a thing may only become stale.
LEMMA AcStays ==
  ASSUME AcKnown, heard'.ac = heard.ac, script'.AC = script.AC,
         self'.ac_power_failure = self.ac_power_failure
  PROVE  AcKnown'
BY DEF AcKnown

\* So does the zone,
LEMMA ZoneStays ==
  ASSUME ZoneKnown, script'.ZONE = script.ZONE, self'.zone = self.zone,
         self'.zone_active = self.zone_active \/ "ZONE" \in stale',
         "ZONE" \in stale => "ZONE" \in stale'
  PROVE  ZoneKnown'
BY DEF ZoneKnown

\* the light,
LEMMA LightStays ==
  ASSUME LightKnown, script'.LIGHT = script.LIGHT, self'.light = self.light,
         self'.light_changed = self.light_changed,
         "LIGHT" \in stale => "LIGHT" \in stale'
  PROVE  LightKnown'
BY DEF LightKnown

\* and the output.
LEMMA OutputStays ==
  ASSUME OutputKnown, script'.OUTPUT = script.OUTPUT, self'.output = self.output,
         "OUTPUT" \in stale => "OUTPUT" \in stale'
  PROVE  OutputKnown'
BY DEF OutputKnown

\* An alarm event leaves clients and commands told of what it stored.
LEMMA AlarmTold ==
  ASSUME AcCommandsPaired, ScriptInv, NEW e, HandleAlarm(e)
  PROVE  AcKnown' /\ ZoneKnown' /\ LightKnown' /\ OutputKnown' /\ DOMAIN heard' = {"events", "ac"}
<1>1. /\ self'.ac_power_failure = IF IsAcFailure(e) THEN AcTold(e) ELSE self.ac_power_failure
      /\ self'.zone = self.zone /\ self'.zone_active = self.zone_active
      /\ self'.light = self.light /\ self'.light_changed = self.light_changed
      /\ self'.output = OutputAfter(e)
  BY DEF HandleAlarm, ScriptInv, Types, Fields, AcTold
<1>2. /\ DOMAIN heard' = {"events", "ac"}
      /\ heard'.ac = IF IsAcFailure(e) THEN {AcTold(e)} ELSE heard.ac
  BY DEF HandleAlarm, Announces
<1>3. CASE IsAnnounced(e)
  <2>1. IF IsAcFailure(e) /\ AcCommand(AcTold(e)) \in Commands
        THEN Followed([AC |-> {AcTold(e)}], script, script')
        ELSE Followed(<<>>, script, script')
    BY <1>3, EventRunsFollowed DEF HandleAlarm, ScriptInv
  <2>2. self'.output = self.output /\ stale' = stale
    BY <1>1, <1>3 DEF OutputAfter, IsAnnounced, HandleAlarm
  <2>3. \A x \in {"ZONE", "LIGHT", "OUTPUT"} : script'[x] = script[x]
    BY <2>1 DEF Followed, Things
  <2>4. script'.AC \subseteq {self'.ac_power_failure}
        /\ ("AcPowerFailure" \notin Commands => script'.AC = {})
    <3>1. CASE IsAcFailure(e) /\ AcCommand(AcTold(e)) \in Commands
      <4>1. script'.AC \in {{AcTold(e)}, {}}
        BY <2>1, <3>1 DEF Followed, Things
      <4>2. "AcPowerFailure" \in Commands
        BY <3>1 DEF AcCommand, AcCommandsPaired
      <4> QED BY <1>1, <3>1, <4>1, <4>2
    <3>2. CASE ~ (IsAcFailure(e) /\ AcCommand(AcTold(e)) \in Commands)
      <4>1. script'.AC = script.AC
        BY <2>1, <3>2 DEF Followed, Things
      <4>2. CASE IsAcFailure(e)
        <5>1. "AcPowerFailure" \notin Commands
          BY <3>2, <4>2 DEF AcCommand, AcCommandsPaired
        <5> QED BY <4>1, <5>1 DEF ScriptInv, AcKnown
      <4>3. CASE ~ IsAcFailure(e)
        BY <1>1, <4>1, <4>3 DEF ScriptInv, AcKnown
      <4> QED BY <4>2, <4>3
    <3> QED BY <3>1, <3>2
  <2>5. AcKnown'
    BY <1>1, <1>2, <2>4 DEF AcKnown, ScriptInv
  <2>6. ZoneKnown' /\ LightKnown' /\ OutputKnown'
    BY <1>1, <2>2, <2>3, ZoneStays, LightStays, OutputStays DEF ScriptInv
  <2> QED BY <1>2, <2>5, <2>6
<1>4. CASE ~ IsAnnounced(e)
  <2>1. ~ IsAcFailure(e)
    BY <1>4 DEF IsAnnounced, IsOutput, IsAcFailure, Classes
  <2>2. CASE OutputAfter(e) # self.output
    <3> DEFINE told == [OUTPUT |-> {OutputAfter(e)}]
    <3>1. Runs("OutputChanged", told) /\ stale' = stale \ {"OUTPUT"}
      BY <1>4, <2>2 DEF HandleAlarm, ToldOf
    <3>2. IF "OutputChanged" \in Commands THEN Followed(told, script, script')
          ELSE script' = script
      BY <3>1, RunsFollowed DEF ScriptInv
    <3>3. \A x \in {"AC", "ZONE", "LIGHT"} : script'[x] = script[x]
      BY <3>2 DEF Followed, Things
    <3>4. OutputKnown'
      BY <1>1, <3>2 DEF Followed, Things, ScriptInv, OutputKnown
    <3>5. AcKnown' /\ ZoneKnown' /\ LightKnown'
      BY <1>1, <1>2, <2>1, <3>1, <3>3, AcStays, ZoneStays, LightStays DEF ScriptInv
    <3> QED BY <1>2, <3>4, <3>5
  <2>3. CASE OutputAfter(e) = self.output
    <3>1. UNCHANGED <<script, stale>>
      BY <1>4, <2>3 DEF HandleAlarm
    <3> QED BY <1>1, <1>2, <2>1, <2>3, <3>1, AcStays, ZoneStays, LightStays, OutputStays
            DEF ScriptInv
  <2> QED BY <2>2, <2>3
<1> QED BY <1>3, <1>4

\* So does a report of a zone, told or taken in silence,
LEMMA ZoneReportTold ==
  ASSUME ScriptInv, NEW state, ZoneReported(state)
  PROVE  AcKnown' /\ ZoneKnown' /\ LightKnown' /\ OutputKnown'
<1>1. /\ self'.zone = state /\ self'.zone_active = TRUE
      /\ self'.ac_power_failure = self.ac_power_failure
      /\ self'.light = self.light /\ self'.light_changed = self.light_changed
      /\ self'.output = self.output
      /\ heard' = heard
  BY DEF ZoneReported, ScriptInv, Types, Fields
<1>2. CASE self.zone_active
  <2>1. Runs(ZoneCommandFor(state), ZoneTold(state)) /\ stale' = stale \ DOMAIN ZoneTold(state)
    BY <1>2 DEF ZoneReported, ToldOf
  <2>2. IF ZoneCommandFor(state) \in Commands
        THEN Followed(ZoneTold(state), script, script') ELSE script' = script
    BY <2>1, RunsFollowed DEF ScriptInv
  <2>3. CASE ("TRIPPED" \in state) = ("TRIPPED" \in self.zone)
    <3>1. ZoneTold(state) = <<>> /\ DOMAIN <<>> = {}
      BY <2>3 DEF ZoneTold
    <3>2. stale' = stale /\ \A x \in Things : script'[x] = script[x]
      BY <2>1, <2>2, <3>1 DEF Followed
    <3>3. ZoneKnown'
      BY <1>1, <2>3, <3>2 DEF ScriptInv, ZoneKnown, Things
    <3> QED BY <1>1, <3>2, <3>3, AcStays, LightStays, OutputStays DEF ScriptInv, Things
  <2>4. CASE ("TRIPPED" \in state) # ("TRIPPED" \in self.zone)
    <3>1. ZoneTold(state) = [ZONE |-> {"TRIPPED" \in state}]
      BY <2>4 DEF ZoneTold
    <3>2. ZoneCommandFor(state) = "ZoneChanged"
      BY <2>4 DEF ZoneCommandFor, SymDiff
    <3>3. \A x \in {"AC", "LIGHT", "OUTPUT"} : script'[x] = script[x]
      BY <2>2, <3>1 DEF Followed, Things
    <3>4. stale' = stale \ {"ZONE"}
      BY <2>1, <3>1
    <3>5. ZoneKnown'
      BY <1>1, <2>2, <3>1, <3>2 DEF Followed, ScriptInv, ZoneKnown, Things
    <3> QED BY <1>1, <3>3, <3>4, <3>5, AcStays, LightStays, OutputStays DEF ScriptInv
  <2> QED BY <2>3, <2>4
<1>3. CASE ~ self.zone_active
  <2>1. UNCHANGED <<script, stale>>
    BY <1>3 DEF ZoneReported
  <2>2. ZoneKnown'
    BY <1>1, <1>3, <2>1 DEF ScriptInv, ZoneKnown
  <2> QED BY <1>1, <2>1, <2>2, AcStays, LightStays, OutputStays DEF ScriptInv
<1> QED BY <1>2, <1>3

\* a keyfob, which tells nothing of what the zone is,
LEMMA KeyfobTold ==
  ASSUME ScriptInv, HandleKeyfob
  PROVE  AcKnown' /\ ZoneKnown' /\ LightKnown' /\ OutputKnown'
<1>1. /\ self'.zone = self.zone /\ self'.zone_active = TRUE
      /\ self'.ac_power_failure = self.ac_power_failure
      /\ self'.light = self.light /\ self'.light_changed = self.light_changed
      /\ self'.output = self.output
      /\ heard' = heard /\ stale' = stale
  BY DEF HandleKeyfob, ScriptInv, Types, Fields
<1>2. IF "ZoneChanged" \in Commands THEN Followed(<<>>, script, script') ELSE script' = script
  BY RunsFollowed DEF HandleKeyfob, ScriptInv
<1>3. \A x \in Things : script'[x] = script[x]
  BY <1>2 DEF Followed
<1>4. ZoneKnown'
  BY <1>1, <1>3 DEF ScriptInv, ZoneKnown, Things
<1> QED BY <1>1, <1>3, <1>4, AcStays, LightStays, OutputStays DEF ScriptInv, Things

\* a light that was switched,
LEMMA LightSwitched ==
  ASSUME ScriptInv, NEW on, self'.light = on, self'.light_changed = TRUE,
         Runs("LightChanged", [LIGHT |-> {on}]), stale' = stale \ {"LIGHT"}
  PROVE  LightKnown' /\ \A x \in {"AC", "ZONE", "OUTPUT"} : script'[x] = script[x]
<1>1. IF "LightChanged" \in Commands THEN Followed([LIGHT |-> {on}], script, script')
      ELSE script' = script
  BY RunsFollowed DEF ScriptInv
<1> QED BY <1>1 DEF Followed, ScriptInv, LightKnown, Things

\* by its user
LEMMA UserLightsTold ==
  ASSUME ScriptInv, NEW on, HandleUserLights(on)
  PROVE  AcKnown' /\ ZoneKnown' /\ LightKnown' /\ OutputKnown'
<1>1. /\ self'.zone = self.zone /\ self'.zone_active = self.zone_active
      /\ self'.ac_power_failure = self.ac_power_failure
      /\ self'.light = on /\ self'.light_changed = TRUE
      /\ self'.output = self.output
      /\ heard' = heard
  BY DEF HandleUserLights, ScriptInv, Types, Fields
<1>2. Runs("LightChanged", [LIGHT |-> {on}]) /\ stale' = stale \ {"LIGHT"}
  BY DEF HandleUserLights, ToldOf
<1>3. LightKnown' /\ \A x \in {"AC", "ZONE", "OUTPUT"} : script'[x] = script[x]
  BY <1>1, <1>2, LightSwitched
<1> QED BY <1>1, <1>2, <1>3, AcStays, ZoneStays, OutputStays DEF ScriptInv

\* or in a report of all lights: what is not told is new, or the script is stale,
LEMMA LightsStateTold ==
  ASSUME ScriptInv, NEW on, HandleLightsState(on)
  PROVE  AcKnown' /\ ZoneKnown' /\ LightKnown' /\ OutputKnown'
<1>1. /\ self'.zone = self.zone /\ self'.zone_active = self.zone_active
      /\ self'.ac_power_failure = self.ac_power_failure
      /\ self'.light = on /\ self'.light_changed = TRUE
      /\ self'.output = self.output
      /\ heard' = heard
  BY DEF HandleLightsState, ScriptInv, Types, Fields
<1>2. CASE ~ self.refresh_pending /\ self.light_changed
  <2>1. Runs("LightChanged", [LIGHT |-> {on}]) /\ stale' = stale \ {"LIGHT"}
    BY <1>2 DEF HandleLightsState, ToldOf
  <2>2. LightKnown' /\ \A x \in {"AC", "ZONE", "OUTPUT"} : script'[x] = script[x]
    BY <1>1, <2>1, LightSwitched
  <2> QED BY <1>1, <2>1, <2>2, AcStays, ZoneStays, OutputStays DEF ScriptInv
<1>3. CASE ~ (~ self.refresh_pending /\ self.light_changed)
  <2>1. /\ script' = script
        /\ stale' = IF self.refresh_pending THEN stale \union {"LIGHT"} ELSE stale
    BY <1>3 DEF HandleLightsState
  <2>2. LightKnown'
    BY <1>1, <1>3, <2>1 DEF ScriptInv, LightKnown
  <2> QED BY <1>1, <2>1, <2>2, AcStays, ZoneStays, OutputStays DEF ScriptInv
<1> QED BY <1>2, <1>3

\* and what makes a thing stale.
LEMMA Silent ==
  ASSUME ScriptInv,
         (\E on \in BOOLEAN : HandleEquipListOutputData(on)) \/ EquipmentRefresh \/ HandleTimeAndDate
  PROVE  AcKnown' /\ ZoneKnown' /\ LightKnown' /\ OutputKnown'
<1>1. CASE \E on \in BOOLEAN : HandleEquipListOutputData(on)
  <2>1. /\ self'.zone = self.zone /\ self'.zone_active = self.zone_active
        /\ self'.ac_power_failure = self.ac_power_failure
        /\ self'.light = self.light /\ self'.light_changed = self.light_changed
        /\ heard' = heard /\ script' = script /\ stale' = stale \union {"OUTPUT"}
    BY <1>1 DEF HandleEquipListOutputData, ScriptInv, Types, Fields
  <2>2. OutputKnown'
    BY <2>1 DEF ScriptInv, OutputKnown
  <2> QED BY <2>1, <2>2, AcStays, ZoneStays, LightStays DEF ScriptInv
<1>2. CASE EquipmentRefresh
  <2>1. /\ self'.zone = self.zone
        /\ self'.ac_power_failure = self.ac_power_failure
        /\ self'.light = self.light /\ self'.light_changed = self.light_changed
        /\ self'.output = self.output
        /\ heard' = heard /\ script' = script /\ stale' = stale \union {"ZONE"}
    BY <1>2 DEF EquipmentRefresh, ScriptInv, Types, Fields
  <2> QED BY <2>1, AcStays, ZoneStays, LightStays, OutputStays DEF ScriptInv
<1>3. CASE HandleTimeAndDate
  <2>1. /\ self'.zone = self.zone /\ self'.zone_active = self.zone_active
        /\ self'.ac_power_failure = self.ac_power_failure
        /\ self'.light = self.light /\ self'.light_changed = self.light_changed
        /\ self'.output = self.output
        /\ heard' = heard /\ script' = script /\ stale' = stale
    BY <1>3 DEF HandleTimeAndDate, ScriptInv, Types, Fields
  <2> QED BY <2>1, AcStays, ZoneStays, LightStays, OutputStays DEF ScriptInv
<1> QED BY <1>1, <1>2, <1>3

\* Every step leaves clients and commands told of what is stored.
LEMMA ScriptStep ==
  ASSUME AcCommandsPaired, ScriptInv, Types', [Next]_vars
  PROVE  ScriptInv'
<1>1. ASSUME NEW e \in plan.events, HandleAlarm(e) PROVE ScriptInv'
  BY <1>1, AlarmTold DEF ScriptInv
<1>2. CASE ThingReported
  <2>1. heard' = heard
    BY <1>2, EventsUntouched DEF ScriptInv, Types
  <2>2. AcKnown' /\ ZoneKnown' /\ LightKnown' /\ OutputKnown'
    <3>1. CASE \E state \in SUBSET ZoneBits : HandleZoneStatus(state) \/ HandleEquipListZoneData(state)
      BY <3>1, ZoneReportTold DEF HandleZoneStatus, HandleEquipListZoneData
    <3>2. CASE HandleKeyfob
      BY <3>2, KeyfobTold
    <3>3. CASE \E on \in BOOLEAN : HandleUserLights(on)
      BY <3>3, UserLightsTold
    <3>4. CASE \E on \in BOOLEAN : HandleLightsState(on)
      BY <3>4, LightsStateTold
    <3>5. CASE (\E on \in BOOLEAN : HandleEquipListOutputData(on)) \/ EquipmentRefresh \/ HandleTimeAndDate
      BY <3>5, Silent
    <3> QED BY <1>2, <3>1, <3>2, <3>3, <3>4, <3>5 DEF ThingReported
  <2> QED BY <2>1, <2>2 DEF ScriptInv
<1>3. CASE ChildEnds \/ SigchldDelivered \/ Reaps \/ UNCHANGED vars
  <2>1. UNCHANGED <<self, heard, script, stale>>
    BY <1>3 DEF ChildEnds, SigchldDelivered, Reaps, vars
  <2> QED BY <2>1, AcStays, ZoneStays, LightStays, OutputStays DEF ScriptInv
<1> QED BY <1>1, <1>2, <1>3, Steps

\* What a client and the commands were told last of the AC power, the zone, the
\* light and the output is so, whatever the panel reports, whichever commands
\* are configured, whenever children end and fork() fails; with the commands for
\* the AC power both there or neither.  Only a zone since a refresh began, a light
\* in a report of all during one, and an output that was listed may be stored and
\* not told, and each is told right again with its next command.
THEOREM Informed == ASSUME AcCommandsPaired PROVE Spec => []ScriptsKnow
<1>1. Init => ScriptInv
  <2> SUFFICES ASSUME Init PROVE ScriptInv
    OBVIOUS
  <2>1. Types /\ DOMAIN heard = {"events", "ac"}
    BY DEF Init, Types, Counts, Things, Fields
  <2>2. AcKnown /\ ZoneKnown /\ LightKnown /\ OutputKnown
    BY DEF Init, AcKnown, ZoneKnown, LightKnown, OutputKnown
  <2> QED BY <2>1, <2>2 DEF ScriptInv
<1>2. ScriptInv /\ [Next]_vars => ScriptInv'
  <2> SUFFICES ASSUME ScriptInv, [Next]_vars PROVE ScriptInv'
    OBVIOUS
  <2>1. Types'
    BY ChildrenStep DEF ScriptInv
  <2> QED BY <2>1, ScriptStep
<1>3. ScriptInv => ScriptsKnow
  BY DEF ScriptInv, ScriptsKnow, AcKnown, ZoneKnown, LightKnown, OutputKnown
<1> QED BY <1>1, <1>2, <1>3, PTL DEF Spec
=============================================================================
