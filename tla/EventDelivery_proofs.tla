------------------------- MODULE EventDelivery_proofs -------------------------
(***************************************************************************)
(* Proofs about EventDelivery, for any jobs and hosts, any number of       *)
(* events per list, any batch sizes and any number of retries.             *)
(*                                                                         *)
(* Neither property is inductive.  What is: of the lists before the one    *)
(* being sent everything is stored, of that one the events before the      *)
(* batch being sent, and of the lists after it nothing.  That a batch      *)
(* begins where the one before ended, and that the last one ends the list, *)
(* is the arithmetic of TotalBatches (Cut).                                *)
(***************************************************************************)
EXTENDS EventDelivery, TLAPS

\* The first m events of list k of job j have their rows, and the known
\* players among them whose events name ranks theirs.
StoredUpTo(j, k, m) ==
  \A e \in 1..m :
    /\ k # "match" /\ (k = "achievements" => e \in Known) => e \in StoredOf(j, k)
    /\ k = "player-match" /\ e \in Known \cap Ranked => <<j, e>> \in ranks
ListStored(j, k) == /\ StoredUpTo(j, k, load[j][k])
                    /\ k = "match" => j \in updated

Sending(j) == stage[j] \in {"write", "url", "post"}
\* What holds of job j between two steps.
SentSoFar(j) ==
  /\ \A i \in 1..10 : i < list[j] => ListStored(j, Lists[i])
  /\ stage[j] = "done" => \A i \in 1..10 : ListStored(j, Lists[i])
  /\ stage[j] = "enter" => chunk[j] = 0
  /\ Sending(j) => /\ Kind(j) = "match" \/ Count(j) > 0
                   /\ chunk[j] < TotalBatches(j)
                   /\ StoredUpTo(j, Kind(j), Start(j))

EventTypes == /\ load \in [Jobs -> Loads]
              /\ list \in [Jobs -> 1..10]
              /\ chunk \in [Jobs -> Nat]
              /\ stage \in [Jobs -> Stages]
NothingAhead == \A row \in rows :
  row.job \in Jobs /\ \E i \in 1..10 : i <= list[row.job] /\ row.kind = Lists[i]
EventInv == EventTypes /\ (\A j \in Jobs : SentSoFar(j)) /\ NothingAhead

-----------------------------------------------------------------------------
(* The lists and their batches.                                            *)

LEMMA TenLists ==
  /\ Len(Lists) = 10 /\ DOMAIN Lists = 1..10
  /\ \A i, k \in 1..10 : Lists[i] = Lists[k] => i = k
  /\ \A i \in 1..10 : Lists[i] \in Kinds
  /\ "match" \in Kinds /\ "player-match" \in Kinds
  /\ \A k \in Kinds : \E i \in 1..10 : k = Lists[i]
<1>1. Len(Lists) = 10 /\ DOMAIN Lists = 1..10
  BY DEF Lists
<1>2. \A i, k \in 1..10 : Lists[i] = Lists[k] => i = k
  BY DEF Lists
<1>3. Lists[1] = "match" /\ Lists[7] = "player-match"
  BY DEF Lists
<1> QED
  BY <1>1, <1>2, <1>3 DEF Kinds

LEMMA EachList ==
  Kinds = {"match", "round", "damage", "grenade", "gunfight", "player-round",
           "player-match", "aim", "aim-weapon", "achievements"}
<1>1. Kinds = {Lists[i] : i \in 1..10}
  BY TenLists DEF Kinds
<1> QED
  BY <1>1 DEF Lists

\* Cutting n events into batches of s: every batch begins within the events, only
\* the last one reaches their end, and the others end where the next begins.
LEMMA Cut ==
  ASSUME NEW n \in Nat, NEW s \in Nat, NEW c \in Nat, n > 0, s > 0,
         c < (n + s - 1) \div s
  PROVE  /\ c * s < n /\ c * s \in Nat
         /\ c = ((n + s - 1) \div s) - 1 => c * s + s >= n
         /\ c # ((n + s - 1) \div s) - 1 =>
              c + 1 < (n + s - 1) \div s /\ c * s + s <= n /\ (c + 1) * s = c * s + s
<1> DEFINE t == (n + s - 1) \div s
<1>1. t \in Int /\ t * s <= n + s - 1 /\ n + s - 1 < t * s + s
  OBVIOUS
<1> HIDE DEF t
<1>2. c * s \in Nat /\ (c + 1) * s = c * s + s
  OBVIOUS
<1>3. c + 1 <= t
  BY DEF t
<1>4. (c + 1) * s <= t * s
  BY <1>1, <1>3
<1> QED
  BY <1>1, <1>2, <1>3, <1>4 DEF t
-----------------------------------------------------------------------------
(* What a step does to what is stored.                                     *)

\* Rows, ranks and updates are only added: what is stored stays.
LEMMA StoredStays ==
  ASSUME rows \subseteq rows', ranks \subseteq ranks', updated \subseteq updated',
         UNCHANGED load, NEW j, NEW k
  PROVE  /\ \A m : StoredUpTo(j, k, m) => StoredUpTo(j, k, m)'
         /\ ListStored(j, k) => ListStored(j, k)'
<1>1. StoredOf(j, k) \subseteq StoredOf(j, k)'
  BY DEF StoredOf
<1>2. ASSUME NEW m, StoredUpTo(j, k, m) PROVE StoredUpTo(j, k, m)'
  BY <1>1, <1>2 DEF StoredUpTo
<1> QED
  BY <1>2 DEF ListStored, StoredUpTo

\* A bulk insert adds one row per event, all of the batch's job and list.
LEMMA Inserted ==
  ASSUME NEW j \in Jobs, NEW k, k = Kind(j), NEW events, InsertRows(j, events)
  PROVE  /\ rows \subseteq rows'
         /\ \A row \in rows' : row \in rows \/ (row.job = j /\ row.kind = k)
         /\ events \subseteq StoredOf(j, k)'
<1> DEFINE Row(e) == [job |-> j, kind |-> k, event |-> e,
                      chunk |-> chunk[j], sent |-> attempt[j]]
<1>1. rows' = rows \cup {Row(e) : e \in events}
  BY DEF InsertRows
<1>2. \A e : Row(e).job = j /\ Row(e).kind = k /\ Row(e).event = e
  OBVIOUS
<1> HIDE DEF Row
<1>3. rows \subseteq rows'
  BY <1>1
<1>4. \A row \in rows' : row \in rows \/ (row.job = j /\ row.kind = k)
  BY <1>1, <1>2
<1>5. ASSUME NEW e \in events PROVE e \in StoredOf(j, k)'
  <2>1. Row(e) \in rows'
    BY <1>1
  <2> QED
    BY <1>2, <2>1 DEF StoredOf
<1> QED
  BY <1>3, <1>4, <1>5

\* The web application stores the due events of the batch it is sent.
LEMMA BatchStored ==
  ASSUME NEW j \in Jobs, NEW k \in Kinds, k = Kind(j), createMatchEvent(j)
  PROVE  /\ rows \subseteq rows' /\ ranks \subseteq ranks' /\ updated \subseteq updated'
         /\ \A row \in rows' : row \in rows \/ (row.job = j /\ row.kind = k)
         /\ k = "match" => j \in updated'
         /\ \A e \in Batch(j) :
              /\ k # "match" /\ (k = "achievements" => e \in Known) => e \in StoredOf(j, k)'
              /\ k = "player-match" /\ e \in Known \cap Ranked => <<j, e>> \in ranks'
<1>1. CASE k = "match"
  BY <1>1 DEF createMatchEvent, updateMatchData
<1>2. CASE k = "player-match"
  <2>1. /\ InsertRows(j, Batch(j))
        /\ ranks' = ranks \cup {<<j, e>> : e \in Batch(j) \cap Known \cap Ranked}
        /\ UNCHANGED updated
    BY <1>2 DEF createMatchEvent, createPlayerMatchEvent, RanksOf
  <2>2. /\ rows \subseteq rows'
        /\ \A row \in rows' : row \in rows \/ (row.job = j /\ row.kind = k)
        /\ Batch(j) \subseteq StoredOf(j, k)'
    BY <2>1, Inserted
  <2>3. \A e \in Batch(j) : e \in Known \cap Ranked => <<j, e>> \in ranks'
    BY <2>1
  <2>4. ranks \subseteq ranks'
    BY <2>1
  <2> QED
    BY <1>2, <2>1, <2>2, <2>3, <2>4
<1>3. CASE k = "achievements"
  <2>1. InsertRows(j, Batch(j) \cap Known) /\ UNCHANGED <<ranks, updated>>
    BY <1>3 DEF createMatchEvent, createAchievements, NoRanks
  <2>2. /\ rows \subseteq rows'
        /\ \A row \in rows' : row \in rows \/ (row.job = j /\ row.kind = k)
        /\ Batch(j) \cap Known \subseteq StoredOf(j, k)'
    BY <2>1, Inserted
  <2> QED
    BY <1>3, <2>1, <2>2
<1>4. CASE k \in Kinds \ {"match", "player-match", "achievements"}
  <2>1. InsertRows(j, Batch(j)) /\ UNCHANGED <<ranks, updated>>
    <3>1. k \in {"round", "damage", "grenade", "gunfight", "player-round", "aim",
                 "aim-weapon"}
      BY <1>4, TenLists, EachList
    <3> QED
      BY <3>1 DEF createMatchEvent, createRoundEvent, createDamageEvent,
         createGrenadeEvent, createGunfightEvent, createPlayerRoundEvent,
         createAimEvent, createAimWeaponEvent, NoRanks
  <2>2. /\ rows \subseteq rows'
        /\ \A row \in rows' : row \in rows \/ (row.job = j /\ row.kind = k)
        /\ Batch(j) \subseteq StoredOf(j, k)'
    BY <2>1, Inserted
  <2> QED
    BY <1>4, <2>1, <2>2
<1> QED
  BY <1>1, <1>2, <1>3, <1>4

\* Of a list of which the events before the batch are stored, those before its
\* end are once the batch is.
LEMMA BatchExtends ==
  ASSUME NEW j \in Jobs, NEW k \in Kinds, k = Kind(j), createMatchEvent(j),
         Start(j) \in Nat, End(j) \in Nat, StoredUpTo(j, k, Start(j)),
         NEW m \in Nat, m <= End(j)
  PROVE  StoredUpTo(j, k, m)'
<1> SUFFICES ASSUME NEW e \in 1..m
             PROVE  /\ k # "match" /\ (k = "achievements" => e \in Known)
                          => e \in StoredOf(j, k)'
                    /\ k = "player-match" /\ e \in Known \cap Ranked => <<j, e>> \in ranks'
  BY DEF StoredUpTo
<1>1. CASE e \in 1..Start(j)
  <2>1. /\ k # "match" /\ (k = "achievements" => e \in Known) => e \in StoredOf(j, k)
        /\ k = "player-match" /\ e \in Known \cap Ranked => <<j, e>> \in ranks
    BY <1>1 DEF StoredUpTo
  <2>2. rows \subseteq rows' /\ ranks \subseteq ranks'
    BY BatchStored
  <2>3. StoredOf(j, k) \subseteq StoredOf(j, k)'
    BY <2>2 DEF StoredOf
  <2> QED
    BY <2>1, <2>2, <2>3
<1>2. CASE e \in Batch(j)
  BY <1>2, BatchStored
<1> QED
  BY <1>1, <1>2 DEF Batch

-----------------------------------------------------------------------------
(* Where a job stands.                                                     *)

\* The batch being sent lies within its list, the last one ends it, and the
\* others end where the next one begins.
LEMMA BatchBounds ==
  ASSUME EventTypes, NEW j \in Jobs, Kind(j) = "match" \/ Count(j) > 0,
         chunk[j] < TotalBatches(j)
  PROVE  /\ Start(j) \in Nat /\ End(j) \in Nat /\ Count(j) \in Nat
         /\ IsLast(j) => End(j) = Count(j)
         /\ ~IsLast(j) => /\ chunk[j] + 1 < TotalBatches(j)
                          /\ (chunk[j] + 1) * Size(j) = End(j)
<1>1. Kind(j) \in Kinds
  BY TenLists DEF EventTypes, Kind
<1>2. Count(j) \in Nat
  <2>1. load[j] \in [Kinds -> Nat]
    BY LoadsAssumption DEF EventTypes
  <2> QED
    BY <1>1, <2>1 DEF Count
<1>3. chunk[j] \in Nat
  BY DEF EventTypes
<1>4. CASE Kind(j) = "match"
  <2>1. Size(j) = Count(j) /\ TotalBatches(j) = 1
    BY <1>4 DEF Size, TotalBatches, Batched
  <2>2. chunk[j] = 0
    BY <1>3, <2>1
  <2> QED
    BY <1>2, <2>1, <2>2 DEF Start, End, IsLast
<1>5. CASE Kind(j) # "match"
  <2>1. Size(j) \in Nat /\ Size(j) > 0
    BY <1>2, <1>5, SizeAssumption DEF Size
  <2>2. TotalBatches(j) = (Count(j) + Size(j) - 1) \div Size(j)
    BY <1>5 DEF TotalBatches
  <2> DEFINE c == chunk[j]
             n == Count(j)
             s == Size(j)
             t == TotalBatches(j)
  <2>3. /\ n \in Nat /\ s \in Nat /\ c \in Nat /\ n > 0 /\ s > 0
        /\ t = (n + s - 1) \div s /\ c < t
    BY <1>2, <1>3, <1>5, <2>1, <2>2
  <2>4. Start(j) = c * s /\ End(j) = IF c * s + s > n THEN n ELSE c * s + s
    BY DEF Start, End
  <2>5. IsLast(j) <=> c = TotalBatches(j) - 1
    BY DEF IsLast
  <2> HIDE DEF c, n, s, t
  <2>6. /\ c * s < n /\ c * s \in Nat
        /\ c = t - 1 => c * s + s >= n
        /\ c # t - 1 => c + 1 < t /\ c * s + s <= n /\ (c + 1) * s = c * s + s
    BY <2>3, Cut
  <2> DEFINE p == c * s
  <2>7. p \in Nat /\ n \in Nat /\ s \in Nat
    BY <2>3, <2>6
  <2> HIDE DEF p
  <2>8. End(j) = IF p + s > n THEN n ELSE p + s
    BY <2>4 DEF p
  <2>9. c = t - 1 => p + s >= n
    BY <2>6 DEF p
  <2>10. c # t - 1 => c + 1 < t /\ p + s <= n /\ (c + 1) * s = p + s
    BY <2>6 DEF p
  <2>11. End(j) \in Nat /\ (p + s >= n => End(j) = n) /\ (p + s <= n => End(j) = p + s)
    BY <2>7, <2>8
  <2>12. IsLast(j) => End(j) = Count(j)
    BY <2>5, <2>9, <2>11 DEF n, t
  <2>13. ~IsLast(j) => /\ chunk[j] + 1 < TotalBatches(j)
                       /\ (chunk[j] + 1) * Size(j) = End(j)
    BY <2>5, <2>10, <2>11 DEF c, s, t
  <2>14. Start(j) \in Nat
    BY <2>4, <2>7 DEF p
  <2> QED
    BY <1>2, <2>11, <2>12, <2>13, <2>14
<1> QED
  BY <1>4, <1>5

\* Once the list being sent is stored too, the job may go on to the next.
LEMMA Advance ==
  ASSUME EventTypes, NEW j \in Jobs, NextList(j),
         \A i \in 1..10 : i <= list[j] => ListStored(j, Lists[i])'
  PROVE  SentSoFar(j)'
<1>1. list[j] \in 1..10 /\ Len(Lists) = 10
  BY TenLists DEF EventTypes
<1>2. CASE list[j] < 10
  <2>1. list'[j] = list[j] + 1 /\ chunk'[j] = 0 /\ stage'[j] = "enter"
    BY <1>1, <1>2 DEF EventTypes, NextList, Goto
  <2>2. \A i \in 1..10 : i < list'[j] => i <= list[j]
    BY <1>1, <2>1
  <2> QED
    BY <2>1, <2>2 DEF SentSoFar, Sending
<1>3. CASE list[j] = 10
  <2>1. list'[j] = 10 /\ stage'[j] = "done"
    BY <1>1, <1>3 DEF EventTypes, NextList, Goto
  <2>2. \A i \in 1..10 : ListStored(j, Lists[i])'
    BY <1>3
  <2> QED
    BY <2>1, <2>2 DEF SentSoFar, Sending
<1> QED
  BY <1>1, <1>2, <1>3

\* A job that no step is about stays where it is; so does one whose step only
\* goes from one stage of sending to another.
LEMMA Stays ==
  ASSUME EventTypes, rows \subseteq rows', ranks \subseteq ranks',
         updated \subseteq updated', UNCHANGED load, NEW j \in Jobs,
         list'[j] = list[j], chunk'[j] = chunk[j],
         stage'[j] = stage[j] \/ (Sending(j) /\ stage'[j] \in {"url", "post", "failed"}),
         SentSoFar(j)
  PROVE  SentSoFar(j)'
<1>1. Kind(j)' = Kind(j) /\ Count(j)' = Count(j)
  BY DEF Kind, Count
<1>2. Size(j)' = Size(j)
  BY <1>1 DEF Size
<1>3. TotalBatches(j)' = TotalBatches(j) /\ Start(j)' = Start(j)
  BY <1>1, <1>2 DEF TotalBatches, Start
<1>4. \A i \in 1..10 : i < list'[j] => ListStored(j, Lists[i])'
  BY StoredStays DEF SentSoFar
<1>5. stage'[j] = "done" => \A i \in 1..10 : ListStored(j, Lists[i])'
  BY StoredStays DEF SentSoFar
<1>6. stage'[j] = "enter" => chunk'[j] = 0
  BY DEF SentSoFar
<1>7. Sending(j)' => /\ Kind(j)' = "match" \/ Count(j)' > 0
                     /\ chunk'[j] < TotalBatches(j)'
                     /\ StoredUpTo(j, Kind(j), Start(j))'
  <2> SUFFICES ASSUME Sending(j)'
               PROVE  /\ Kind(j)' = "match" \/ Count(j)' > 0
                      /\ chunk'[j] < TotalBatches(j)'
                      /\ StoredUpTo(j, Kind(j), Start(j))'
    OBVIOUS
  <2>1. Sending(j)
    BY DEF Sending
  <2>2. PICK k, m : k = Kind(j) /\ m = Start(j)
    OBVIOUS
  <2>3. StoredUpTo(j, k, m)'
    BY <2>1, <2>2, StoredStays DEF SentSoFar
  <2>4. k = Kind(j)' /\ m = Start(j)'
    BY <1>1, <1>3, <2>2
  <2>5. StoredUpTo(j, Kind(j), Start(j))'
    BY <2>3, <2>4 DEF StoredUpTo
  <2> QED
    BY <1>1, <1>3, <2>1, <2>5 DEF SentSoFar
<1> QED
  BY <1>4, <1>5, <1>6, <1>7 DEF SentSoFar

-----------------------------------------------------------------------------
(* The steps.                                                              *)

\* A Send function skips an empty list, of which nothing is due.
LEMMA SendListKeeps ==
  ASSUME EventInv, NEW j \in Jobs, NEW kind \in Kinds, SendList(j, kind)
  PROVE  SentSoFar(j)'
<1>1. /\ UNCHANGED <<load, rows, ranks, updated>> /\ stage[j] = "enter"
      /\ Kind(j) = kind
  BY DEF SendList
<1>2. list[j] \in 1..10 /\ stage \in [Jobs -> Stages] /\ chunk[j] \in Nat
  BY DEF EventInv, EventTypes
<1>3. Count(j) \in Nat
  <2>1. load[j] \in [Kinds -> Nat]
    BY LoadsAssumption DEF EventInv, EventTypes
  <2> QED
    BY <1>1, <2>1 DEF Count
<1>4. CASE kind # "match" /\ Count(j) = 0
  <2>1. NextList(j)
    BY <1>4 DEF SendList
  <2>2. ListStored(j, Lists[list[j]])
    BY <1>1, <1>4 DEF ListStored, StoredUpTo, Count, Kind
  <2>3. \A i \in 1..10 : i <= list[j] => ListStored(j, Lists[i])
    BY <1>2, <2>2 DEF EventInv, SentSoFar
  <2>4. \A i \in 1..10 : i <= list[j] => ListStored(j, Lists[i])'
    BY <1>1, <2>3, StoredStays
  <2> QED
    BY <2>1, <2>4, Advance DEF EventInv
<1>5. CASE ~(kind # "match" /\ Count(j) = 0)
  <2>1. UNCHANGED <<list, chunk>> /\ stage'[j] = "write"
    BY <1>2, <1>5 DEF SendList, Goto
  <2>2. Kind(j)' = Kind(j) /\ Count(j)' = Count(j)
    BY <1>1, <2>1 DEF Kind, Count
  <2>3. TotalBatches(j)' = TotalBatches(j) /\ Start(j)' = Start(j)
    BY <1>1, <2>1, <2>2 DEF TotalBatches, Start, Size
  <2>4. chunk[j] = 0
    BY <1>1 DEF EventInv, SentSoFar
  <2>5. TotalBatches(j) > 0 /\ Start(j) = 0
    <3>1. CASE kind = "match"
      BY <1>1, <1>3, <2>4, <3>1 DEF TotalBatches, Start, Size, Batched
    <3>2. CASE kind # "match"
      <4>1. Size(j) \in Nat /\ Size(j) > 0
        BY <1>1, <1>3, <1>5, <3>2, SizeAssumption DEF Size
      <4>2. Count(j) > 0
        BY <1>3, <1>5, <3>2
      <4>3. \A n, s \in Nat : n > 0 /\ s > 0 => (n + s - 1) \div s > 0
        OBVIOUS
      <4> QED
        BY <1>1, <1>3, <2>4, <3>2, <4>1, <4>2, <4>3 DEF TotalBatches, Start
    <3> QED
      BY <3>1, <3>2
  <2>6. \A i \in 1..10 : i < list'[j] => ListStored(j, Lists[i])'
    BY <1>1, <2>1, StoredStays DEF EventInv, SentSoFar
  <2>7. StoredUpTo(j, Kind(j), Start(j))'
    BY <2>3, <2>5 DEF StoredUpTo
  <2> QED
    BY <1>1, <1>3, <1>5, <2>1, <2>2, <2>3, <2>4, <2>5, <2>6, <2>7 DEF SentSoFar, Sending
<1> QED
  BY <1>4, <1>5

\* The batch is stored, and the answer comes: the next batch or list is sent.
LEMMA AcknowledgedKeeps ==
  ASSUME EventInv, NEW j \in Jobs, stage[j] = "post", createMatchEvent(j), Acknowledged(j)
  PROVE  SentSoFar(j)'
<1>1. UNCHANGED load /\ list[j] \in 1..10
  BY DEF Acknowledged, EventInv, EventTypes
<1>2. PICK k \in Kinds : k = Kind(j)
  BY TenLists DEF EventInv, EventTypes, Kind
<1>3. /\ Kind(j) = "match" \/ Count(j) > 0
      /\ chunk[j] < TotalBatches(j)
      /\ StoredUpTo(j, k, Start(j))
  BY <1>2 DEF EventInv, SentSoFar, Sending
<1>4. /\ Start(j) \in Nat /\ End(j) \in Nat /\ Count(j) \in Nat
      /\ IsLast(j) => End(j) = Count(j)
      /\ ~IsLast(j) => /\ chunk[j] + 1 < TotalBatches(j)
                       /\ (chunk[j] + 1) * Size(j) = End(j)
  BY <1>3, BatchBounds DEF EventInv
<1>5. /\ rows \subseteq rows' /\ ranks \subseteq ranks' /\ updated \subseteq updated'
      /\ k = "match" => j \in updated'
  BY <1>2, BatchStored
<1>6. \A m \in Nat : m <= End(j) => StoredUpTo(j, k, m)'
  BY <1>2, <1>3, <1>4, BatchExtends
<1>7. \A i \in 1..10 : i < list[j] => ListStored(j, Lists[i])'
  BY <1>1, <1>5, StoredStays DEF EventInv, SentSoFar
<1>8. CASE IsLast(j)
  <2>1. NextList(j)
    BY <1>8 DEF Acknowledged
  <2>2. ListStored(j, k)'
    <3>1. PICK m \in Nat : m = End(j)
      BY <1>4
    <3>2. m = load'[j][k]
      BY <1>1, <1>2, <1>4, <1>8, <3>1 DEF Count
    <3>3. StoredUpTo(j, k, m)'
      BY <1>6, <3>1
    <3> QED
      BY <1>5, <3>2, <3>3 DEF ListStored, StoredUpTo
  <2>3. \A i \in 1..10 : i <= list[j] => ListStored(j, Lists[i])'
    <3> SUFFICES ASSUME NEW i \in 1..10, i <= list[j] PROVE ListStored(j, Lists[i])'
      OBVIOUS
    <3>1. CASE i < list[j]
      BY <1>7, <3>1
    <3>2. CASE i = list[j]
      BY <1>2, <2>2, <3>2 DEF Kind, ListStored, StoredUpTo
    <3> QED
      BY <1>1, <3>1, <3>2
  <2> QED
    BY <2>1, <2>3, Advance DEF EventInv
<1>9. CASE ~IsLast(j)
  <2>1. UNCHANGED list /\ chunk'[j] = chunk[j] + 1 /\ stage'[j] = "url"
    BY <1>9 DEF Acknowledged, Goto, EventInv, EventTypes
  <2>2. Kind(j)' = k /\ Count(j)' = Count(j)
    BY <1>1, <1>2, <2>1 DEF Kind, Count
  <2>3. TotalBatches(j)' = TotalBatches(j) /\ Size(j)' = Size(j)
    BY <1>1, <1>2, <2>2 DEF TotalBatches, Size
  <2>4. Start(j)' = End(j)
    BY <1>4, <1>9, <2>1, <2>3 DEF Start
  <2>5. PICK m \in Nat : m = End(j)
    BY <1>4
  <2>6. StoredUpTo(j, k, m)'
    BY <1>6, <2>5
  <2>7. StoredUpTo(j, Kind(j), Start(j))'
    BY <2>2, <2>4, <2>5, <2>6 DEF StoredUpTo
  <2>8. (Kind(j)' = "match" \/ Count(j)' > 0) /\ chunk'[j] < TotalBatches(j)'
    BY <1>2, <1>3, <1>4, <1>9, <2>1, <2>2, <2>3
  <2> QED
    BY <1>7, <2>1, <2>7, <2>8 DEF SentSoFar, Sending
<1> QED
  BY <1>8, <1>9

-----------------------------------------------------------------------------
(* The invariant.                                                          *)

\* A step moves one job forward and adds rows of the list it is sending.
Moves(j) == \E l \in 1..10, c \in Nat, s \in Stages :
  /\ list[j] <= l
  /\ list' = [list EXCEPT ![j] = l]
  /\ chunk' = [chunk EXCEPT ![j] = c]
  /\ stage' = [stage EXCEPT ![j] = s]
Grows(j) ==
  /\ UNCHANGED load
  /\ rows \subseteq rows' /\ ranks \subseteq ranks' /\ updated \subseteq updated'
  /\ \A row \in rows' : row \in rows \/ (row.job = j /\ row.kind = Kind(j))

LEMMA OneJob ==
  ASSUME EventInv, NEW j \in Jobs, Moves(j), Grows(j), SentSoFar(j)'
  PROVE  EventInv'
<1>1. PICK l \in 1..10, c \in Nat, s \in Stages :
        /\ list[j] <= l
        /\ list' = [list EXCEPT ![j] = l]
        /\ chunk' = [chunk EXCEPT ![j] = c]
        /\ stage' = [stage EXCEPT ![j] = s]
  BY DEF Moves
<1>2. EventTypes'
  BY <1>1 DEF EventInv, EventTypes, Grows
<1>3. ASSUME NEW i \in Jobs PROVE SentSoFar(i)'
  <2>1. CASE i = j
    BY <2>1
  <2>2. CASE i # j
    <3>1. list'[i] = list[i] /\ chunk'[i] = chunk[i] /\ stage'[i] = stage[i]
      BY <1>1, <2>2 DEF EventInv, EventTypes
    <3> QED
      BY <3>1, Stays DEF EventInv, Grows
  <2> QED
    BY <2>1, <2>2
<1>4. NothingAhead'
  <2> SUFFICES ASSUME NEW row \in rows'
               PROVE  /\ row.job \in Jobs
                      /\ \E i \in 1..10 : i <= list'[row.job] /\ row.kind = Lists[i]
    BY DEF NothingAhead
  <2>1. \A i \in Jobs : list[i] \in 1..10 /\ list'[i] \in 1..10 /\ list[i] <= list'[i]
    BY <1>1 DEF EventInv, EventTypes
  <2>2. CASE row \in rows
    <3>1. PICK i \in 1..10 : i <= list[row.job] /\ row.kind = Lists[i]
      BY <2>2 DEF EventInv, NothingAhead
    <3>2. row.job \in Jobs
      BY <2>2 DEF EventInv, NothingAhead
    <3> QED
      BY <2>1, <3>1, <3>2
  <2>3. CASE row.job = j /\ row.kind = Kind(j)
    BY <2>1, <2>3 DEF Kind
  <2> QED
    BY <2>2, <2>3 DEF Grows
<1> QED
  BY <1>2, <1>3, <1>4 DEF EventInv

LEMMA MovesTo ==
  ASSUME NEW j, NEW l \in 1..10, NEW c \in Nat, NEW s \in Stages, list[j] <= l,
         list' = [list EXCEPT ![j] = l], chunk' = [chunk EXCEPT ![j] = c],
         stage' = [stage EXCEPT ![j] = s]
  PROVE  Moves(j)
BY Zenon DEF Moves

LEMMA NextListMoves ==
  ASSUME EventTypes, NEW j \in Jobs, NextList(j)
  PROVE  Moves(j)
<1>1. list[j] \in 1..10 /\ Len(Lists) = 10
  BY TenLists DEF EventTypes
<1>2. PICK l \in 1..10 : /\ l = IF list[j] < 10 THEN list[j] + 1 ELSE list[j]
                         /\ list[j] <= l
  BY <1>1
<1>3. PICK s \in Stages : s = IF list[j] < 10 THEN "enter" ELSE "done"
  BY DEF Stages
<1>4. /\ list' = [list EXCEPT ![j] = l]
      /\ chunk' = [chunk EXCEPT ![j] = 0]
      /\ stage' = [stage EXCEPT ![j] = s]
  BY <1>1, <1>2, <1>3 DEF NextList, Goto
<1>5. 0 \in Nat
  OBVIOUS
<1> QED
  BY <1>2, <1>4, <1>5, MovesTo

LEMMA GotoMoves ==
  ASSUME EventTypes, NEW j \in Jobs, UNCHANGED list, NEW s \in Stages,
         stage' = [stage EXCEPT ![j] = s], NEW c \in Nat, chunk' = [chunk EXCEPT ![j] = c]
  PROVE  Moves(j)
<1>1. PICK l \in 1..10 : l = list[j]
  BY DEF EventTypes
<1>2. list[j] <= l /\ list' = [list EXCEPT ![j] = l]
  BY <1>1 DEF EventTypes
<1> QED
  BY <1>2, MovesTo

\* A failed attempt is repeated, or ends the sending.
LEMMA FailedKeeps ==
  ASSUME EventInv, NEW j \in Jobs, stage[j] = "post", Failed(j), Grows(j)
  PROVE  Moves(j) /\ SentSoFar(j)'
<1>1. UNCHANGED <<list, chunk>> /\ (UNCHANGED stage \/ Goto(j, "failed"))
  BY DEF Failed
<1>2. \E s \in {"post", "failed"} : stage' = [stage EXCEPT ![j] = s]
  BY <1>1 DEF Goto, EventInv, EventTypes
<1>3. chunk' = [chunk EXCEPT ![j] = chunk[j]] /\ chunk[j] \in Nat
  BY <1>1 DEF EventInv, EventTypes
<1>4. Moves(j)
  BY <1>1, <1>2, <1>3, GotoMoves DEF EventInv, Stages
<1>5. stage'[j] \in {"post", "failed"}
  BY <1>2 DEF EventInv, EventTypes
<1>6. SentSoFar(j)'
  BY <1>1, <1>5, Stays DEF EventInv, Sending, Grows
<1> QED
  BY <1>4, <1>6

LEMMA InitEvents == Init => EventInv
<1> SUFFICES ASSUME Init PROVE EventInv
  OBVIOUS
<1>1. EventTypes
  BY DEF Init, EventTypes, Stages
<1>2. ASSUME NEW j \in Jobs PROVE SentSoFar(j)
  BY DEF Init, SentSoFar, Sending
<1>3. NothingAhead
  BY DEF Init, NothingAhead
<1> QED
  BY <1>1, <1>2, <1>3 DEF EventInv

LEMMA NextEvents == EventInv /\ [Next]_vars => EventInv'
<1> SUFFICES ASSUME EventInv, [Next]_vars PROVE EventInv'
  OBVIOUS
<1>1. CASE UNCHANGED vars
  <2>1. ASSUME NEW j \in Jobs PROVE SentSoFar(j)'
    BY <1>1, Stays DEF vars, EventInv
  <2> QED
    BY <1>1, <2>1 DEF vars, EventInv, EventTypes, NothingAhead
<1>2. ASSUME NEW j \in Jobs, NEW kind \in Kinds, SendList(j, kind) PROVE EventInv'
  <2>1. Grows(j)
    BY <1>2 DEF SendList, Grows
  <2>2. CASE NextList(j)
    BY <1>2, <2>1, <2>2, NextListMoves, SendListKeeps, OneJob DEF EventInv
  <2>3. CASE Goto(j, "write") /\ UNCHANGED <<list, chunk>>
    <3>1. chunk' = [chunk EXCEPT ![j] = chunk[j]] /\ chunk[j] \in Nat
      BY <2>3 DEF EventInv, EventTypes
    <3>2. Moves(j)
      BY <2>3, <3>1, GotoMoves DEF EventInv, Goto, Stages
    <3> QED
      BY <1>2, <2>1, <3>2, SendListKeeps, OneJob
  <2> QED
    BY <1>2, <2>2, <2>3 DEF SendList
<1>3. ASSUME NEW j \in Jobs, SetLength(j) \/ BuildURL(j) PROVE EventInv'
  <2>1. Grows(j) /\ UNCHANGED <<list, chunk>> /\ stage[j] \in {"write", "url"}
    BY <1>3 DEF SetLength, BuildURL, Grows
  <2>2. \E s \in {"url", "post"} : stage' = [stage EXCEPT ![j] = s]
    BY <1>3 DEF SetLength, BuildURL, Goto
  <2>3. chunk' = [chunk EXCEPT ![j] = chunk[j]] /\ chunk[j] \in Nat
    BY <2>1 DEF EventInv, EventTypes
  <2>4. Moves(j)
    BY <2>1, <2>2, <2>3, GotoMoves DEF EventInv, Stages
  <2>5. stage'[j] \in {"url", "post"}
    BY <2>2 DEF EventInv, EventTypes
  <2>6. SentSoFar(j)'
    BY <2>1, <2>5, Stays DEF EventInv, Sending, Grows
  <2> QED
    BY <2>1, <2>4, <2>6, OneJob
<1>4. ASSUME NEW j \in Jobs, Post(j) PROVE EventInv'
  <2>1. PICK k \in Kinds : k = Kind(j)
    BY TenLists DEF EventInv, EventTypes, Kind
  <2>2. UNCHANGED load
    BY <1>4 DEF Post, Acknowledged, Failed
  <2>3. Grows(j)
    BY <1>4, <2>1, <2>2, BatchStored DEF Post, Grows
  <2>4. CASE Acknowledged(j)
    <3>1. SentSoFar(j)'
      BY <1>4, <2>4, AcknowledgedKeeps DEF Post
    <3>2. CASE NextList(j)
      BY <2>3, <3>1, <3>2, NextListMoves, OneJob DEF EventInv
    <3>3. CASE /\ chunk' = [chunk EXCEPT ![j] = @ + 1]
               /\ Goto(j, "url") /\ UNCHANGED list
      <4>1. chunk[j] + 1 \in Nat
        BY DEF EventInv, EventTypes
      <4>2. Moves(j)
        BY <3>3, <4>1, GotoMoves DEF EventInv, Goto, Stages
      <4> QED
        BY <2>3, <3>1, <4>2, OneJob
    <3> QED
      BY <2>4, <3>2, <3>3 DEF Acknowledged
  <2>5. CASE Failed(j)
    BY <1>4, <2>3, <2>5, FailedKeeps, OneJob DEF Post
  <2> QED
    BY <1>4, <2>4, <2>5 DEF Post
<1>5. ASSUME NEW j \in Jobs, PostNowhere(j) PROVE EventInv'
  <2>1. Grows(j)
    BY <1>5 DEF PostNowhere, Failed, Grows
  <2> QED
    BY <1>5, <2>1, FailedKeeps, OneJob DEF PostNowhere
<1>6. ASSUME NEW j \in Jobs, sendAllEvents(j) PROVE \E kind \in Kinds : SendList(j, kind)
  BY <1>6, EachList DEF sendAllEvents, SendMatchData, SendRoundEvents, SendDamageEvents,
     SendGrenadeEvents, SendGunfightEvents, SendPlayerRoundEvents,
     SendPlayerMatchEvents, SendAimEvents, SendAimWeaponEvents, SendAchievements
<1> QED
  BY <1>1, <1>2, <1>3, <1>4, <1>5, <1>6 DEF Next

-----------------------------------------------------------------------------
\* What is stored at any time: see EventInv.
THEOREM EventsInvariant == Spec => []EventInv
<1> QED
  BY InitEvents, NextEvents, PTL DEF Spec

\* BatchSender and DemoParserService together: when sendAllEvents has returned
\* without an error, no event, rank or match update is missing, whatever the
\* numbers of events and the batch sizes and however often requests failed.
THEOREM NothingMissing == Spec => []DoneMeansAllStored
<1>1. EventInv => DoneMeansAllStored
  <2> SUFFICES ASSUME EventInv, NEW j \in Jobs, stage[j] = "done"
               PROVE  /\ \A k \in Kinds : Due(j, k) \subseteq StoredOf(j, k)
                      /\ {<<j, e>> : e \in Known \cap Ranked \cap 1..load[j]["player-match"]} \subseteq ranks
                      /\ j \in updated
    BY DEF DoneMeansAllStored
  <2>1. \A k \in Kinds : ListStored(j, k)
    BY TenLists DEF EventInv, SentSoFar
  <2>2. \A k \in Kinds : Due(j, k) \subseteq StoredOf(j, k)
    BY <2>1 DEF ListStored, StoredUpTo, Due
  <2>3. ListStored(j, "match") /\ ListStored(j, "player-match")
    BY <2>1, TenLists
  <2>4. {<<j, e>> : e \in Known \cap Ranked \cap 1..load[j]["player-match"]} \subseteq ranks
    BY <2>3 DEF ListStored, StoredUpTo
  <2> QED
    BY <2>2, <2>3, <2>4 DEF ListStored
<1> QED
  BY <1>1, EventsInvariant, PTL

\* The order of sendAllEvents: whenever a job stops, with whatever error, its
\* rows are a prefix of its events, list by list.
THEOREM PrefixStored == Spec => []EventsInOrder
<1>1. EventInv => EventsInOrder
  <2> SUFFICES ASSUME EventInv, NEW row \in rows, NEW i \in 1..10, NEW k \in 1..10,
                      row.kind = Lists[i], k < i
               PROVE  Due(row.job, Lists[k]) \subseteq StoredOf(row.job, Lists[k])
    BY TenLists DEF EventsInOrder
  <2>1. row.job \in Jobs /\ \E n \in 1..10 : n <= list[row.job] /\ row.kind = Lists[n]
    BY DEF EventInv, NothingAhead
  <2>2. i <= list[row.job]
    BY <2>1, TenLists
  <2>3. list[row.job] \in 1..10
    BY <2>1 DEF EventInv, EventTypes
  <2>4. ListStored(row.job, Lists[k])
    BY <2>1, <2>2, <2>3 DEF EventInv, SentSoFar
  <2> QED
    BY <2>4 DEF ListStored, StoredUpTo, Due
<1> QED
  BY <1>1, EventsInvariant, PTL
=============================================================================
