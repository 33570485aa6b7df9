--------------------------- MODULE ActionListProofs ---------------------------
(***************************************************************************)
(* Proofs about ActionList, for every list of devices, any ports, any two  *)
(* devices with the same VID:PID, whatever the ports hold at the start,    *)
(* and any number of things that go wrong.                                 *)
(***************************************************************************)
EXTENDS ActionList, ListsProofs

(* The devices without a twin, and those that are exempt.                  *)
Solo == {id \in Ids : NoTwin(id)}
Off == surprise \cup (Ids \ Solo)

(* No two rows are for one device of S, and no device is at two ports.     *)
Uniq(S, rows) ==
  \A i, j \in 1..Len(rows) : rows[i].id = rows[j].id /\ rows[i].id \in S => i = j
Exclusive(ports) ==
  \A p, q \in PortSet : ports[p] = ports[q] /\ ports[p] # None => p = q

Vhci == [PortSet -> Ids \cup {None}]

----------------------------------------------------------------------------
(* Lemmas about rows.                                                      *)

(* None is no device, and no port is labelled free.                        *)
LEMMA Names ==
  /\ None \notin Ids /\ Buses \in Seq(Ids) /\ IsInjective(Buses)
  /\ Ports \in Seq(PortSet) /\ IsInjective(Ports)
  /\ "free" \notin PortSet /\ "on" \notin PortSet /\ "locked" \notin PortSet
  BY ListAssumption

(* A row is listed under its id, at the places that have it.               *)
LEMMA ListedRows ==
  ASSUME NEW rows \in Seq(Row)
  PROVE  /\ \A i \in 1..Len(rows) : rows[i] \in Row /\ rows[i].id \in Ids /\ rows[i].label \in Labels
         /\ \A i \in 1..Len(rows) : rows[i].id \in Listed(rows)
         /\ \A id \in Listed(rows) : id \in Ids /\ At(rows, id) # {}
         /\ \A id : At(rows, id) \subseteq 1..Len(rows)
  <1>1. Len(rows) \in Nat /\ \A i \in 1..Len(rows) : rows[i] \in Row
    OBVIOUS
  <1>2. \A row \in Row : row.id \in Ids /\ row.label \in Labels
    BY DEF Row
  <1> QED BY <1>1, <1>2 DEF Listed, At

(* Rows that are put behind others which have other ids.                   *)
LEMMA UniqAppended ==
  ASSUME NEW S, NEW a \in Seq(Row), NEW b \in Seq(Row), Uniq(S, a), Uniq(S, b),
         Listed(a) \cap Listed(b) \cap S = {}
  PROVE  Uniq(S, a \o b)
  <1>1. \A i \in 1..Len(a) : a[i].id \in Listed(a)
    BY DEF Listed
  <1>2. \A i \in 1..Len(b) : b[i].id \in Listed(b)
    BY DEF Listed
  <1>3. ASSUME NEW i \in 1..Len(a \o b)
        PROVE  \/ i \in 1..Len(a) /\ (a \o b)[i] = a[i]
               \/ i - Len(a) \in 1..Len(b) /\ (a \o b)[i] = b[i - Len(a)] /\ i > Len(a)
    OBVIOUS
  <1>4. SUFFICES ASSUME NEW i \in 1..Len(a \o b), NEW j \in 1..Len(a \o b),
                        (a \o b)[i].id = (a \o b)[j].id, (a \o b)[i].id \in S
                 PROVE  i = j
    BY DEF Uniq
  <1>5. \A k \in 1..Len(a), m \in 1..Len(b) : a[k].id = b[m].id => a[k].id \notin S
    BY <1>1, <1>2
  <1>6. CASE i \in 1..Len(a) /\ (a \o b)[i] = a[i]
    <2>1. CASE j \in 1..Len(a) /\ (a \o b)[j] = a[j]
      BY <1>4, <1>6, <2>1 DEF Uniq
    <2>2. CASE j - Len(a) \in 1..Len(b) /\ (a \o b)[j] = b[j - Len(a)]
      BY <1>4, <1>5, <1>6, <2>2
    <2> QED BY <1>3, <2>1, <2>2
  <1>7. CASE i - Len(a) \in 1..Len(b) /\ (a \o b)[i] = b[i - Len(a)]
    <2>1. CASE j \in 1..Len(a) /\ (a \o b)[j] = a[j]
      BY <1>4, <1>5, <1>7, <2>1
    <2>2. CASE j - Len(a) \in 1..Len(b) /\ (a \o b)[j] = b[j - Len(a)]
      <3>1. b[i - Len(a)].id = b[j - Len(a)].id /\ b[i - Len(a)].id \in S
        BY <1>4, <1>7, <2>2
      <3>2. i - Len(a) = j - Len(a)
        BY <3>1, <1>7, <2>2 DEF Uniq
      <3>3. Len(a) \in Nat /\ i \in Nat /\ j \in Nat
        OBVIOUS
      <3> QED BY <3>2, <3>3
    <2> QED BY <1>3, <2>1, <2>2
  <1> QED BY <1>3, <1>6, <1>7

(* What is put together has the rows of both.                              *)
LEMMA ListedAppended ==
  ASSUME NEW a \in Seq(Row), NEW b \in Seq(Row)
  PROVE  /\ a \o b \in Seq(Row) /\ Listed(a \o b) = Listed(a) \cup Listed(b)
         /\ \A i \in 1..Len(a) : i \in 1..Len(a \o b) /\ (a \o b)[i] = a[i]
         /\ \A i \in 1..Len(b) : i + Len(a) \in 1..Len(a \o b) /\ (a \o b)[i + Len(a)] = b[i]
         /\ \A i \in 1..Len(a \o b) :
              \/ \E j \in 1..Len(a) : (a \o b)[i] = a[j]
              \/ \E j \in 1..Len(b) : (a \o b)[i] = b[j]
  <1>1. a \o b \in Seq(Row) /\ Len(a \o b) = Len(a) + Len(b) /\ Len(a) \in Nat /\ Len(b) \in Nat
    OBVIOUS
  <1>2. \A i \in 1..Len(a) : i \in 1..Len(a \o b) /\ (a \o b)[i] = a[i]
    OBVIOUS
  <1>3. \A i \in 1..Len(b) : i + Len(a) \in 1..Len(a \o b) /\ (a \o b)[i + Len(a)] = b[i]
    OBVIOUS
  <1>4. ASSUME NEW i \in 1..Len(a \o b)
        PROVE  \/ \E j \in 1..Len(a) : (a \o b)[i] = a[j]
               \/ \E j \in 1..Len(b) : (a \o b)[i] = b[j]
    <2>1. CASE i <= Len(a)
      BY <1>1, <2>1
    <2>2. CASE i > Len(a)
      <3>1. i - Len(a) \in 1..Len(b) /\ (a \o b)[i] = b[i - Len(a)]
        BY <1>1, <2>2
      <3> QED BY <3>1
    <2> QED BY <1>1, <2>1, <2>2
  <1>5. Listed(a \o b) = Listed(a) \cup Listed(b)
    <2>1. \A x \in Listed(a \o b) : x \in Listed(a) \cup Listed(b)
      BY <1>4 DEF Listed
    <2>2. \A x \in Listed(a) : x \in Listed(a \o b)
      BY <1>2 DEF Listed
    <2>3. \A x \in Listed(b) : x \in Listed(a \o b)
      BY <1>3 DEF Listed
    <2> QED BY <2>1, <2>2, <2>3
  <1> QED BY <1>1, <1>2, <1>3, <1>4, <1>5

(* The first row of a device.                                              *)
LEMMA FirstAt ==
  ASSUME NEW rows \in Seq(Row), NEW id, At(rows, id) # {}
  PROVE  Min(At(rows, id)) \in 1..Len(rows) /\ rows[Min(At(rows, id))].id = id
  <1>1. At(rows, id) \subseteq Nat
    BY DEF At
  <1>2. \E n \in At(rows, id) : \A m \in At(rows, id) : n <= m
    BY <1>1, LeastNat
  <1>3. Min(At(rows, id)) \in At(rows, id)
    BY <1>2 DEF Min
  <1> QED BY <1>3 DEF At

LEMMA RowOfOK ==
  ASSUME NEW rows \in Seq(Row), NEW id
  PROVE  /\ RowOf(rows, id) \in Seq(Row)
         /\ id \notin Listed(rows) => RowOf(rows, id) = <<>>
         /\ id \in Listed(rows) =>
              \E i \in 1..Len(rows) : rows[i].id = id /\ RowOf(rows, id) = <<rows[i]>>
  <1>1. CASE At(rows, id) = {}
    <2>1. id \notin Listed(rows)
      BY <1>1 DEF At, Listed
    <2> QED BY <1>1, <2>1 DEF RowOf
  <1>2. CASE At(rows, id) # {}
    <2>1. PICK i \in 1..Len(rows) : i = Min(At(rows, id)) /\ rows[i].id = id
      BY <1>2, FirstAt
    <2>2. RowOf(rows, id) = <<rows[i]>> /\ rows[i] \in Row
      BY <1>2, <2>1 DEF RowOf
    <2>3. id \in Listed(rows)
      BY <2>1 DEF Listed
    <2> QED BY <2>1, <2>2, <2>3
  <1> QED BY <1>1, <1>2

(* If there is one row for a device, that is it.                           *)
LEMMA RowOfUniq ==
  ASSUME NEW S, NEW rows \in Seq(Row), Uniq(S, rows), NEW i \in 1..Len(rows), rows[i].id \in S
  PROVE  RowOf(rows, rows[i].id) = <<rows[i]>>
  <1>1. rows[i].id \in Listed(rows)
    BY DEF Listed
  <1>2. PICK j \in 1..Len(rows) : rows[j].id = rows[i].id /\ RowOf(rows, rows[i].id) = <<rows[j]>>
    BY <1>1, RowOfOK
  <1> QED BY <1>2 DEF Uniq

(* A filter keeps different elements different.                            *)
LEMMA RetainDistinct ==
  ASSUME NEW T, NEW s \in Seq(T), NEW S, IsInjective(s)
  PROVE  IsInjective(Retain(s, S))
  <1>1. PICK r \in Seq(T) : r = Retain(s, S)
    BY RetainSelects
  <1>2. PICK at : Selects(r, s, S, Len(s), at)
    BY <1>1, RetainSelects
  <1>3. SUFFICES ASSUME NEW i \in 1..Len(r), NEW j \in 1..Len(r), r[i] = r[j] PROVE i = j
    BY <1>1 DEF IsInjective
  <1>4. at[i] \in 1..Len(s) /\ at[j] \in 1..Len(s) /\ s[at[i]] = s[at[j]]
    BY <1>2, <1>3 DEF Selects
  <1>5. at[i] = at[j]
    BY <1>4 DEF IsInjective
  <1>6. ~(i < j) /\ ~(j < i)
    BY <1>2, <1>4, <1>5 DEF Selects
  <1> QED BY <1>6

LEMMA RetainUniq ==
  ASSUME NEW rows \in Seq(Row), NEW S, NEW D, Uniq(D, rows)
  PROVE  Uniq(D, Retain(rows, S))
  <1>1. PICK r \in Seq(Row) : r = Retain(rows, S)
    BY RetainSelects
  <1>2. PICK at : Selects(r, rows, S, Len(rows), at)
    BY <1>1, RetainSelects
  <1>3. SUFFICES ASSUME NEW i \in 1..Len(r), NEW j \in 1..Len(r), r[i].id = r[j].id, r[i].id \in D
               PROVE  i = j
    BY <1>1 DEF Uniq
  <1>4. at[i] \in 1..Len(rows) /\ at[j] \in 1..Len(rows) /\ rows[at[i]].id = rows[at[j]].id
        /\ rows[at[i]].id \in D
    BY <1>2, <1>3 DEF Selects
  <1>5. at[i] = at[j]
    BY <1>4 DEF Uniq
  <1>6. ~(i < j) /\ ~(j < i)
    BY <1>2, <1>4, <1>5 DEF Selects
  <1> QED BY <1>6

(* Rows without some devices.                                              *)
LEMMA WithoutOK ==
  ASSUME NEW D, NEW rows \in Seq(Row), NEW ids, NEW r, r = Without(rows, ids)
  PROVE  /\ r \in Seq(Row)
         /\ Listed(r) = Listed(rows) \ ids
         /\ \A j \in 1..Len(r) : \E i \in 1..Len(rows) : r[j] = rows[i]
         /\ Uniq(D, rows) => Uniq(D, r)
  <1>1. PICK S : S = {row \in Row : row.id \notin ids}
    OBVIOUS
  <1>2. r = Retain(rows, S)
    BY <1>1 DEF Without
  <1>3. /\ r \in Seq(Row \cap S)
        /\ \A j \in 1..Len(r) : \E i \in 1..Len(rows) : r[j] = rows[i]
        /\ \A i \in 1..Len(rows) : rows[i] \in S => \E j \in 1..Len(r) : r[j] = rows[i]
    <2>1. KeptOf(Row, r, rows, S)
      BY <1>2, RetainOK
    <2> QED BY <2>1 DEF KeptOf
  <1>4. r \in Seq(Row) /\ \A j \in 1..Len(r) : r[j] \in S
    BY <1>3
  <1>5. Listed(r) = Listed(rows) \ ids
    <2>1. \A x \in Listed(r) : x \in Listed(rows) \ ids
      <3> TAKE x \in Listed(r)
      <3>1. PICK j \in 1..Len(r) : r[j].id = x
        BY DEF Listed
      <3>2. PICK i \in 1..Len(rows) : r[j] = rows[i]
        BY <1>3
      <3>3. x \notin ids
        BY <1>1, <1>4, <3>1
      <3> QED BY <3>1, <3>2, <3>3 DEF Listed
    <2>2. \A x \in Listed(rows) \ ids : x \in Listed(r)
      <3> TAKE x \in Listed(rows) \ ids
      <3>1. PICK i \in 1..Len(rows) : rows[i].id = x
        BY DEF Listed
      <3>2. rows[i] \in S
        BY <1>1, <3>1
      <3> QED BY <1>3, <3>1, <3>2 DEF Listed
    <2> QED BY <2>1, <2>2
  <1> QED BY <1>2, <1>3, <1>4, <1>5, RetainUniq

(* The first of some ports is one of them.                                 *)
LEMMA FirstOK ==
  ASSUME NEW ports, ports \subseteq PortSet, ports # {}
  PROVE  First(ports) \in ports
  <1>1. PICK S : S = {i \in 1..Len(Ports) : Ports[i] \in ports}
    OBVIOUS
  <1>2. S \subseteq Nat /\ S # {}
    <2>1. PICK p \in PortSet : p \in ports
      OBVIOUS
    <2>2. DOMAIN Ports = 1..Len(Ports)
      BY Names
    <2>3. PICK i \in 1..Len(Ports) : Ports[i] = p
      BY <2>1, <2>2 DEF PortSet, ToSet
    <2> QED BY <1>1, <2>1, <2>3
  <1>3. \E n \in S : \A m \in S : n <= m
    BY <1>2, LeastNat
  <1>4. Min(S) \in S
    BY <1>3 DEF Min
  <1> QED BY <1>1, <1>4 DEF First

(* The ports that match a device without a twin are those that hold it.    *)
LEMMA MatchingSolo ==
  ASSUME NEW ports \in Vhci
  PROVE  /\ \A id \in Solo : Matching(ports, id) = AttachedAt(ports, id)
         /\ \A id : Matching(ports, id) \subseteq Held(ports)
         /\ Held(ports) \subseteq PortSet
  <1>1. ASSUME NEW id \in Solo PROVE Matching(ports, id) = AttachedAt(ports, id)
    <2>1. id \in Ids /\ \A other \in Ids : model[other] = model[id] => other = id
      BY DEF Solo, NoTwin
    <2>2. \A p \in Held(ports) : p \in PortSet /\ ports[p] \in Ids
      BY DEF Held, Vhci
    <2>3. \A p \in Matching(ports, id) : p \in AttachedAt(ports, id)
      BY <2>1, <2>2 DEF Matching, AttachedAt
    <2>4. \A p \in AttachedAt(ports, id) : p \in Matching(ports, id)
      BY <2>1, Names DEF Matching, AttachedAt, Held
    <2> QED BY <2>3, <2>4
  <1>2. (\A id : Matching(ports, id) \subseteq Held(ports)) /\ Held(ports) \subseteq PortSet
    BY DEF Matching, Held
  <1> QED BY <1>1, <1>2

(* What a row says of a device without a twin: the port that has it, or    *)
(* that none has.                                                          *)
Shows(row, ports, occupied) ==
  /\ row.label # "on"
  /\ row.id \in Solo =>
       IF AttachedAt(ports, row.id) # {} THEN row.label \in AttachedAt(ports, row.id)
       ELSE row.label = IF row.id \in occupied THEN "locked" ELSE "free"

LEMMA LabelOK ==
  ASSUME NEW ports \in Vhci, NEW occupied, NEW id \in Ids,
         NEW row, row = [id |-> id, label |-> Label(ports, occupied, id)]
  PROVE  row \in Row /\ row.id = id /\ Shows(row, ports, occupied)
  <1>1. PICK at : at = Matching(ports, id)
    OBVIOUS
  <1>2. at \subseteq PortSet
    BY <1>1, MatchingSolo
  <1>3. PICK l : l = Label(ports, occupied, id)
    OBVIOUS
  <1>4. l = IF at # {} THEN First(at) ELSE IF id \in occupied THEN "locked" ELSE "free"
    BY <1>1, <1>3 DEF Label
  <1>5. at # {} => l \in at
    BY <1>2, <1>4, FirstOK
  <1>6. l \in Labels /\ l # "on"
    BY <1>2, <1>4, <1>5, Names DEF Labels
  <1>7. id \in Solo => at = AttachedAt(ports, id)
    BY <1>1, MatchingSolo
  <1>8. row \in Row /\ row.id = id /\ row.label = l
    BY <1>3, <1>6 DEF Row
  <1> QED BY <1>4, <1>5, <1>6, <1>7, <1>8 DEF Shows

(* remote_device_states lists a device without a twin once, with the truth *)
(* about it.                                                               *)
LEMMA ListingOK ==
  ASSUME NEW ports \in Vhci, NEW known, NEW occupied
  PROVE  /\ Listing(ports, known, occupied) \in Seq(Row)
         /\ \A i \in 1..Len(Listing(ports, known, occupied)) :
              Shows(Listing(ports, known, occupied)[i], ports, occupied)
         /\ Exclusive(ports) => Uniq(Solo, Listing(ports, known, occupied))
  <1>1. PICK listed : listed = Retain(Buses, known)
    OBVIOUS
  <1>2. PICK used : used = {First(Matching(ports, id)) :
                              id \in {k \in known : Matching(ports, k) # {}}}
    OBVIOUS
  <1>3. PICK free : free = Held(ports) \ used
    OBVIOUS
  <1>4. PICK others : others = Retain(Ports, free)
    OBVIOUS
  <1>5. listed \in Seq(Ids) /\ IsInjective(listed) /\ \A i \in 1..Len(listed) : listed[i] \in known
    <2>1. KeptOf(Ids, listed, Buses, known)
      BY <1>1, Names, RetainOK
    <2>2. listed \in Seq(Ids \cap known)
      BY <2>1 DEF KeptOf
    <2>3. listed \in Seq(Ids) /\ \A i \in 1..Len(listed) : listed[i] \in known
      BY <2>2
    <2> QED BY <1>1, <2>3, Names, RetainDistinct
  <1>6. others \in Seq(free) /\ IsInjective(others) /\ free \subseteq PortSet
    <2>1. KeptOf(PortSet, others, Ports, free)
      BY <1>4, Names, RetainOK
    <2>2. others \in Seq(PortSet \cap free)
      BY <2>1 DEF KeptOf
    <2>3. free \subseteq PortSet
      BY <1>3 DEF Held
    <2>4. PortSet \cap free = free
      BY <2>3
    <2> QED BY <1>4, <2>2, <2>3, <2>4, Names, RetainDistinct
  <1>7. PICK n \in Nat, m \in Nat : n = Len(listed) /\ m = Len(others)
    BY <1>5, <1>6
  <1>8. PICK a : a = [i \in 1..n |-> [id |-> listed[i], label |-> Label(ports, occupied, listed[i])]]
    OBVIOUS
  <1>9. PICK b : b = [i \in 1..m |-> [id |-> ports[others[i]], label |-> others[i]]]
    OBVIOUS
  <1>10. Listing(ports, known, occupied) = a \o b
    BY <1>1, <1>2, <1>3, <1>4, <1>7, <1>8, <1>9 DEF Listing
  <1>11. \A i \in 1..n : a[i] \in Row /\ a[i].id = listed[i] /\ Shows(a[i], ports, occupied)
    <2> TAKE i \in 1..n
    <2>1. listed[i] \in Ids
      BY <1>5, <1>7
    <2>2. a[i] = [id |-> listed[i], label |-> Label(ports, occupied, listed[i])]
      BY <1>8
    <2> QED BY <2>1, <2>2, LabelOK
  <1>12. a \in Seq(Row) /\ Len(a) = n
    BY <1>8, <1>11
  <1>13. \A i \in 1..m : /\ b[i] \in Row /\ b[i].id = ports[others[i]] /\ others[i] \in free
                         /\ Shows(b[i], ports, occupied)
    <2> TAKE i \in 1..m
    <2>1. others[i] \in free /\ others[i] \in PortSet
      BY <1>6, <1>7
    <2>2. ports[others[i]] \in Ids
      BY <1>3, <2>1 DEF Held, Vhci
    <2>3. b[i] = [id |-> ports[others[i]], label |-> others[i]]
      BY <1>9
    <2>4. b[i] \in Row /\ b[i].id = ports[others[i]] /\ b[i].label = others[i]
      BY <2>1, <2>2, <2>3 DEF Row, Labels
    <2>5. b[i].label \in AttachedAt(ports, b[i].id)
      BY <2>1, <2>4 DEF AttachedAt
    <2> QED BY <2>1, <2>4, <2>5, Names DEF Shows
  <1>14. b \in Seq(Row) /\ Len(b) = m
    BY <1>9, <1>13
  <1>15. a \o b \in Seq(Row)
    BY <1>12, <1>14
  <1>16. \A i \in 1..Len(a \o b) : Shows((a \o b)[i], ports, occupied)
    <2> TAKE i \in 1..Len(a \o b)
    <2>1. \/ \E j \in 1..Len(a) : (a \o b)[i] = a[j]
          \/ \E j \in 1..Len(b) : (a \o b)[i] = b[j]
      BY <1>12, <1>14, ListedAppended
    <2> QED BY <1>11, <1>12, <1>13, <1>14, <2>1
  <1>17. ASSUME Exclusive(ports) PROVE Uniq(Solo, a \o b)
    <2>1. Uniq(Solo, a)
      BY <1>5, <1>7, <1>11, <1>12 DEF Uniq, IsInjective
    <2>2. \A i, j \in 1..m : ports[others[i]] = ports[others[j]] => i = j
      <3> SUFFICES ASSUME NEW i \in 1..m, NEW j \in 1..m, ports[others[i]] = ports[others[j]]
                   PROVE  i = j
        OBVIOUS
      <3>1. others[i] \in PortSet /\ others[j] \in PortSet /\ ports[others[i]] # None
        BY <1>3, <1>6, <1>13 DEF Held
      <3>2. others[i] = others[j]
        BY <1>17, <3>1 DEF Exclusive
      <3> QED BY <1>6, <1>7, <3>2 DEF IsInjective
    <2>3. Uniq(Solo, b)
      BY <1>13, <1>14, <2>2 DEF Uniq
    <2>4. ASSUME NEW i \in 1..n, NEW j \in 1..m, a[i].id = b[j].id, a[i].id \in Solo
          PROVE  FALSE
      <3>1. PICK id \in Solo : id = listed[i] /\ id \in known
        BY <1>5, <1>7, <1>11, <2>4
      <3>2. PICK p \in PortSet : p = others[j] /\ p \in free /\ ports[p] = id
        BY <1>6, <1>11, <1>13, <2>4, <3>1
      <3>3. ports[p] # None
        BY <1>3, <3>2 DEF Held
      <3>4. Matching(ports, id) = {p}
        <4>1. p \in AttachedAt(ports, id) /\ \A q \in AttachedAt(ports, id) : q = p
          BY <1>17, <3>2, <3>3 DEF AttachedAt, Exclusive
        <4> QED BY <4>1, MatchingSolo
      <3>5. First({p}) = p
        <4>1. {p} \subseteq PortSet /\ {p} # {}
          OBVIOUS
        <4> QED BY <4>1, FirstOK
      <3>6. p \in used
        BY <1>2, <3>1, <3>4, <3>5
      <3> QED BY <1>3, <3>2, <3>6
    <2>5. Listed(a) \cap Listed(b) \cap Solo = {}
      BY <1>12, <1>14, <2>4 DEF Listed
    <2> QED BY <1>12, <1>14, <2>1, <2>3, <2>5, UniqAppended
  <1> QED BY <1>10, <1>15, <1>16, <1>17

(* The recursion in merge_retained_items defines a function.               *)
LEMMA MergeSteps ==
  ASSUME NEW previous \in Seq(Row), NEW next \in Seq(Row), NEW retained \in Seq(Ids)
  PROVE  \E merged \in [0..Len(retained) -> Seq(Row)] :
           /\ merge_retained_items(previous, next, retained) = merged[Len(retained)]
           /\ merged[0] = next
           /\ \A n \in 1..Len(retained) :
                merged[n] = IF retained[n] \in Listed(merged[n - 1]) THEN merged[n - 1]
                            ELSE merged[n - 1] \o RowOf(previous, retained[n])
  <1>1. PICK N \in Nat : N = Len(retained)
    OBVIOUS
  <1> DEFINE Step(n) == [x \in Seq(Row) |-> IF retained[n] \in Listed(x) THEN x
                                            ELSE x \o RowOf(previous, retained[n])]
  <1>2. PICK step : step = [n \in 1..N |-> Step(n)]
    OBVIOUS
  <1>3. \A n \in 1..N : Step(n) \in [Seq(Row) -> Seq(Row)]
    <2> TAKE n \in 1..N
    <2>1. RowOf(previous, retained[n]) \in Seq(Row)
      BY RowOfOK
    <2>2. \A x \in Seq(Row) : x \o RowOf(previous, retained[n]) \in Seq(Row)
      BY <2>1
    <2> QED BY <2>2
  <1>4. step \in [1..N -> [Seq(Row) -> Seq(Row)]]
    BY <1>2, <1>3
  <1>5. PICK f \in [0..N -> Seq(Row)] : Iterates(f, N, next, step)
    <2> HIDE DEF Step
    <2> QED BY <1>1, <1>4, IterationExists
  <1> DEFINE Is(g) == g = [n \in 0..Len(retained) |->
                             IF n = 0 THEN next
                             ELSE IF retained[n] \in Listed(g[n - 1]) THEN g[n - 1]
                             ELSE g[n - 1] \o RowOf(previous, retained[n])]
  <1>6. Is(f)
    <2>1. ASSUME NEW n \in 0..N
          PROVE  f[n] = IF n = 0 THEN next
                        ELSE IF retained[n] \in Listed(f[n - 1]) THEN f[n - 1]
                        ELSE f[n - 1] \o RowOf(previous, retained[n])
      <3>1. CASE n = 0
        BY <1>5, <3>1 DEF Iterates
      <3>2. CASE n # 0
        <4>1. n \in 1..N /\ n - 1 \in 0..N
          BY <3>2
        <4>2. f[n] = step[n][f[n - 1]]
          BY <1>5, <3>2, <4>1 DEF Iterates
        <4>3. f[n - 1] \in Seq(Row)
          BY <1>5, <4>1
        <4>4. step[n][f[n - 1]] = IF retained[n] \in Listed(f[n - 1]) THEN f[n - 1]
                                  ELSE f[n - 1] \o RowOf(previous, retained[n])
          BY <1>2, <4>1, <4>3
        <4> QED BY <3>2, <4>2, <4>4
      <3> QED BY <3>1, <3>2
    <2>2. f = [n \in 0..N |-> f[n]]
      BY <1>5
    <2> QED BY <1>1, <2>1, <2>2
  <1>7. PICK merged : merged = CHOOSE g : Is(g)
    OBVIOUS
  <1>8. Is(merged)
    <2> HIDE DEF Is
    <2> QED BY <1>6, <1>7
  <1>9. merge_retained_items(previous, next, retained) = merged[Len(retained)]
    BY <1>7 DEF merge_retained_items
  <1>10. \A n \in 0..N :
           merged[n] = IF n = 0 THEN next
                       ELSE IF retained[n] \in Listed(merged[n - 1]) THEN merged[n - 1]
                       ELSE merged[n - 1] \o RowOf(previous, retained[n])
    BY <1>1, <1>8, Zenon
  <1> HIDE DEF Is, Step
  <1>11. merged[0] = next
    BY <1>1, <1>10
  <1>12. \A n \in 1..N : merged[n] = IF retained[n] \in Listed(merged[n - 1]) THEN merged[n - 1]
                                     ELSE merged[n - 1] \o RowOf(previous, retained[n])
    <2> TAKE n \in 1..N
    <2>1. n \in 0..N /\ n # 0
      OBVIOUS
    <2> QED BY <1>10, <2>1
  <1>13. merged \in [0..N -> Seq(Row)]
    <2>1. PICK ok : ok = {n \in 0..N : merged[n] \in Seq(Row)}
      OBVIOUS
    <2>2. 0 \in ok
      BY <1>1, <1>11, <2>1
    <2>3. \A n \in 0..N : n \in ok /\ n < N => n + 1 \in ok
      <3> SUFFICES ASSUME NEW n \in 0..N, n \in ok, n < N PROVE n + 1 \in ok
        OBVIOUS
      <3>1. n + 1 \in 1..N /\ (n + 1) - 1 = n /\ merged[n] \in Seq(Row) /\ n + 1 \in 0..N
        BY <2>1
      <3>2. RowOf(previous, retained[n + 1]) \in Seq(Row)
        BY RowOfOK
      <3>3. merged[n + 1] \in {merged[n], merged[n] \o RowOf(previous, retained[n + 1])}
        BY <1>12, <3>1
      <3>4. \A x, y \in Seq(Row) : x \o y \in Seq(Row)
        OBVIOUS
      <3>5. merged[n + 1] \in Seq(Row)
        BY <3>1, <3>2, <3>3, <3>4
      <3> QED BY <2>1, <3>1, <3>5
    <2>4. \A n \in 0..N : n \in ok
      <3> TAKE n \in 0..N
      <3>1. n \in Nat /\ \A k \in 0..n : k \in 0..N /\ (k < n => k < N)
        OBVIOUS
      <3>2. \A k \in 0..n : k \in ok /\ k < n => k + 1 \in ok
        BY <2>3, <3>1
      <3> QED BY <2>2, <3>1, <3>2, UpTo
    <2>5. DOMAIN merged = 0..N
      BY <1>1, <1>8 DEF Is
    <2>6. merged = [n \in 0..N |-> merged[n]]
      BY <1>1, <1>8 DEF Is
    <2> QED BY <2>1, <2>4, <2>6
  <1> QED BY <1>1, <1>9, <1>11, <1>12, <1>13

(* Each row of m is one of a or of b.                                      *)
DrawnFrom(m, a, b) ==
  \A i \in 1..Len(m) : \/ \E j \in 1..Len(a) : m[i] = a[j]
                       \/ \E j \in 1..Len(b) : m[i] = b[j]

(* The rows of the listing come first, and none is doubled.                *)
LEMMA MergeOK ==
  ASSUME NEW D, NEW previous \in Seq(Row), NEW next \in Seq(Row), NEW retained \in Seq(Ids),
         NEW m, m = merge_retained_items(previous, next, retained)
  PROVE  /\ m \in Seq(Row)
         /\ Uniq(D, next) => Uniq(D, m)
         /\ DrawnFrom(m, next, previous)
  <1>1. PICK merged \in [0..Len(retained) -> Seq(Row)] :
           /\ merge_retained_items(previous, next, retained) = merged[Len(retained)]
           /\ merged[0] = next
           /\ \A n \in 1..Len(retained) :
                merged[n] = IF retained[n] \in Listed(merged[n - 1]) THEN merged[n - 1]
                            ELSE merged[n - 1] \o RowOf(previous, retained[n])
    BY MergeSteps
  <1>2. PICK N \in Nat : N = Len(retained)
    OBVIOUS
  <1> DEFINE From(x) == \A i \in 1..Len(x) : \/ \E j \in 1..Len(next) : x[i] = next[j]
                                             \/ \E j \in 1..Len(previous) : x[i] = previous[j]
  <1>3. PICK ok : ok = {n \in 0..N : (Uniq(D, next) => Uniq(D, merged[n])) /\ From(merged[n])}
    OBVIOUS
  <1>4. 0 \in ok
    BY <1>1, <1>3
  <1>5. ASSUME NEW n \in 0..N, n \in ok, n < N PROVE n + 1 \in ok
    <2>1. n + 1 \in 1..N /\ (n + 1) - 1 = n /\ n + 1 \in 0..N
      BY <1>5
    <2>2. PICK x \in Seq(Row) : x = merged[n]
      BY <1>1, <1>2
    <2>3. (Uniq(D, next) => Uniq(D, x)) /\ From(x)
      BY <1>3, <1>5, <2>2
    <2>4. PICK id : id = retained[n + 1]
      OBVIOUS
    <2>5. merged[n + 1] = IF id \in Listed(x) THEN x ELSE x \o RowOf(previous, id)
      BY <1>1, <1>2, <2>1, <2>2, <2>4
    <2>6. CASE id \in Listed(x)
      BY <1>3, <2>1, <2>3, <2>5, <2>6
    <2>7. CASE id \notin Listed(x)
      <3>1. PICK r \in Seq(Row) : r = RowOf(previous, id)
        BY RowOfOK
      <3>2. CASE id \notin Listed(previous)
        <4>1. r = <<>>
          BY <3>1, <3>2, RowOfOK
        <4>2. x \o r = x
          BY <4>1
        <4> QED BY <1>3, <2>1, <2>3, <2>5, <2>7, <3>1, <4>2
      <3>3. CASE id \in Listed(previous)
        <4>1. PICK k \in 1..Len(previous) : previous[k].id = id /\ r = <<previous[k]>>
          BY <3>1, <3>3, RowOfOK
        <4>2. Len(r) = 1 /\ r[1] = previous[k] /\ \A i \in 1..Len(r) : i = 1
          BY <4>1
        <4>3. Uniq(D, r) /\ Listed(r) = {id}
          BY <4>1, <4>2 DEF Uniq, Listed
        <4>4. Uniq(D, next) => Uniq(D, x \o r)
          BY <2>3, <2>7, <4>3, UniqAppended
        <4>5. From(x \o r)
          <5> SUFFICES ASSUME NEW i \in 1..Len(x \o r)
                       PROVE  \/ \E j \in 1..Len(next) : (x \o r)[i] = next[j]
                              \/ \E j \in 1..Len(previous) : (x \o r)[i] = previous[j]
            OBVIOUS
          <5>1. \/ \E j \in 1..Len(x) : (x \o r)[i] = x[j]
                \/ \E j \in 1..Len(r) : (x \o r)[i] = r[j]
            BY ListedAppended, ZenonT(30)
          <5> QED BY <2>3, <4>2, <5>1
        <4> QED BY <1>3, <2>1, <2>5, <2>7, <3>1, <4>4, <4>5, ZenonT(30)
      <3> QED BY <3>2, <3>3
    <2> QED BY <2>6, <2>7
  <1>6. N \in ok
    BY <1>4, <1>5, UpTo
  <1>7. m = merged[N] /\ m \in Seq(Row)
    BY <1>1, <1>2
  <1>8. From(m)
    BY <1>3, <1>6, <1>7
  <1>9. DrawnFrom(m, next, previous)
    BY <1>8 DEF DrawnFrom
  <1> QED BY <1>3, <1>6, <1>7, <1>9

(* The cursor is in the list, or at 0.                                     *)
LEMMA ClampOK ==
  ASSUME NEW rows \in Seq(Row), NEW i \in Nat
  PROVE  /\ Clamp(i, rows) \in Nat /\ Clamp(i, rows) <= i
         /\ rows # <<>> => Clamp(i, rows) < Len(rows)
         /\ i < Len(rows) => Clamp(i, rows) = i
         /\ Clamp(Clamp(i, rows), rows) = Clamp(i, rows)
  <1>1. rows # <<>> <=> Len(rows) > 0
    OBVIOUS
  <1>2. Len(rows) \in Nat
    OBVIOUS
  <1> QED BY <1>1, <1>2 DEF Clamp, least

LEMMA PreserveOK ==
  ASSUME NEW previous \in Seq(Row), NEW next \in Seq(Row), NEW i \in Nat
  PROVE  /\ preserve_selected_index(previous, next, i) \in Nat
         /\ i < Len(previous) /\ previous[i + 1].id \in Listed(next) =>
              next[preserve_selected_index(previous, next, i) + 1].id = previous[i + 1].id
  <1>1. CASE i < Len(previous) /\ previous[i + 1].id \in Listed(next)
    <2>1. At(next, previous[i + 1].id) # {}
      BY <1>1 DEF At, Listed
    <2>2. PICK k \in 1..Len(next) : k = Min(At(next, previous[i + 1].id)) /\ next[k].id = previous[i + 1].id
      BY <2>1, FirstAt
    <2>3. preserve_selected_index(previous, next, i) = k - 1
      BY <1>1, <2>2 DEF preserve_selected_index
    <2>4. k - 1 \in Nat /\ (k - 1) + 1 = k
      BY <2>2
    <2> QED BY <2>2, <2>3, <2>4
  <1>2. CASE ~(i < Len(previous) /\ previous[i + 1].id \in Listed(next))
    <2>1. preserve_selected_index(previous, next, i) = Clamp(i, next)
      BY <1>2 DEF preserve_selected_index
    <2> QED BY <1>2, <2>1, ClampOK
  <1> QED BY <1>1, <1>2

----------------------------------------------------------------------------
(* The shape of the state.                                                 *)

Report == [act : Action, ok : BOOLEAN]
Answer == [current : BOOLEAN, ok : BOOLEAN, rows : Seq(Row)]
Snapshot == [at : {"load"}, current : BOOLEAN, ports : Vhci]
Recovering == [at : {"recover"}, current : BOOLEAN, ports : SUBSET PortSet]
Task == [at : {"recover", "query", "requery", "clear", "detach", "attach"},
         act : Action, ports : SUBSET PortSet, locked : BOOLEAN]

Screen ==
  /\ pc \in {"actions", "items", "keys", "recover", "exit", "left"}
  /\ items \in Seq(Row) /\ sticky \in Seq(Row) /\ processing \in Seq(Ids)
  /\ refresh_pending \in BOOLEAN
  /\ selected \in Nat
  /\ pc \in {"keys", "recover", "exit"} => selected = Clamp(selected, items)

Channels ==
  /\ refreshq \in Seq(BOOLEAN) /\ itemsq \in Seq(Answer)
  /\ actq \in Seq(Action) /\ doneq \in Seq(Report)

Threads ==
  /\ loader = Idle \/ loader \in Snapshot \/ loader \in Recovering
  /\ worker = Idle \/ worker \in Task
  /\ worker.at = "detach" => \E p \in PortSet : worker.ports = {p}
  /\ cache \subseteq Ids

World ==
  /\ exported \subseteq Ids /\ surprise \subseteq Ids /\ vhci \in Vhci
  /\ leaving \subseteq PortSet
  /\ quit \in {"no", "esc", "idle", "busy", "blind"} /\ trouble \in Nat

Typed == Screen /\ Channels /\ Threads /\ World

(* No device without a twin has two rows, and none is at two ports.        *)
Rows ==
  /\ Uniq(Solo, items) /\ Uniq(Solo, sticky)
  /\ \A i \in 1..Len(itemsq) : Uniq(Solo, itemsq[i].rows)
  /\ Exclusive(vhci) /\ (loader.at = "load" => Exclusive(loader.ports))

(* TypeOK, in parts.                                                       *)
LEMMA TypedOK == Typed /\ Rows => TypeOK
  <1> SUFFICES ASSUME Typed, Rows PROVE TypeOK
    OBVIOUS
  <1>1. \A i, j \in 1..Len(items) :
          items[i].id = items[j].id /\ NoTwin(items[i].id) => i = j
    <2>1. \A i \in 1..Len(items) : items[i].id \in Ids
      BY ListedRows DEF Typed, Screen
    <2> QED BY <2>1 DEF Rows, Uniq, Solo
  <1> QED BY <1>1 DEF Typed, Screen, Channels, Threads, World, Report, Answer, Snapshot, Recovering,
                      Task, Vhci, TypeOK

(* What is in a record is of the record's kind, and no task is idle.       *)
LEMMA Kinds ==
  /\ \A act \in Action : act.item \in Row /\ act.item.id \in Ids
                         /\ act.item.label \in Labels /\ act.attach \in BOOLEAN
  /\ \A r \in Report : r.act \in Action /\ r.ok \in BOOLEAN
  /\ \A a \in Answer : a.current \in BOOLEAN /\ a.ok \in BOOLEAN /\ a.rows \in Seq(Row)
  /\ \A l \in Snapshot : l # Idle /\ l.at = "load" /\ l.current \in BOOLEAN /\ l.ports \in Vhci
  /\ \A l \in Recovering : /\ l # Idle /\ l.at = "recover" /\ l.current \in BOOLEAN
                            /\ l.ports \subseteq PortSet
  /\ \A w \in Task : /\ w # Idle /\ w.act \in Action /\ w.ports \subseteq PortSet /\ w.locked \in BOOLEAN
                     /\ w.at \in {"recover", "query", "requery", "clear", "detach", "attach"}
  /\ Idle.at = "idle"
  <1>1. \A x : x \in Snapshot \/ x \in Recovering \/ x \in Task => x.at # "idle"
    BY DEF Snapshot, Recovering, Task
  <1>2. Idle.at = "idle"
    BY DEF Idle
  <1> QED BY <1>1, <1>2 DEF Action, Report, Answer, Snapshot, Recovering, Task, Row

(* A channel: what is sent, and what is taken.                             *)
LEMMA Channel ==
  ASSUME NEW T, NEW q \in Seq(T)
  PROVE  /\ q # <<>> => /\ Head(q) \in T /\ Head(q) = q[1] /\ 1 \in 1..Len(q)
                        /\ Tail(q) \in Seq(T) /\ Len(Tail(q)) = Len(q) - 1
                        /\ \A i \in 1..Len(Tail(q)) : Tail(q)[i] = q[i + 1] /\ i + 1 \in 1..Len(q)
         /\ \A x \in T : /\ Append(q, x) \in Seq(T) /\ Len(Append(q, x)) = Len(q) + 1
                         /\ \A i \in 1..Len(q) : Append(q, x)[i] = q[i]
                         /\ Append(q, x)[Len(q) + 1] = x
         /\ Len(q) \in Nat /\ \A i \in 1..Len(q) : q[i] \in T
  OBVIOUS

(* What a step does to some of it.                                         *)
LEMMA LoopGoesOn ==
  /\ \A results : Continue(results) => pc' \in {"actions", "items"}
  /\ trouble \in Nat /\ (Trouble \/ trouble' = trouble) => trouble' \in Nat
  BY DEF Continue, Trouble

(* Listings that were asked for before count no more.                      *)
LEMMA AskAgainOK ==
  ASSUME Typed, AskAgain
  PROVE  /\ refreshq' \in Seq(BOOLEAN) /\ refresh_pending' = TRUE
         /\ \A i \in 1..Len(refreshq) : ~refreshq'[i]
         /\ itemsq' \in Seq(Answer) /\ Len(itemsq') = Len(itemsq)
         /\ \A i \in 1..Len(itemsq) : ~itemsq'[i].current /\ itemsq'[i].rows = itemsq[i].rows
         /\ loader = Idle <=> loader' = Idle
         /\ loader # Idle =>
              /\ loader' \in Snapshot \/ loader' \in Recovering
              /\ ~loader'.current /\ loader'.ports = loader.ports /\ loader'.at = loader.at
  <1>1. refreshq' \in Seq(BOOLEAN) /\ \A i \in 1..Len(refreshq) : ~refreshq'[i]
    <2>1. PICK n \in Nat : n = Len(refreshq)
      BY DEF Typed, Channels
    <2>2. PICK a : a = [i \in 1..n |-> FALSE]
      OBVIOUS
    <2>3. a \in Seq(BOOLEAN) /\ Len(a) = n /\ \A i \in 1..n : a[i] = FALSE
      BY <2>2
    <2>4. refreshq' = a \o <<TRUE>>
      BY <2>1, <2>2 DEF AskAgain
    <2>5. a \o <<TRUE>> \in Seq(BOOLEAN) /\ \A i \in 1..n : (a \o <<TRUE>>)[i] = a[i]
      BY <2>3
    <2> QED BY <2>1, <2>3, <2>4, <2>5
  <1>2. \A a \in Answer : /\ [a EXCEPT !.current = FALSE] \in Answer
                          /\ ~[a EXCEPT !.current = FALSE].current
                          /\ [a EXCEPT !.current = FALSE].rows = a.rows
    BY DEF Answer
  <1>3. itemsq \in Seq(Answer)
    BY DEF Typed, Channels
  <1>4. itemsq' = [i \in 1..Len(itemsq) |-> [itemsq[i] EXCEPT !.current = FALSE]]
    BY DEF AskAgain
  <1>5. /\ itemsq' \in Seq(Answer) /\ Len(itemsq') = Len(itemsq)
        /\ \A i \in 1..Len(itemsq) : ~itemsq'[i].current /\ itemsq'[i].rows = itemsq[i].rows
    <2>1. PICK n \in Nat : n = Len(itemsq)
      BY <1>3
    <2>2. \A i \in 1..n : itemsq[i] \in Answer /\ itemsq'[i] = [itemsq[i] EXCEPT !.current = FALSE]
      BY <1>3, <1>4, <2>1
    <2>3. \A i \in 1..n : /\ itemsq'[i] \in Answer /\ ~itemsq'[i].current
                          /\ itemsq'[i].rows = itemsq[i].rows
      BY <1>2, <2>2
    <2> QED BY <1>4, <2>1, <2>3
  <1>6. \A l \in Snapshot : /\ [l EXCEPT !.current = FALSE] \in Snapshot
                            /\ ~[l EXCEPT !.current = FALSE].current
                            /\ [l EXCEPT !.current = FALSE].ports = l.ports
                            /\ [l EXCEPT !.current = FALSE].at = l.at
    BY DEF Snapshot
  <1>7. \A l \in Recovering : /\ [l EXCEPT !.current = FALSE] \in Recovering
                              /\ ~[l EXCEPT !.current = FALSE].current
                              /\ [l EXCEPT !.current = FALSE].ports = l.ports
                              /\ [l EXCEPT !.current = FALSE].at = l.at
    BY DEF Recovering
  <1>8. loader # Idle => loader' = [loader EXCEPT !.current = FALSE]
    BY DEF AskAgain
  <1>9. loader = Idle => loader' = Idle
    BY DEF AskAgain
  <1>10. CASE loader \in Snapshot
    BY <1>1, <1>5, <1>6, <1>8, <1>10, Kinds DEF AskAgain
  <1>11. CASE loader \in Recovering
    BY <1>1, <1>5, <1>7, <1>8, <1>11, Kinds DEF AskAgain
  <1>12. CASE loader = Idle
    BY <1>1, <1>5, <1>9, <1>12 DEF AskAgain
  <1> QED BY <1>10, <1>11, <1>12 DEF Typed, Threads

(* What vhci holds after a port has been freed or taken.                   *)
LEMMA PortFreed ==
  ASSUME NEW ports \in Vhci, NEW p
  PROVE  /\ [ports EXCEPT ![p] = None] \in Vhci
         /\ Exclusive(ports) => Exclusive([ports EXCEPT ![p] = None])
         /\ \A id \in Ids : AttachedAt([ports EXCEPT ![p] = None], id) = AttachedAt(ports, id) \ {p}
         /\ Held([ports EXCEPT ![p] = None]) = Held(ports) \ {p}
  <1>1. PICK q : q = [ports EXCEPT ![p] = None]
    OBVIOUS
  <1>2. q \in Vhci /\ \A r \in PortSet : q[r] = IF r = p THEN None ELSE ports[r]
    BY <1>1 DEF Vhci
  <1>3. Exclusive(ports) => Exclusive(q)
    BY <1>2 DEF Exclusive
  <1>4. \A id \in Ids : AttachedAt(q, id) = AttachedAt(ports, id) \ {p}
    BY <1>2, Names DEF AttachedAt
  <1>5. Held(q) = Held(ports) \ {p}
    BY <1>2 DEF Held
  <1> QED BY <1>1, <1>2, <1>3, <1>4, <1>5

LEMMA PortTaken ==
  ASSUME NEW ports \in Vhci, NEW p \in PortSet, ports[p] = None, NEW id \in Ids, AttachedAt(ports, id) = {}
  PROVE  /\ [ports EXCEPT ![p] = id] \in Vhci
         /\ Exclusive(ports) => Exclusive([ports EXCEPT ![p] = id])
         /\ AttachedAt([ports EXCEPT ![p] = id], id) = {p}
         /\ \A d \in Ids \ {id} : AttachedAt([ports EXCEPT ![p] = id], d) = AttachedAt(ports, d)
  <1>1. PICK q : q = [ports EXCEPT ![p] = id]
    OBVIOUS
  <1>2. q \in Vhci /\ \A r \in PortSet : q[r] = IF r = p THEN id ELSE ports[r]
    BY <1>1 DEF Vhci
  <1>3. \A r \in PortSet : ports[r] # id
    BY DEF AttachedAt
  <1>4. Exclusive(ports) => Exclusive(q)
    BY <1>2, <1>3, Names DEF Exclusive
  <1>5. AttachedAt(q, id) = {p}
    BY <1>2, <1>3 DEF AttachedAt
  <1>6. \A d \in Ids \ {id} : AttachedAt(q, d) = AttachedAt(ports, d)
    BY <1>2, Names DEF AttachedAt
  <1> QED BY <1>1, <1>2, <1>4, <1>5, <1>6

(* Who is exempt after a step behind the list's back.                      *)
LEMMA UnseenOK ==
  ASSUME Typed, Solo' = Solo, NEW ids, Unseen(ids)
  PROVE  surprise' \subseteq Ids /\ Off' = Off \cup (ids \cap Ids)
  <1>1. surprise' = surprise \cup (ids \cap Solo)
    BY DEF Unseen, Solo
  <1>2. surprise \subseteq Ids /\ Solo \subseteq Ids
    BY DEF Typed, World, Solo
  <1>3. Off = surprise \cup (Ids \ Solo)
    BY DEF Off
  <1>4. Off' = surprise' \cup (Ids \ Solo)
    BY DEF Off
  <1> QED BY <1>1, <1>2, <1>3, <1>4

(* A port that is freed excuses what it held.                              *)
LEMMA FreedOK ==
  ASSUME Typed, Rows, Solo' = Solo, NEW p, Freed(p)
  PROVE  /\ vhci' \in Vhci /\ Exclusive(vhci') /\ surprise' \subseteq Ids
         /\ Held(vhci)' = Held(vhci) \ {p}
         /\ Off \subseteq Off'
         /\ \A id \in Ids : AttachedAt(vhci, id)' = AttachedAt(vhci, id) \/ id \in Off'
         /\ \A id \in Ids : AttachedAt(vhci, id)' = AttachedAt(vhci, id) \ {p}
  <1>1. vhci \in Vhci /\ Exclusive(vhci)
    BY DEF Typed, World, Rows
  <1>2. vhci' = [vhci EXCEPT ![p] = None] /\ Unseen({vhci[p]})
    BY DEF Freed
  <1>3. /\ vhci' \in Vhci /\ Exclusive(vhci') /\ Held(vhci') = Held(vhci) \ {p}
        /\ \A id \in Ids : AttachedAt(vhci', id) = AttachedAt(vhci, id) \ {p}
    BY <1>1, <1>2, PortFreed
  <1>4. /\ Held(vhci') = Held(vhci)'
        /\ \A id : AttachedAt(vhci', id) = AttachedAt(vhci, id)'
    BY DEF Held, AttachedAt
  <1>5. surprise' \subseteq Ids /\ Off' = Off \cup ({vhci[p]} \cap Ids)
    BY <1>2, UnseenOK
  <1>6. \A id \in Ids : p \in AttachedAt(vhci, id) => id = vhci[p]
    BY DEF AttachedAt
  <1>7. \A id \in Ids : AttachedAt(vhci', id) = AttachedAt(vhci, id) \/ id \in Off'
    BY <1>3, <1>5, <1>6
  <1> QED BY <1>3, <1>4, <1>5, <1>7

(* What a second `usbip port` says is true of all that are not exempt.     *)
LEMMA AgainOK ==
  ASSUME Typed, Rows, Solo' = Solo, NEW ports, Again(ports), vhci' = vhci
  PROVE  /\ ports \in Vhci /\ Exclusive(ports) /\ surprise' \subseteq Ids /\ Off \subseteq Off'
         /\ \A id \in Ids \ Off' : AttachedAt(ports, id) = AttachedAt(vhci, id)
         /\ Held(ports) \subseteq Held(vhci)
  <1>1. vhci \in Vhci /\ Exclusive(vhci)
    BY DEF Typed, World, Rows
  <1>2. Nothing \in Vhci /\ Exclusive(Nothing) /\ Held(Nothing) = {} /\ Attached(Nothing) = {}
        /\ \A id \in Ids : AttachedAt(Nothing, id) = {}
    BY Names DEF Nothing, Vhci, Exclusive, Held, Attached, AttachedAt
  <1>3. PICK gone : gone = Attached(vhci) \ Attached(ports)
    OBVIOUS
  <1>4. surprise' \subseteq Ids /\ Off' = Off \cup (gone \cap Ids)
    BY <1>3, UnseenOK DEF Again
  <1>5. ports \in {vhci, Nothing}
    BY DEF Again
  <1>6. ASSUME NEW id \in Ids \ Off', ports = Nothing PROVE AttachedAt(vhci, id) = {}
    <2>1. id \notin Attached(vhci)
      BY <1>2, <1>3, <1>4, <1>6
    <2>2. \A p \in AttachedAt(vhci, id) : p \in Held(vhci) /\ vhci[p] = id
      BY Names DEF AttachedAt, Held
    <2>3. \A p \in Held(vhci) : vhci[p] \in Attached(vhci)
      BY DEF Attached
    <2> QED BY <2>1, <2>2, <2>3
  <1> QED BY <1>1, <1>2, <1>4, <1>5, <1>6

(* The first listing shows what is there, and nothing is under way.        *)
LEMMA InitTyped == Init => Typed /\ Rows
  <1> SUFFICES ASSUME Init PROVE Typed /\ Rows
    OBVIOUS
  <1>1. vhci \in Vhci /\ Exclusive(vhci) /\ exported \subseteq Ids /\ trouble \in Nat
    <2>1. PICK w \in Worlds : exported = w.exported /\ vhci = w.vhci /\ trouble = w.trouble
      BY DEF Init
    <2> QED BY <2>1, ListAssumption DEF Vhci, Exclusive
  <1>2. items \in Seq(Row) /\ Uniq(Solo, items)
    BY <1>1, ListingOK DEF Init
  <1>3. \A S : <<>> \in Seq(S)
    OBVIOUS
  <1>4. Uniq(Solo, <<>>) /\ Len(<<>>) = 0
    BY DEF Uniq
  <1>5. Screen
    <2>1. /\ pc = "items" /\ sticky = <<>> /\ processing = <<>>
          /\ refresh_pending = FALSE /\ selected = 0
      BY DEF Init
    <2> QED BY <1>2, <1>3, <2>1 DEF Screen
  <1>6. Channels
    BY DEF Init, Channels
  <1>7. Threads
    BY <1>1, Kinds DEF Init, Threads
  <1>8. World
    BY <1>1 DEF Init, World
  <1>9. Rows
    BY <1>1, <1>2, <1>4, Kinds DEF Init, Rows
  <1> QED BY <1>5, <1>6, <1>7, <1>8, <1>9 DEF Typed

(* The loader.                                                             *)
LEMMA TypedLoadBegin == Typed /\ Rows /\ Solo' = Solo /\ LoadBegin => Typed' /\ Rows'
  <1> SUFFICES ASSUME Typed, Rows, Solo' = Solo, LoadBegin PROVE Typed' /\ Rows'
    OBVIOUS
  <1>1. Screen'
    BY DEF Typed, Screen, LoadBegin, shown
  <1>2. refreshq \in Seq(BOOLEAN) /\ refreshq # <<>>
    BY DEF Typed, Channels, LoadBegin
  <1>3. Head(refreshq) \in BOOLEAN /\ Tail(refreshq) \in Seq(BOOLEAN)
    BY <1>2
  <1>4. Channels'
    BY <1>3 DEF Typed, Channels, LoadBegin
  <1>5. /\ loader' \in Snapshot \/ loader' \in Recovering
        /\ loader'.at = "load" => loader'.ports = vhci
        /\ UNCHANGED trouble \/ Trouble
    <2>1. CASE loader' = [at |-> "load", current |-> Head(refreshq), ports |-> vhci] /\ UNCHANGED trouble
      BY <1>3, <2>1 DEF Typed, World, Snapshot
    <2>2. CASE loader' = [at |-> "recover", current |-> Head(refreshq), ports |-> InUse] /\ Trouble
      <3>1. InUse \subseteq PortSet
        BY DEF InUse, Held
      <3>2. loader' \in Recovering /\ loader'.at = "recover"
        BY <1>3, <2>2, <3>1 DEF Recovering
      <3> QED BY <2>2, <3>2
    <2> QED BY <2>1, <2>2 DEF LoadBegin
  <1>6. Threads'
    BY <1>5 DEF Typed, Threads, LoadBegin
  <1>7. World'
    BY <1>5, LoopGoesOn DEF Typed, World, LoadBegin, server
  <1>8. Rows'
    BY <1>5 DEF Rows, LoadBegin, shown
  <1> QED BY <1>1, <1>4, <1>6, <1>7, <1>8 DEF Typed

LEMMA TypedLoadRecover ==
  Typed /\ Rows /\ Solo' = Solo /\ (LoadRecover \/ LoadRecovered) => Typed' /\ Rows'
  <1> SUFFICES ASSUME Typed, Rows, Solo' = Solo, LoadRecover \/ LoadRecovered PROVE Typed' /\ Rows'
    OBVIOUS
  <1>1. UNCHANGED <<pc, shown, queues, worker, cache, leaving, quit, exported, trouble>>
    BY DEF LoadRecover, LoadRecovered, server
  <1>2. loader \in Recovering
    BY Kinds DEF Typed, Threads, LoadRecover, LoadRecovered
  <1>3. /\ loader' \in Snapshot \/ loader' \in Recovering
        /\ loader'.at = "load" => Exclusive(loader'.ports)
        /\ vhci' \in Vhci /\ Exclusive(vhci') /\ surprise' \subseteq Ids
    <2>1. CASE LoadRecover
      <3>1. loader' = [loader EXCEPT !.ports = @ \ {First(@)}]
        BY <2>1 DEF LoadRecover
      <3>2. loader' \in Recovering /\ loader'.at = "recover"
        BY <1>2, <3>1 DEF Recovering
      <3> QED BY <2>1, <3>2, FreedOK DEF LoadRecover
    <2>2. CASE LoadRecovered
      <3>1. PICK ports : /\ Again(ports)
                         /\ loader' = [at |-> "load", current |-> loader.current, ports |-> ports]
        BY <2>2 DEF LoadRecovered
      <3>2. vhci' = vhci
        BY <2>2 DEF LoadRecovered
      <3>3. ports \in Vhci /\ Exclusive(ports) /\ surprise' \subseteq Ids
        BY <3>1, <3>2, AgainOK
      <3>4. loader' \in Snapshot /\ loader'.ports = ports
        BY <1>2, <3>1, <3>3 DEF Snapshot, Recovering
      <3> QED BY <3>2, <3>3, <3>4 DEF Typed, World, Rows
    <2> QED BY <2>1, <2>2
  <1>4. Screen' /\ Channels' /\ Threads' /\ World'
    BY <1>1, <1>3 DEF Typed, Screen, Channels, Threads, World, shown, queues
  <1>5. Rows'
    BY <1>1, <1>3 DEF Rows, shown, queues
  <1> QED BY <1>4, <1>5 DEF Typed

(* What a listing says, and of what time.                                  *)
LEMMA LoadedOK ==
  ASSUME Typed, Rows, LoadEnd
  PROVE  \E ok \in BOOLEAN, known \in SUBSET Ids, occupied \in {{}, Attached(vhci)}, a \in Answer :
           /\ cache' = known /\ itemsq' = Append(itemsq, a)
           /\ a.current = loader.current /\ a.ok = ok
           /\ a.rows = IF ok THEN Listing(loader.ports, known, occupied) ELSE <<>>
           /\ Uniq(Solo, a.rows)
           /\ loader \in Snapshot /\ loader' = Idle /\ loader.ports \in Vhci
           /\ UNCHANGED trouble \/ Trouble
  <1>1. loader \in Snapshot
    BY Kinds DEF Typed, Threads, LoadEnd
  <1>2. PICK ok \in BOOLEAN, known \in SUBSET Ids : Loaded(ok, known) /\ (UNCHANGED trouble \/ Trouble)
    BY DEF LoadEnd, Typed, Threads, World
  <1>3. PICK occupied \in {{}, Attached(vhci)} :
          itemsq' = Append(itemsq, [current |-> loader.current, ok |-> ok,
                      rows |-> IF ok THEN Listing(loader.ports, known, occupied) ELSE <<>>])
    BY <1>2 DEF Loaded, Occupied
  <1>4. PICK rows : rows = IF ok THEN Listing(loader.ports, known, occupied) ELSE <<>>
    OBVIOUS
  <1>5. loader.ports \in Vhci /\ Exclusive(loader.ports) /\ loader.current \in BOOLEAN
    BY <1>1, Kinds DEF Rows
  <1>6. rows \in Seq(Row) /\ Uniq(Solo, rows)
    <2>1. CASE ok
      BY <1>4, <1>5, <2>1, ListingOK
    <2>2. CASE ~ok
      BY <1>4, <2>2 DEF Uniq
    <2> QED BY <2>1, <2>2
  <1>7. PICK a : a = [current |-> loader.current, ok |-> ok, rows |-> rows]
    OBVIOUS
  <1>8. a \in Answer /\ a.rows = rows /\ a.current = loader.current /\ a.ok = ok
    BY <1>5, <1>6, <1>7 DEF Answer
  <1>9. itemsq' = Append(itemsq, a) /\ cache' = known /\ loader' = Idle
    BY <1>2, <1>3, <1>4, <1>7 DEF Loaded, LoadEnd
  <1>10. a.rows = IF ok THEN Listing(loader.ports, known, occupied) ELSE <<>>
    BY <1>4, <1>8
  <1>11. Uniq(Solo, a.rows)
    BY <1>6, <1>8
  <1> QED BY <1>1, <1>2, <1>5, <1>8, <1>9, <1>10, <1>11

LEMMA TypedLoadEnd == Typed /\ Rows /\ Solo' = Solo /\ LoadEnd => Typed' /\ Rows'
  <1> SUFFICES ASSUME Typed, Rows, Solo' = Solo, LoadEnd PROVE Typed' /\ Rows'
    OBVIOUS
  <1>1. PICK a \in Answer : /\ itemsq' = Append(itemsq, a) /\ cache' \subseteq Ids /\ Uniq(Solo, a.rows)
                            /\ loader' = Idle /\ (UNCHANGED trouble \/ Trouble)
    BY LoadedOK
  <1>2. itemsq \in Seq(Answer)
    BY DEF Typed, Channels
  <1>3. itemsq' \in Seq(Answer) /\ \A i \in 1..Len(itemsq') : Uniq(Solo, itemsq'[i].rows)
    <2>1. /\ Append(itemsq, a) \in Seq(Answer) /\ Len(Append(itemsq, a)) = Len(itemsq) + 1
          /\ \A i \in 1..Len(itemsq) : Append(itemsq, a)[i] = itemsq[i]
          /\ Append(itemsq, a)[Len(itemsq) + 1] = a /\ Len(itemsq) \in Nat
      BY <1>2, Channel
    <2>2. ASSUME NEW i \in 1..Len(itemsq') PROVE i \in 1..Len(itemsq) \/ i = Len(itemsq) + 1
      BY <1>1, <2>1
    <2> QED BY <1>1, <2>1, <2>2 DEF Rows
  <1>4. Screen'
    BY DEF Typed, Screen, LoadEnd, shown
  <1>5. Channels'
    BY <1>3 DEF Typed, Channels, LoadEnd
  <1>6. Threads'
    BY <1>1 DEF Typed, Threads, LoadEnd
  <1>7. World'
    BY <1>1, LoopGoesOn DEF Typed, World, LoadEnd, server
  <1>8. Rows'
    BY <1>1, <1>3, Kinds DEF Rows, LoadEnd, shown
  <1> QED BY <1>4, <1>5, <1>6, <1>7, <1>8 DEF Typed

(* The worker.                                                             *)
LEMMA TypedWorkShown == Typed /\ Rows /\ Solo' = Solo /\ WorkShown => Typed' /\ Rows'
  <1> SUFFICES ASSUME Typed, Rows, Solo' = Solo, WorkShown PROVE Typed' /\ Rows'
    OBVIOUS
  <1>1. Head(actq) \in Action /\ Tail(actq) \in Seq(Action)
    BY Channel DEF Typed, Channels, WorkShown
  <1>2. Screen'
    BY DEF Typed, Screen, WorkShown, shown
  <1>3. Channels'
    BY <1>1 DEF Typed, Channels, WorkShown
  <1>4. worker' \in Task /\ \E p \in PortSet : worker'.ports = {p}
    BY <1>1 DEF WorkShown, Working, Task
  <1>5. Threads'
    BY <1>4 DEF Typed, Threads, WorkShown
  <1>6. World'
    BY DEF Typed, World, WorkShown, outside, server
  <1>7. Rows'
    BY DEF Rows, WorkShown, outside, shown
  <1> QED BY <1>2, <1>3, <1>5, <1>6, <1>7 DEF Typed

(* What a lookup decides from what it was told of the ports.               *)
Chosen(task, ports, act) ==
  /\ task \in Task /\ task.act = act /\ task.locked
  /\ \/ /\ task.at = "detach"
        /\ \E p \in PortSet : /\ task.ports = {p}
                              /\ act.item.id \in Solo => p \in AttachedAt(ports, act.item.id)
     \/ /\ task.at = "query"
        /\ act.item.id \in Solo => AttachedAt(ports, act.item.id) = {}

LEMMA LooksOK ==
  ASSUME Typed, NEW ports \in Vhci, NEW act \in Action, Looks(act, ports)
  PROVE  /\ cache' \subseteq Ids /\ (UNCHANGED trouble \/ Trouble)
         /\ \/ doneq' = doneq /\ Chosen(worker', ports, act)
            \/ doneq' = Append(doneq, [act |-> act, ok |-> FALSE]) /\ worker' = Idle
  <1>1. CASE /\ \/ /\ cache' = (IF Asks(ports) THEN exported ELSE cache) /\ UNCHANGED trouble
                \/ Asks(ports) /\ Held(ports) # {} /\ UNCHANGED cache /\ Trouble
             /\ \E occupied \in Occupied :
                  Found(act, RowOf(Listing(ports, cache', occupied), act.item.id))
    <2>1. cache' \subseteq Ids /\ (UNCHANGED trouble \/ Trouble)
      BY <1>1 DEF Typed, Threads, World
    <2>2. PICK occupied : Found(act, RowOf(Listing(ports, cache', occupied), act.item.id))
      BY <1>1
    <2>3. PICK known : known = cache'
      OBVIOUS
    <2>4. PICK list : list = Listing(ports, known, occupied)
      OBVIOUS
    <2>5. list \in Seq(Row) /\ \A i \in 1..Len(list) : Shows(list[i], ports, occupied)
      BY <2>4, ListingOK
    <2>6. PICK id \in Ids : id = act.item.id
      BY Kinds
    <2>7. PICK row : row = RowOf(list, id)
      OBVIOUS
    <2>8. Found(act, row)
      BY <2>2, <2>3, <2>4, <2>6, <2>7
    <2>9. row # <<>> => /\ row[1].label \in Labels
                        /\ id \in Solo =>
                             /\ row[1].label \in PortSet => row[1].label \in AttachedAt(ports, id)
                             /\ row[1].label = "free" => AttachedAt(ports, id) = {}
      <3>1. CASE id \in Listed(list)
        <4>1. PICK i \in 1..Len(list) : list[i].id = id /\ row = <<list[i]>>
          BY <2>5, <2>7, <3>1, RowOfOK
        <4>2. row[1] = list[i] /\ list[i].label \in Labels
          BY <2>5, <4>1, ListedRows
        <4>3. Shows(list[i], ports, occupied)
          BY <2>5
        <4>4. AttachedAt(ports, id) \subseteq PortSet
          BY DEF AttachedAt
        <4>5. id \in Solo => IF AttachedAt(ports, id) # {} THEN list[i].label \in AttachedAt(ports, id)
                             ELSE list[i].label \in {"locked", "free"}
          BY <4>1, <4>3 DEF Shows
        <4> QED BY <4>2, <4>4, <4>5, Names
      <3>2. CASE id \notin Listed(list)
        BY <2>5, <2>7, <3>2, RowOfOK
      <3> QED BY <3>1, <3>2
    <2>10. CASE row # <<>> /\ row[1].label \in PortSet /\ UNCHANGED doneq
                /\ Working("detach", act, {row[1].label}, TRUE)
      <3>1. worker' = [at |-> "detach", act |-> act, ports |-> {row[1].label}, locked |-> TRUE]
        BY <2>10 DEF Working
      <3>2. worker' \in Task /\ worker'.at = "detach" /\ worker'.act = act /\ worker'.locked
            /\ worker'.ports = {row[1].label}
        BY <2>10, <3>1 DEF Task
      <3>3. Chosen(worker', ports, act)
        BY <2>6, <2>9, <2>10, <3>2 DEF Chosen
      <3> QED BY <2>1, <2>10, <3>3
    <2>11. CASE row # <<>> /\ row[1].label = "free" /\ UNCHANGED doneq /\ Working("query", act, {}, TRUE)
      <3>1. worker' = [at |-> "query", act |-> act, ports |-> {}, locked |-> TRUE]
        BY <2>11 DEF Working
      <3>2. worker' \in Task /\ worker'.at = "query" /\ worker'.act = act /\ worker'.locked
        BY <3>1 DEF Task
      <3>3. Chosen(worker', ports, act)
        BY <2>6, <2>9, <2>11, <3>2 DEF Chosen
      <3> QED BY <2>1, <2>11, <3>3
    <2>12. CASE Result(act, FALSE) /\ worker' = Idle
      BY <2>1, <2>12 DEF Result
    <2> QED BY <2>8, <2>10, <2>11, <2>12 DEF Found
  <1>2. CASE /\ Held(ports) = {} /\ UNCHANGED cache /\ Trouble
             /\ Result(act, FALSE) /\ worker' = Idle
    BY <1>2 DEF Result, Typed, Threads
  <1> QED BY <1>1, <1>2 DEF Looks

(* The ways in which a lookup begins and ends.                             *)
LEMMA Toggles ==
  ASSUME Typed, Rows, WorkToggle
  PROVE  /\ actq # <<>> /\ Head(actq) \in Action /\ Tail(actq) \in Seq(Action) /\ actq' = Tail(actq)
         /\ worker = Idle /\ loader = Idle /\ Head(actq).item.label \notin PortSet
         /\ cache' \subseteq Ids /\ (UNCHANGED trouble \/ Trouble)
         /\ \/ doneq' = doneq /\ Chosen(worker', vhci, Head(actq))
            \/ /\ doneq' = doneq /\ worker' \in Task /\ worker'.act = Head(actq)
               /\ worker'.at = "recover" /\ worker'.locked
            \/ doneq' = Append(doneq, [act |-> Head(actq), ok |-> FALSE]) /\ worker' = Idle
         /\ UNCHANGED <<pc, shown, refreshq, itemsq, loader, leaving, quit, exported, vhci, surprise>>
  <1>1. Head(actq) \in Action /\ Tail(actq) \in Seq(Action)
    BY Channel DEF Typed, Channels, WorkToggle
  <1>2. vhci \in Vhci
    BY DEF Typed, World
  <1>3. PICK act \in Action : act = Head(actq)
    BY <1>1
  <1>4. CASE Looks(act, vhci)
    <2>1. /\ cache' \subseteq Ids /\ (UNCHANGED trouble \/ Trouble)
          /\ \/ doneq' = doneq /\ Chosen(worker', vhci, act)
             \/ doneq' = Append(doneq, [act |-> act, ok |-> FALSE]) /\ worker' = Idle
      BY <1>2, <1>4, LooksOK
    <2> QED BY <1>1, <1>3, <2>1 DEF WorkToggle, server
  <1>5. CASE Trouble /\ Working("recover", act, InUse, TRUE) /\ UNCHANGED <<doneq, cache>>
    <2>1. worker' = [at |-> "recover", act |-> act, ports |-> InUse, locked |-> TRUE]
      BY <1>5 DEF Working
    <2>2. InUse \subseteq PortSet
      BY DEF InUse, Held
    <2>3. worker' \in Task /\ worker'.act = act /\ worker'.at = "recover" /\ worker'.locked
      BY <2>1, <2>2 DEF Task
    <2>4. cache' \subseteq Ids
      BY <1>5 DEF Typed, Threads
    <2> QED BY <1>1, <1>3, <1>5, <2>3, <2>4 DEF WorkToggle, server
  <1> QED BY <1>3, <1>4, <1>5 DEF WorkToggle

LEMMA ChosenTask ==
  ASSUME NEW task, NEW ports, NEW act, Chosen(task, ports, act)
  PROVE  task \in Task /\ task.act = act /\ task # Idle
         /\ (task.at = "detach" => \E p \in PortSet : task.ports = {p})
  BY Kinds DEF Chosen

(* A result on its way keeps the channel's shape.                          *)
LEMMA ResultSent ==
  ASSUME Typed, NEW act \in Action, NEW ok \in BOOLEAN, Result(act, ok)
  PROVE  doneq' \in Seq(Report)
  <1>1. [act |-> act, ok |-> ok] \in Report
    BY DEF Report
  <1> QED BY <1>1 DEF Typed, Channels, Result

LEMMA TypedWorkToggle == Typed /\ Rows /\ Solo' = Solo /\ WorkToggle => Typed' /\ Rows'
  <1> SUFFICES ASSUME Typed, Rows, Solo' = Solo, WorkToggle PROVE Typed' /\ Rows'
    OBVIOUS
  <1>1. doneq' \in Seq(Report)
    <2>1. doneq' = doneq \/ Result(Head(actq), FALSE)
      BY Toggles DEF Result
    <2> QED BY <2>1, Toggles, ResultSent DEF Typed, Channels
  <1>2. (worker' = Idle \/ worker' \in Task) /\ (worker'.at = "detach" => \E p \in PortSet : worker'.ports = {p})
    BY Toggles, ChosenTask, Kinds
  <1>3. Screen'
    BY Toggles DEF Typed, Screen, shown
  <1>4. Channels'
    BY <1>1, Toggles DEF Typed, Channels
  <1>5. Threads'
    BY <1>2, Toggles DEF Typed, Threads
  <1>6. World'
    BY Toggles, LoopGoesOn DEF Typed, World
  <1>7. Rows'
    BY Toggles DEF Rows, shown
  <1> QED BY <1>3, <1>4, <1>5, <1>6, <1>7 DEF Typed

(* What the worker does with an action in hand: it goes on with it, or     *)
(* reports it.                                                             *)
GoesOn ==
  /\ doneq' = doneq /\ worker' \in Task /\ worker'.act = worker.act
  /\ worker'.at = "detach" => \E p \in PortSet : worker'.ports = {p}
Reports == worker' = Idle /\ \E ok \in BOOLEAN : Result(worker.act, ok)
InHand ==
  /\ worker \in Task /\ (GoesOn \/ Reports)
  /\ vhci' \in Vhci /\ Exclusive(vhci') /\ surprise' \subseteq Ids
  /\ (UNCHANGED trouble \/ Trouble) /\ cache' \subseteq Ids
  /\ UNCHANGED <<pc, shown, refreshq, itemsq, actq, loader, leaving, quit, exported>>

LEMMA InHandRecover ==
  ASSUME Typed, Rows, Solo' = Solo, WorkRecover \/ WorkRecovered
  PROVE  InHand
  <1>1. worker \in Task /\ worker # Idle /\ worker.act \in Action
    BY Kinds DEF Typed, Threads, WorkRecover, WorkRecovered
  <1>2. CASE WorkRecover
    <2>1. worker' = [worker EXCEPT !.ports = @ \ {First(@)}] /\ worker.at \in {"recover", "requery"}
      BY <1>2 DEF WorkRecover
    <2>2. worker' \in Task /\ worker'.act = worker.act /\ worker'.at \in {"recover", "requery"}
      BY <1>1, <2>1 DEF Task
    <2>3. vhci' \in Vhci /\ Exclusive(vhci') /\ surprise' \subseteq Ids
      BY <1>2, FreedOK DEF WorkRecover
    <2>4. UNCHANGED <<pc, shown, queues, loader, cache, leaving, quit, exported, trouble>>
      BY <1>2 DEF WorkRecover, server
    <2> QED BY <1>1, <2>2, <2>3, <2>4 DEF InHand, GoesOn, Typed, Threads, queues
  <1>3. CASE WorkRecovered
    <2>1. PICK ports : Again(ports) /\ Looks(worker.act, ports)
      BY <1>3 DEF WorkRecovered
    <2>2. vhci' = vhci
      BY <1>3 DEF WorkRecovered
    <2>3. ports \in Vhci /\ surprise' \subseteq Ids
      BY <2>1, <2>2, AgainOK
    <2>4. /\ cache' \subseteq Ids /\ (UNCHANGED trouble \/ Trouble)
          /\ \/ doneq' = doneq /\ Chosen(worker', ports, worker.act)
             \/ doneq' = Append(doneq, [act |-> worker.act, ok |-> FALSE]) /\ worker' = Idle
      BY <1>1, <2>1, <2>3, LooksOK
    <2>5. GoesOn \/ Reports
      BY <2>4, ChosenTask DEF GoesOn, Reports, Result
    <2>6. vhci' \in Vhci /\ Exclusive(vhci')
      BY <2>2 DEF Typed, World, Rows
    <2>7. UNCHANGED <<pc, shown, refreshq, itemsq, actq, loader, leaving, quit, exported>>
      BY <1>3 DEF WorkRecovered, server
    <2> QED BY <1>1, <2>3, <2>4, <2>5, <2>6, <2>7 DEF InHand
  <1> QED BY <1>2, <1>3

LEMMA ClearsOK ==
  ASSUME NEW act \in Action, NEW ports \in Vhci, Clears(act, ports)
  PROVE  /\ worker' \in Task /\ worker'.act = act /\ worker'.locked
         /\ worker'.at \in {"attach", "clear"}
         /\ act.item.id \in Solo => /\ worker'.at = "clear" <=> AttachedAt(ports, act.item.id) # {}
  <1>1. PICK at : at = Matching(ports, act.item.id)
    OBVIOUS
  <1>2. at \subseteq PortSet /\ (act.item.id \in Solo => at = AttachedAt(ports, act.item.id))
    BY <1>1, MatchingSolo
  <1>3. worker' = IF at = {} THEN [at |-> "attach", act |-> act, ports |-> {}, locked |-> TRUE]
                  ELSE [at |-> "clear", act |-> act, ports |-> at, locked |-> TRUE]
    BY <1>1 DEF Clears, Working
  <1>4. CASE at = {}
    BY <1>2, <1>3, <1>4 DEF Task
  <1>5. CASE at # {}
    BY <1>2, <1>3, <1>5 DEF Task
  <1> QED BY <1>4, <1>5

LEMMA InHandQuery ==
  ASSUME Typed, Rows, Solo' = Solo, WorkQuery \/ WorkRequeried
  PROVE  InHand
  <1>1. worker \in Task /\ worker # Idle /\ worker.act \in Action
    BY Kinds DEF Typed, Threads, WorkQuery, WorkRequeried
  <1>2. /\ UNCHANGED <<pc, shown, queues, loader, cache, leaving, quit, exported, vhci>>
    BY DEF WorkQuery, WorkRequeried, server
  <1>3. vhci \in Vhci /\ Exclusive(vhci) /\ cache \subseteq Ids /\ surprise \subseteq Ids
    BY DEF Typed, World, Threads, Rows
  <1>4. CASE WorkQuery
    <2>1. GoesOn /\ (UNCHANGED trouble \/ Trouble)
      <3>1. CASE Clears(worker.act, vhci) /\ UNCHANGED trouble
        BY <1>1, <1>2, <1>3, <3>1, ClearsOK DEF GoesOn, queues
      <3>2. CASE Working("requery", worker.act, InUse, TRUE) /\ Trouble
        <4>1. worker' = [at |-> "requery", act |-> worker.act, ports |-> InUse, locked |-> TRUE]
          BY <3>2 DEF Working
        <4>2. InUse \subseteq PortSet
          BY DEF InUse, Held
        <4>3. worker' \in Task /\ worker'.act = worker.act /\ worker'.at = "requery"
          BY <1>1, <4>1, <4>2 DEF Task
        <4> QED BY <1>2, <3>2, <4>3 DEF GoesOn, queues
      <3> QED BY <1>4, <3>1, <3>2 DEF WorkQuery
    <2>2. surprise' = surprise
      BY <1>4 DEF WorkQuery
    <2> QED BY <1>1, <1>2, <1>3, <2>1, <2>2 DEF InHand, queues
  <1>5. CASE WorkRequeried
    <2>1. PICK ports : Again(ports) /\ Clears(worker.act, ports)
      BY <1>5 DEF WorkRequeried
    <2>2. ports \in Vhci /\ surprise' \subseteq Ids
      BY <1>2, <2>1, AgainOK
    <2>3. GoesOn
      BY <1>1, <1>2, <2>1, <2>2, ClearsOK DEF GoesOn, queues
    <2>4. trouble' = trouble
      BY <1>5 DEF WorkRequeried
    <2> QED BY <1>1, <1>2, <1>3, <2>2, <2>3, <2>4 DEF InHand, queues
  <1> QED BY <1>4, <1>5

LEMMA InHandClear ==
  ASSUME Typed, Rows, Solo' = Solo, WorkClear
  PROVE  InHand
  <1>1. worker \in Task /\ worker # Idle /\ worker.act \in Action /\ worker.ports \subseteq PortSet
    BY Kinds DEF Typed, Threads, WorkClear
  <1>2. UNCHANGED <<pc, shown, refreshq, itemsq, actq, loader, cache, leaving, quit, exported>>
    BY DEF WorkClear, server
  <1>3. vhci \in Vhci /\ Exclusive(vhci) /\ cache \subseteq Ids /\ surprise \subseteq Ids
    BY DEF Typed, World, Threads, Rows
  <1>4. PICK p, left : p = First(worker.ports) /\ left = worker.ports \ {p}
    OBVIOUS
  <1>5. vhci' \in Vhci /\ Exclusive(vhci') /\ surprise' \subseteq Ids
    <2>1. CASE Freed(p)
      BY <2>1, FreedOK
    <2>2. CASE UNCHANGED <<vhci, surprise>>
      BY <1>3, <2>2
    <2> QED BY <1>4, <2>1, <2>2 DEF WorkClear
  <1>6. (GoesOn \/ Reports) /\ (UNCHANGED trouble \/ Trouble)
    <2>1. CASE /\ UNCHANGED <<doneq, trouble>>
               /\ Working(IF left = {} THEN "attach" ELSE "clear", worker.act, left, TRUE)
      <3>1. worker' = [at |-> IF left = {} THEN "attach" ELSE "clear", act |-> worker.act,
                       ports |-> left, locked |-> TRUE]
        BY <2>1 DEF Working
      <3>2. worker' \in Task /\ worker'.act = worker.act /\ worker'.at # "detach"
        BY <1>1, <1>4, <3>1 DEF Task
      <3> QED BY <2>1, <3>2 DEF GoesOn
    <2>2. CASE Result(worker.act, FALSE) /\ worker' = Idle /\ (UNCHANGED trouble \/ Trouble)
      BY <2>2 DEF Reports
    <2> QED BY <1>4, <2>1, <2>2 DEF WorkClear
  <1> QED BY <1>1, <1>2, <1>3, <1>5, <1>6 DEF InHand

(* What a command can do to the ports.                                     *)
LEMMA EffectOK ==
  ASSUME Typed, Rows, Solo' = Solo, worker # Idle, NEW ok \in BOOLEAN, Effect(ok)
  PROVE  vhci' \in Vhci /\ Exclusive(vhci') /\ surprise' \subseteq Ids
  <1>1. worker \in Task /\ worker.act \in Action /\ worker.act.item.id \in Ids
    BY Kinds DEF Typed, Threads
  <1>2. vhci \in Vhci /\ Exclusive(vhci)
    BY DEF Typed, World, Rows
  <1>3. \A announced, id : AsShown(announced, id) => surprise' \subseteq Ids
    BY UnseenOK DEF AsShown
  <1>4. CASE worker.at = "detach"
    <2>1. PICK p \in worker.ports :
            /\ vhci' = [vhci EXCEPT ![p] = None]
            /\ AsShown(ok /\ ~worker.act.attach /\ vhci[p] = worker.act.item.id, vhci[p])
      BY <1>4 DEF Effect
    <2> QED BY <1>2, <1>3, <2>1, PortFreed
  <1>5. CASE worker.at = "attach"
    <2>1. PICK p \in PortSet : vhci[p] = None /\ vhci' = [vhci EXCEPT ![p] = worker.act.item.id]
      BY <1>5 DEF Effect
    <2>2. AttachedAt(vhci, worker.act.item.id) = {} /\ AsShown(ok /\ worker.act.attach, worker.act.item.id)
      BY <1>5 DEF Effect
    <2> QED BY <1>1, <1>2, <1>3, <2>1, <2>2, PortTaken
  <1> QED BY <1>4, <1>5 DEF Effect

LEMMA InHandDone ==
  ASSUME Typed, Rows, Solo' = Solo, WorkDone
  PROVE  InHand
  <1>1. worker \in Task /\ worker # Idle
    BY DEF Typed, Threads, WorkDone
  <1>2. vhci' \in Vhci /\ Exclusive(vhci') /\ surprise' \subseteq Ids
    <2>1. CASE Effect(TRUE) \/ Effect(FALSE)
      BY <1>1, <2>1, EffectOK
    <2>2. CASE UNCHANGED <<vhci, surprise>>
      BY <2>2 DEF Typed, World, Rows
    <2> QED BY <2>1, <2>2 DEF WorkDone
  <1>3. Reports /\ (UNCHANGED trouble \/ Trouble)
    BY DEF WorkDone, Reports
  <1>4. UNCHANGED <<pc, shown, refreshq, itemsq, actq, loader, cache, leaving, quit, exported>>
    BY DEF WorkDone, server
  <1> QED BY <1>1, <1>2, <1>3, <1>4 DEF InHand, Typed, Threads

LEMMA TypedInHand == Typed /\ Rows /\ Solo' = Solo /\ InHand => Typed' /\ Rows'
  <1> SUFFICES ASSUME Typed, Rows, Solo' = Solo, InHand PROVE Typed' /\ Rows'
    OBVIOUS
  <1>1. doneq' \in Seq(Report)
    BY ResultSent, Kinds DEF InHand, GoesOn, Reports, Typed, Channels
  <1>2. (worker' = Idle \/ worker' \in Task) /\ (worker'.at = "detach" => \E p \in PortSet : worker'.ports = {p})
    BY Kinds DEF InHand, GoesOn, Reports
  <1>3. Screen'
    BY DEF Typed, Screen, InHand, shown
  <1>4. Channels'
    BY <1>1 DEF Typed, Channels, InHand
  <1>5. Threads'
    BY <1>2 DEF Typed, Threads, InHand
  <1>6. World'
    BY LoopGoesOn DEF Typed, World, InHand
  <1>7. Rows'
    BY DEF Rows, InHand, shown
  <1> QED BY <1>3, <1>4, <1>5, <1>6, <1>7 DEF Typed

LEMMA TypedStraggler == Typed /\ Rows /\ Solo' = Solo /\ Straggler => Typed' /\ Rows'
  <1> SUFFICES ASSUME Typed, Rows, Solo' = Solo, Straggler PROVE Typed' /\ Rows'
    OBVIOUS
  <1>1. vhci' \in Vhci /\ Exclusive(vhci') /\ surprise' \subseteq Ids
    <2>1. CASE worker # Idle /\ Effect(FALSE)
      BY <2>1, EffectOK
    <2>2. CASE \E p : Freed(p)
      BY <2>2, FreedOK
    <2>3. CASE UNCHANGED <<vhci, surprise>>
      BY <2>3 DEF Typed, World, Rows
    <2> QED BY <2>1, <2>2, <2>3 DEF Straggler
  <1>2. (worker' = worker \/ worker' = Idle) /\ (loader' = loader \/ loader' = Idle)
        /\ UNCHANGED <<pc, shown, queues, cache, leaving, quit, exported, trouble>>
    BY DEF Straggler, server
  <1>3. Screen' /\ Channels'
    BY <1>2 DEF Typed, Screen, Channels, shown, queues
  <1>4. Threads'
    BY <1>2, Kinds DEF Typed, Threads
  <1>5. World'
    BY <1>1, <1>2 DEF Typed, World
  <1>6. Rows'
    BY <1>1, <1>2, Kinds DEF Rows, shown, queues
  <1> QED BY <1>3, <1>4, <1>5, <1>6 DEF Typed

(* The main loop.  What a result does to the rows.                         *)
LEMMA LabelsOK ==
  ASSUME NEW row \in Row, NEW attach \in BOOLEAN
  PROVE  [row EXCEPT !.label = optimistic_toggle_label(@, attach)] \in Row
  BY DEF Row, Labels, optimistic_toggle_label

Updated(act) ==
  [i \in 1..Len(items) |->
     IF items[i].id = act.item.id /\ i = Min(At(items, act.item.id))
     THEN [items[i] EXCEPT !.label = optimistic_toggle_label(@, act.attach)]
     ELSE items[i]]

LEMMA UpdatedOK ==
  ASSUME Typed, Rows, NEW act \in Action
  PROVE  /\ Updated(act) \in Seq(Row) /\ Len(Updated(act)) = Len(items)
         /\ \A i \in 1..Len(items) :
              /\ items[i] \in Row /\ Updated(act)[i].id = items[i].id
              /\ items[i].id # act.item.id => Updated(act)[i] = items[i]
              /\ items[i].id = act.item.id /\ items[i].id \in Solo =>
                   Updated(act)[i].label = optimistic_toggle_label(items[i].label, act.attach)
         /\ Uniq(Solo, Updated(act))
  <1>1. PICK n \in Nat : n = Len(items)
    BY DEF Typed, Screen
  <1>2. items \in Seq(Row) /\ \A i \in 1..n : items[i] \in Row
    BY <1>1 DEF Typed, Screen
  <1>3. \A row \in Row : /\ [row EXCEPT !.label = optimistic_toggle_label(@, act.attach)].id = row.id
                         /\ [row EXCEPT !.label = optimistic_toggle_label(@, act.attach)].label
                              = optimistic_toggle_label(row.label, act.attach)
    BY DEF Row
  <1>4. PICK u : u = Updated(act)
    OBVIOUS
  <1>5. PICK first : first = Min(At(items, act.item.id))
    OBVIOUS
  <1>6. u = [i \in 1..n |-> IF items[i].id = act.item.id /\ i = first
                            THEN [items[i] EXCEPT !.label = optimistic_toggle_label(@, act.attach)]
                            ELSE items[i]]
    BY <1>1, <1>4, <1>5 DEF Updated
  <1>7. \A i \in 1..n : items[i].id = act.item.id /\ items[i].id \in Solo => i = first
    <2> SUFFICES ASSUME NEW i \in 1..n, items[i].id = act.item.id, items[i].id \in Solo PROVE i = first
      OBVIOUS
    <2>1. i \in At(items, act.item.id)
      BY <1>1 DEF At
    <2>2. first \in 1..Len(items) /\ items[first].id = act.item.id
      BY <1>2, <1>5, <2>1, FirstAt
    <2> QED BY <1>1, <2>2 DEF Rows, Uniq
  <1>8. \A i \in 1..n :
          /\ u[i] \in Row /\ u[i].id = items[i].id
          /\ items[i].id # act.item.id => u[i] = items[i]
          /\ items[i].id = act.item.id /\ items[i].id \in Solo =>
               u[i].label = optimistic_toggle_label(items[i].label, act.attach)
    <2> TAKE i \in 1..n
    <2>1. act.attach \in BOOLEAN
      BY Kinds
    <2>2. u[i] = IF items[i].id = act.item.id /\ i = first
                 THEN [items[i] EXCEPT !.label = optimistic_toggle_label(@, act.attach)]
                 ELSE items[i]
      BY <1>6
    <2>3. [items[i] EXCEPT !.label = optimistic_toggle_label(@, act.attach)] \in Row
      BY <1>2, <2>1, LabelsOK
    <2> QED BY <1>2, <1>3, <1>7, <2>2, <2>3
  <1>9. u \in Seq(Row) /\ Len(u) = n
    <2>1. u = [i \in 1..n |-> u[i]]
      BY <1>6
    <2>2. \A i \in 1..n : u[i] \in Row
      BY <1>8
    <2> QED BY <2>1, <2>2
  <1>10. Uniq(Solo, u)
    BY <1>1, <1>8, <1>9 DEF Uniq, Rows
  <1> QED BY <1>1, <1>2, <1>4, <1>8, <1>9, <1>10

(* A row that is attached becomes sticky, one that is detached no longer   *)
(* is.                                                                     *)
LEMMA OutcomeOK ==
  ASSUME Typed, Rows, NEW act \in Action, Outcome(act)
  PROVE  /\ items' = Updated(act) /\ items' \in Seq(Row) /\ Uniq(Solo, items')
         /\ sticky' \in Seq(Row) /\ Uniq(Solo, sticky')
         /\ \A i \in 1..Len(sticky') :
              \/ \E j \in 1..Len(sticky) : sticky'[i] = sticky[j] /\ (act.attach \/ sticky[j].id # act.item.id)
              \/ act.attach /\ \E j \in 1..Len(items') : items'[j].id = act.item.id /\ sticky'[i] = items'[j]
  <1>1. items' = Updated(act)
    BY DEF Outcome, Updated
  <1>2. items' \in Seq(Row) /\ Uniq(Solo, items')
    BY <1>1, UpdatedOK DEF Rows
  <1>3. sticky \in Seq(Row) /\ Uniq(Solo, sticky)
    BY DEF Typed, Screen, Rows
  <1>4. PICK id : id = act.item.id
    OBVIOUS
  <1>5. sticky' = IF ~act.attach THEN Without(sticky, {id})
                  ELSE IF id \in Listed(sticky) THEN sticky
                  ELSE sticky \o RowOf(items', id)
    BY <1>4 DEF Outcome
  <1>6. CASE ~act.attach
    <2>0. PICK ids : ids = {id}
      OBVIOUS
    <2>1. PICK w : w = Without(sticky, ids)
      OBVIOUS
    <2>2. /\ w \in Seq(Row) /\ Uniq(Solo, w) /\ Listed(w) = Listed(sticky) \ ids
          /\ \A i \in 1..Len(w) : \E j \in 1..Len(sticky) : w[i] = sticky[j]
      BY <1>3, <2>1, WithoutOK
    <2>3. \A i \in 1..Len(w) : w[i].id \in Listed(w)
      BY DEF Listed
    <2>4. \A i \in 1..Len(w) : \E j \in 1..Len(sticky) : w[i] = sticky[j] /\ sticky[j].id # id
      BY <2>0, <2>2, <2>3
    <2>5. sticky' = w
      BY <1>5, <1>6, <2>0, <2>1
    <2> QED BY <1>1, <1>2, <1>4, <2>2, <2>4, <2>5
  <1>7. CASE act.attach /\ id \in Listed(sticky)
    <2>1. sticky' = sticky
      BY <1>5, <1>7
    <2> QED BY <1>1, <1>2, <1>3, <1>7, <2>1
  <1>8. CASE act.attach /\ id \notin Listed(sticky)
    <2>1. PICK r \in Seq(Row) : r = RowOf(items', id)
      BY <1>2, RowOfOK
    <2>2. sticky' = sticky \o r
      BY <1>5, <1>8, <2>1
    <2>3. CASE id \notin Listed(items')
      <3>1. r = <<>>
        BY <1>2, <2>1, <2>3, RowOfOK
      <3>2. sticky' = sticky
        BY <1>3, <2>2, <3>1
      <3> QED BY <1>1, <1>2, <1>3, <1>8, <3>2
    <2>4. CASE id \in Listed(items')
      <3>1. PICK k \in 1..Len(items') : items'[k].id = id /\ r = <<items'[k]>>
        BY <1>2, <2>1, <2>4, RowOfOK
      <3>2. PICK row : row = items'[k]
        OBVIOUS
      <3>3. Len(r) = 1 /\ r[1] = row /\ row.id = id /\ \A i \in 1..Len(r) : i = 1
        BY <3>1, <3>2
      <3>4. Uniq(Solo, r) /\ Listed(r) = {id}
        BY <3>3 DEF Uniq, Listed
      <3>5. sticky \o r \in Seq(Row) /\ Uniq(Solo, sticky \o r)
        BY <1>3, <1>8, <3>4, UniqAppended
      <3>6. \A i \in 1..Len(sticky \o r) :
              \/ \E j \in 1..Len(sticky) : (sticky \o r)[i] = sticky[j]
              \/ \E j \in 1..Len(r) : (sticky \o r)[i] = r[j]
        BY <1>3, ListedAppended
      <3>7. \A i \in 1..Len(sticky \o r) :
              \/ \E j \in 1..Len(sticky) : (sticky \o r)[i] = sticky[j]
              \/ (sticky \o r)[i] = row
        BY <3>3, <3>6
      <3>8. sticky' \in Seq(Row) /\ Uniq(Solo, sticky')
        BY <2>2, <3>5
      <3>9. \A i \in 1..Len(sticky') :
              \/ \E j \in 1..Len(sticky) : sticky'[i] = sticky[j]
              \/ sticky'[i] = row
        BY <2>2, <3>7
      <3> QED BY <1>1, <1>2, <1>4, <1>8, <3>1, <3>2, <3>8, <3>9
    <2> QED BY <2>3, <2>4
  <1> QED BY <1>6, <1>7, <1>8

LEMMA DrainedResult ==
  ASSUME Typed, DrainResult
  PROVE  /\ doneq # <<>> /\ Head(doneq) \in Report /\ Head(doneq).act \in Action
         /\ doneq' = Tail(doneq) /\ doneq' \in Seq(Report)
         /\ processing' = Retain(processing, Ids \ {Head(doneq).act.item.id})
         /\ processing' \in Seq(Ids)
         /\ IF Head(doneq).ok THEN Outcome(Head(doneq).act) ELSE UNCHANGED <<items, sticky>>
         /\ AskAgain /\ pc' \in {"actions", "items"}
         /\ UNCHANGED <<selected, actq, worker, cache, leaving, quit, outside>>
  <1>1. doneq # <<>> /\ Head(doneq) \in Report /\ Tail(doneq) \in Seq(Report)
    BY Channel DEF Typed, Channels, DrainResult
  <1>2. Head(doneq).act \in Action
    BY <1>1, Kinds
  <1>3. Retain(processing, Ids \ {Head(doneq).act.item.id}) \in Seq(Ids)
    BY RetainSelects DEF Typed, Screen
  <1> QED BY <1>1, <1>2, <1>3, LoopGoesOn DEF DrainResult

LEMMA TypedDrainResult == Typed /\ Rows /\ Solo' = Solo /\ DrainResult => Typed' /\ Rows'
  <1> SUFFICES ASSUME Typed, Rows, Solo' = Solo, DrainResult PROVE Typed' /\ Rows'
    OBVIOUS
  <1>1. /\ Head(doneq).act \in Action /\ doneq' \in Seq(Report) /\ processing' \in Seq(Ids)
        /\ IF Head(doneq).ok THEN Outcome(Head(doneq).act) ELSE UNCHANGED <<items, sticky>>
        /\ AskAgain /\ pc' \in {"actions", "items"}
        /\ UNCHANGED <<selected, actq, worker, cache, leaving, quit, outside>>
    BY DrainedResult
  <1>2. /\ items' \in Seq(Row) /\ Uniq(Solo, items') /\ sticky' \in Seq(Row) /\ Uniq(Solo, sticky')
    <2>1. CASE Head(doneq).ok
      BY <1>1, <2>1, OutcomeOK
    <2>2. CASE ~Head(doneq).ok
      BY <1>1, <2>2 DEF Typed, Screen, Rows
    <2> QED BY <2>1, <2>2
  <1>3. Screen'
    BY <1>1, <1>2, AskAgainOK DEF Typed, Screen
  <1>4. Channels'
    BY <1>1, AskAgainOK DEF Typed, Channels
  <1>5. Threads'
    BY <1>1, AskAgainOK DEF Typed, Threads
  <1>6. World'
    BY <1>1 DEF Typed, World, outside, server
  <1>7. Rows'
    BY <1>1, <1>2, AskAgainOK DEF Rows, outside
  <1> QED BY <1>3, <1>4, <1>5, <1>6, <1>7 DEF Typed

(* A listing that counts: its rows, those with a spinner that it lacks,    *)
(* and the sticky ones that both lack.                                     *)
MergedFrom(all, s, rows) ==
  /\ \A i \in 1..Len(all) :
       \/ \E j \in 1..Len(rows) : all[i] = rows[j]
       \/ \E j \in 1..Len(items) : all[i] = items[j]
       \/ \E j \in 1..Len(sticky) : all[i] = sticky[j]
  /\ \A i \in 1..Len(s) : /\ \E j \in 1..Len(sticky) : s[i] = sticky[j]
                          /\ \E j \in 1..Len(all) : s[i] = all[j]

LEMMA MergedOK ==
  ASSUME Typed, Rows, NEW rows \in Seq(Row), Uniq(Solo, rows), NEW s,
         s = Without(sticky, Listed(merge_retained_items(items, rows, processing)))
  PROVE  /\ Merged(rows) \in Seq(Row) /\ Uniq(Solo, Merged(rows))
         /\ s \in Seq(Row) /\ Uniq(Solo, s)
         /\ MergedFrom(Merged(rows), s, rows)
  <1>1. items \in Seq(Row) /\ sticky \in Seq(Row) /\ processing \in Seq(Ids) /\ Uniq(Solo, sticky)
    BY DEF Typed, Screen, Rows
  <1>2. PICK m : m = merge_retained_items(items, rows, processing)
    OBVIOUS
  <1>3. /\ m \in Seq(Row) /\ Uniq(Solo, m)
        /\ \A i \in 1..Len(m) : \/ \E j \in 1..Len(rows) : m[i] = rows[j]
                                \/ \E j \in 1..Len(items) : m[i] = items[j]
    <2>1. m \in Seq(Row) /\ Uniq(Solo, m) /\ DrawnFrom(m, rows, items)
      BY <1>1, <1>2, MergeOK
    <2> QED BY <2>1 DEF DrawnFrom
  <1>4. /\ s \in Seq(Row) /\ Uniq(Solo, s) /\ Listed(s) = Listed(sticky) \ Listed(m)
        /\ \A i \in 1..Len(s) : \E j \in 1..Len(sticky) : s[i] = sticky[j]
    BY <1>1, <1>2, WithoutOK
  <1>5. PICK all : all = m \o s
    OBVIOUS
  <1>6. Merged(rows) = all
    BY <1>2, <1>5 DEF Merged
  <1>7. all \in Seq(Row) /\ Uniq(Solo, all)
    BY <1>3, <1>4, <1>5, UniqAppended
  <1>8. /\ \A i \in 1..Len(s) : \E j \in 1..Len(all) : s[i] = all[j]
        /\ \A i \in 1..Len(all) : \/ \E j \in 1..Len(m) : all[i] = m[j]
                                  \/ \E j \in 1..Len(s) : all[i] = s[j]
    <2>1. \A i \in 1..Len(s) : i + Len(m) \in 1..Len(m \o s) /\ (m \o s)[i + Len(m)] = s[i]
      BY <1>3, <1>4, ListedAppended
    <2>2. \A i \in 1..Len(m \o s) : \/ \E j \in 1..Len(m) : (m \o s)[i] = m[j]
                                    \/ \E j \in 1..Len(s) : (m \o s)[i] = s[j]
      BY <1>3, <1>4, ListedAppended
    <2> QED BY <1>5, <2>1, <2>2
  <1>9. \A i \in 1..Len(all) :
              \/ \E j \in 1..Len(rows) : all[i] = rows[j]
              \/ \E j \in 1..Len(items) : all[i] = items[j]
              \/ \E j \in 1..Len(sticky) : all[i] = sticky[j]
    <2> SUFFICES ASSUME NEW i \in 1..Len(all)
                 PROVE  \/ \E j \in 1..Len(rows) : all[i] = rows[j]
                        \/ \E j \in 1..Len(items) : all[i] = items[j]
                        \/ \E j \in 1..Len(sticky) : all[i] = sticky[j]
      OBVIOUS
    <2>1. CASE \E j \in 1..Len(m) : all[i] = m[j]
      BY <1>3, <2>1
    <2>2. CASE \E j \in 1..Len(s) : all[i] = s[j]
      BY <1>4, <2>2
    <2> QED BY <1>8, <2>1, <2>2
  <1>10. MergedFrom(all, s, rows)
    BY <1>4, <1>8, <1>9 DEF MergedFrom
  <1> QED BY <1>4, <1>6, <1>7, <1>10

LEMMA DrainedListing ==
  ASSUME Typed, Rows, DrainListing
  PROVE  /\ itemsq # <<>> /\ Head(itemsq) = itemsq[1] /\ 1 \in 1..Len(itemsq)
         /\ Head(itemsq) \in Answer /\ Head(itemsq).rows \in Seq(Row) /\ Uniq(Solo, Head(itemsq).rows)
         /\ itemsq' = Tail(itemsq) /\ itemsq' \in Seq(Answer)
         /\ \A i \in 1..Len(itemsq') : itemsq'[i] = itemsq[i + 1] /\ i + 1 \in 1..Len(itemsq)
  <1>1. itemsq # <<>> /\ itemsq \in Seq(Answer)
    BY DEF Typed, Channels, DrainListing
  <1>2. /\ Head(itemsq) \in Answer /\ Head(itemsq) = itemsq[1] /\ 1 \in 1..Len(itemsq)
        /\ Tail(itemsq) \in Seq(Answer)
        /\ \A i \in 1..Len(Tail(itemsq)) : Tail(itemsq)[i] = itemsq[i + 1] /\ i + 1 \in 1..Len(itemsq)
    BY <1>1, Channel
  <1>3. Head(itemsq).rows \in Seq(Row) /\ Uniq(Solo, Head(itemsq).rows)
    BY <1>2, Kinds DEF Rows
  <1> QED BY <1>1, <1>2, <1>3 DEF DrainListing

LEMMA TypedDrainListing == Typed /\ Rows /\ Solo' = Solo /\ DrainListing => Typed' /\ Rows'
  <1> SUFFICES ASSUME Typed, Rows, Solo' = Solo, DrainListing PROVE Typed' /\ Rows'
    OBVIOUS
  <1>1. PICK l \in Answer : l = Head(itemsq) /\ l.rows \in Seq(Row) /\ Uniq(Solo, l.rows)
    BY DrainedListing
  <1>2. /\ items' \in Seq(Row) /\ Uniq(Solo, items') /\ sticky' \in Seq(Row) /\ Uniq(Solo, sticky')
        /\ selected' \in Nat
    <2>1. CASE l.current /\ l.ok
      <3>1. /\ items' = Merged(l.rows)
            /\ sticky' = Without(sticky, Listed(merge_retained_items(items, l.rows, processing)))
            /\ selected' = preserve_selected_index(items, items', selected)
        BY <1>1, <2>1 DEF DrainListing
      <3>2. items' \in Seq(Row) /\ Uniq(Solo, items') /\ sticky' \in Seq(Row) /\ Uniq(Solo, sticky')
        BY <1>1, <3>1, MergedOK
      <3>3. items \in Seq(Row) /\ selected \in Nat
        BY DEF Typed, Screen
      <3> QED BY <3>1, <3>2, <3>3, PreserveOK
    <2>2. CASE ~(l.current /\ l.ok)
      BY <1>1, <2>2 DEF DrainListing, Typed, Screen, Rows
    <2> QED BY <2>1, <2>2
  <1>3. refresh_pending' \in BOOLEAN
    BY DEF DrainListing
  <1>4. Screen'
    BY <1>2, <1>3 DEF DrainListing, Typed, Screen
  <1>5. Channels'
    BY DrainedListing DEF DrainListing, Typed, Channels
  <1>6. Threads'
    BY DEF DrainListing, Typed, Threads
  <1>7. surprise' \subseteq surprise
    BY DEF DrainListing
  <1>8. World'
    BY <1>7 DEF DrainListing, Typed, World, server
  <1>9. Rows'
    BY <1>2, DrainedListing DEF DrainListing, Rows
  <1> QED BY <1>4, <1>5, <1>6, <1>8, <1>9 DEF Typed

(* The keyboard, and what leaves the rows and the threads alone.           *)
LEMMA TypedKeys ==
  Typed /\ Rows /\ Solo' = Solo /\ (ListingsDrained \/ Tick \/ TimerRefresh \/ Cursor \/ Cancel)
    => Typed' /\ Rows'
  <1> SUFFICES ASSUME Typed, Rows, Solo' = Solo,
                      ListingsDrained \/ Tick \/ TimerRefresh \/ Cursor \/ Cancel
               PROVE  Typed' /\ Rows'
    OBVIOUS
  <1>1. Rows'
    BY DEF Rows, ListingsDrained, Tick, TimerRefresh, Cursor, Cancel, shown, queues, outside
  <1>2. Threads'
    BY DEF Typed, Threads, ListingsDrained, Tick, TimerRefresh, Cursor, Cancel
  <1>3. Channels'
    <2>1. refreshq' = refreshq \/ refreshq' = Append(refreshq, TRUE)
      BY DEF ListingsDrained, Tick, TimerRefresh, Cursor, Cancel, queues
    <2>2. UNCHANGED <<itemsq, actq, doneq>>
      BY DEF ListingsDrained, Tick, TimerRefresh, Cursor, Cancel, queues
    <2>3. \A q \in Seq(BOOLEAN) : Append(q, TRUE) \in Seq(BOOLEAN)
      OBVIOUS
    <2> QED BY <2>1, <2>2, <2>3 DEF Typed, Channels
  <1>4. World'
    <2>1. Held(vhci) \subseteq PortSet /\ InUse \subseteq PortSet
      BY DEF Held, InUse
    <2>2. UNCHANGED <<exported, surprise, vhci>>
      BY DEF ListingsDrained, Tick, TimerRefresh, Cursor, Cancel, outside, server
    <2>3. leaving' = leaving \/ leaving' = Held(vhci) \/ leaving' = InUse
      BY DEF ListingsDrained, Tick, TimerRefresh, Cursor, Cancel
    <2>4. quit' \in {quit, "idle", "busy"}
      BY DEF ListingsDrained, Tick, TimerRefresh, Cursor, Cancel
    <2>5. trouble' = trouble \/ Trouble
      BY DEF ListingsDrained, Tick, TimerRefresh, Cursor, Cancel, outside
    <2> QED BY <2>1, <2>2, <2>3, <2>4, <2>5, LoopGoesOn DEF Typed, World
  <1>5. items \in Seq(Row) /\ selected \in Nat
    BY DEF Typed, Screen
  <1>6. CASE ListingsDrained
    <2>1. Clamp(selected, items) \in Nat /\ Clamp(Clamp(selected, items), items) = Clamp(selected, items)
      BY <1>5, ClampOK
    <2>2. Screen'
      BY <1>6, <2>1 DEF ListingsDrained, Typed, Screen
    <2> QED BY <1>1, <1>2, <1>3, <1>4, <2>2 DEF Typed
  <1>7. CASE Tick \/ TimerRefresh
    <2>1. Screen'
      BY <1>7, LoopGoesOn DEF Tick, TimerRefresh, Typed, Screen, shown
    <2> QED BY <1>1, <1>2, <1>3, <1>4, <2>1 DEF Typed
  <1>8. CASE Cursor
    <2>1. items # <<>> /\ Len(items) \in Nat \ {0}
      BY <1>5, <1>8 DEF Cursor
    <2>2. PICK step \in {1, Len(items) - 1} : selected' = (selected + step) % Len(items)
      BY <1>8 DEF Cursor
    <2>3. \A a \in Nat, b \in Nat \ {0} : a % b \in Nat
      OBVIOUS
    <2>4. selected + step \in Nat
      BY <1>5, <2>1
    <2>5. selected' \in Nat
      BY <2>1, <2>2, <2>3, <2>4
    <2>6. Screen'
      BY <1>8, <2>5, LoopGoesOn DEF Cursor, Typed, Screen
    <2> QED BY <1>1, <1>2, <1>3, <1>4, <2>6 DEF Typed
  <1>9. CASE Cancel
    <2>1. pc = "keys" /\ pc' \in {"actions", "items", "recover", "exit"} /\ UNCHANGED shown
      BY <1>9, LoopGoesOn DEF Cancel
    <2>2. Screen'
      BY <2>1 DEF Typed, Screen, shown
    <2> QED BY <1>1, <1>2, <1>3, <1>4, <2>2 DEF Typed
  <1> QED BY <1>6, <1>7, <1>8, <1>9

(* The row under the cursor is a row.                                      *)
LEMMA UnderCursor ==
  ASSUME Typed, pc = "keys", items # <<>>
  PROVE  selected + 1 \in 1..Len(items) /\ items[selected + 1] \in Row
  <1>1. items \in Seq(Row) /\ selected \in Nat /\ selected = Clamp(selected, items)
    BY DEF Typed, Screen
  <1>2. selected < Len(items)
    BY <1>1, ClampOK
  <1>3. selected + 1 \in 1..Len(items)
    BY <1>1, <1>2
  <1> QED BY <1>1, <1>3

LEMMA TypedActivate == Typed /\ Rows /\ Solo' = Solo /\ Activate => Typed' /\ Rows'
  <1> SUFFICES ASSUME Typed, Rows, Solo' = Solo, Activate PROVE Typed' /\ Rows'
    OBVIOUS
  <1>1. PICK item \in Row : item = items[selected + 1]
    BY UnderCursor DEF Activate
  <1>2. /\ actq' = Append(actq, [item |-> item, attach |-> item.label = "free"])
        /\ processing' = Append(processing, item.id)
    BY <1>1 DEF Activate
  <1>3. [item |-> item, attach |-> item.label = "free"] \in Action /\ item.id \in Ids
    BY DEF Action, Row
  <1>4. actq' \in Seq(Action) /\ processing' \in Seq(Ids)
    BY <1>2, <1>3 DEF Typed, Channels, Screen
  <1>5. Screen'
    BY <1>4, LoopGoesOn DEF Activate, Typed, Screen
  <1>6. Channels'
    BY <1>4 DEF Activate, Typed, Channels
  <1>7. Threads'
    BY DEF Activate, Typed, Threads
  <1>8. World'
    BY DEF Activate, Typed, World, outside, server
  <1>9. Rows'
    BY DEF Activate, Rows, outside
  <1> QED BY <1>5, <1>6, <1>7, <1>8, <1>9 DEF Typed

(* Nothing is left of rows and channels when the process ends.             *)
LEMMA TypedLeaves ==
  ASSUME Typed, Rows, Solo' = Solo, Leaves, UNCHANGED <<loader, worker, vhci, surprise, exported, leaving>>,
         quit' \in {quit, "esc"}, trouble' = trouble
  PROVE  Typed' /\ Rows'
  <1>1. /\ pc' = "left" /\ items' = <<>> /\ selected' = 0 /\ processing' = <<>> /\ sticky' = <<>>
        /\ refresh_pending' = FALSE /\ refreshq' = <<>> /\ itemsq' = <<>> /\ actq' = <<>>
        /\ doneq' = <<>> /\ cache' = {}
    BY DEF Leaves
  <1>2. \A S : <<>> \in Seq(S)
    OBVIOUS
  <1>3. Uniq(Solo', <<>>) /\ Len(<<>>) = 0
    BY DEF Uniq
  <1>4. Screen' /\ Channels'
    BY <1>1, <1>2 DEF Screen, Channels
  <1>5. Threads' /\ World'
    BY <1>1 DEF Typed, Threads, World
  <1>6. Rows'
    BY <1>1, <1>3 DEF Rows
  <1> QED BY <1>4, <1>5, <1>6 DEF Typed

LEMMA TypedEsc == Typed /\ Rows /\ Solo' = Solo /\ Esc => Typed' /\ Rows'
  BY TypedLeaves DEF Esc, outside, server

(* The exit closure empties ports, or gives up, or is done.                *)
LEMMA TypedExit ==
  Typed /\ Rows /\ Solo' = Solo /\ (ExitRecover \/ ExitRecovered \/ ExitDetach \/ ExitDone)
    => Typed' /\ Rows'
  <1> SUFFICES ASSUME Typed, Rows, Solo' = Solo, ExitRecover \/ ExitRecovered \/ ExitDetach \/ ExitDone
               PROVE  Typed' /\ Rows'
    OBVIOUS
  <1>1. CASE ExitDone /\ Leaves /\ UNCHANGED <<quit, trouble>>
    BY <1>1, TypedLeaves DEF ExitDone, server
  <1>2. CASE ~(ExitDone /\ Leaves /\ UNCHANGED <<quit, trouble>>)
    <2>1. /\ pc \in {"recover", "exit"}
          /\ UNCHANGED <<items, processing, sticky, refresh_pending, queues, loader, worker, cache,
                         exported>>
      BY <1>2 DEF ExitRecover, ExitRecovered, ExitDetach, ExitDone, shown, server
    <2>2. vhci' \in Vhci /\ Exclusive(vhci') /\ surprise' \subseteq Ids
      <3>1. CASE \E p : Freed(p)
        BY <3>1, FreedOK
      <3>2. CASE vhci' = vhci /\ \E ports : Again(ports)
        BY <3>2, AgainOK DEF Typed, World, Rows
      <3>3. CASE UNCHANGED <<vhci, surprise>>
        BY <3>3 DEF Typed, World, Rows
      <3>4. \A p : vhci' = [vhci EXCEPT ![p] = None] /\ Unseen({vhci[p]}) => Freed(p)
        BY DEF Freed
      <3>5. CASE ExitRecover
        BY <3>1, <3>5 DEF ExitRecover
      <3>6. CASE ExitRecovered
        BY <3>2, <3>6 DEF ExitRecovered
      <3>7. CASE ExitDetach
        BY <3>1, <3>3, <3>4, <3>7 DEF ExitDetach
      <3>8. CASE ExitDone
        BY <3>3, <3>8 DEF ExitDone
      <3> QED BY <3>5, <3>6, <3>7, <3>8
    <2>3. leaving' \subseteq PortSet
      <3>1. \A ports : Held(ports) \subseteq PortSet
        BY DEF Held
      <3> QED BY <3>1 DEF Typed, World, ExitRecover, ExitRecovered, ExitDetach, ExitDone
    <2>4. trouble' = trouble \/ Trouble
      BY DEF ExitRecover, ExitRecovered, ExitDetach, ExitDone
    <2>5. quit' \in {quit, "no", "blind"}
      BY DEF ExitRecover, ExitRecovered, ExitDetach, ExitDone
    <2>6. \/ pc' \in {"recover", "exit"} /\ selected' = selected
          \/ pc' \in {"actions", "items"} /\ selected' \in Nat
      <3>1. \A i \in 0..Clamp(Len(items), items) : i \in Nat
        OBVIOUS
      <3>2. CASE ExitRecover \/ ExitRecovered
        BY <3>2 DEF ExitRecover, ExitRecovered, shown
      <3>3. CASE ExitDetach
        BY <3>1, <3>3, LoopGoesOn DEF ExitDetach
      <3>4. CASE ExitDone
        BY <1>2, <3>1, <3>4, LoopGoesOn DEF ExitDone
      <3> QED BY <3>2, <3>3, <3>4
    <2>7. Screen'
      BY <2>1, <2>6 DEF Typed, Screen
    <2>8. Channels'
      BY <2>1 DEF Typed, Channels, queues
    <2>9. Threads'
      BY <2>1 DEF Typed, Threads
    <2>10. World'
      BY <2>1, <2>2, <2>3, <2>4, <2>5, LoopGoesOn DEF Typed, World
    <2>11. Rows'
      BY <2>1, <2>2 DEF Rows, queues
    <2> QED BY <2>7, <2>8, <2>9, <2>10, <2>11 DEF Typed
  <1> QED BY <1>1, <1>2

LEMMA TypedOutside == Typed /\ Rows /\ Solo' = Solo /\ (Replug \/ Drop) => Typed' /\ Rows'
  <1> SUFFICES ASSUME Typed, Rows, Solo' = Solo, Replug \/ Drop PROVE Typed' /\ Rows'
    OBVIOUS
  <1>1. UNCHANGED <<pc, shown, queues, loader, worker, cache, leaving, quit>> /\ Trouble
    BY DEF Replug, Drop
  <1>2. vhci' \in Vhci /\ Exclusive(vhci') /\ surprise' \subseteq Ids /\ exported' \subseteq Ids
    <2>1. CASE Drop
      <3>1. PICK p : Freed(p)
        BY <2>1 DEF Drop, Freed
      <3> QED BY <2>1, <3>1, FreedOK DEF Drop, server, Typed, World
    <2>2. CASE Replug
      BY <2>2 DEF Replug, Typed, World, Rows
    <2> QED BY <2>1, <2>2
  <1>3. Screen' /\ Channels' /\ Threads'
    BY <1>1 DEF Typed, Screen, Channels, Threads, shown, queues
  <1>4. World'
    BY <1>1, <1>2, LoopGoesOn DEF Typed, World
  <1>5. Rows'
    BY <1>1, <1>2 DEF Rows, shown, queues
  <1> QED BY <1>3, <1>4, <1>5 DEF Typed

(* What a device is does not change.                                       *)
LEMMA SoloStays == [Next]_vars => Solo' = Solo
  <1>1. [Next]_vars => model' = model
    BY DEF Next, Main, Load, Work, User, vars, outside, server, LoadBegin, LoadRecover, LoadRecovered,
           LoadEnd, WorkShown, WorkToggle, WorkRecover, WorkRecovered, WorkQuery, WorkRequeried,
           WorkClear, WorkDone, Straggler, DrainResult, DrainListing, ListingsDrained, Tick,
           TimerRefresh, Cursor, Activate, Esc, Cancel, ExitRecover, ExitRecovered, ExitDetach,
           ExitDone, Replug, Drop
  <1>2. model' = model => Solo' = Solo
    BY DEF Solo, NoTwin
  <1> QED BY <1>1, <1>2

(* Every step keeps the shape.                                             *)
LEMMA TypedNext == Typed /\ Rows /\ [Next]_vars => Typed' /\ Rows'
  <1> SUFFICES ASSUME Typed, Rows, [Next]_vars PROVE Typed' /\ Rows'
    OBVIOUS
  <1>1. Solo' = Solo
    BY SoloStays
  <1>2. CASE UNCHANGED vars
    <2>1. Screen' /\ Channels' /\ Threads' /\ World'
      BY <1>2 DEF vars, shown, queues, outside, server, Typed, Screen, Channels, Threads, World
    <2>2. Rows'
      BY <1>1, <1>2 DEF vars, shown, queues, outside, Rows
    <2> QED BY <2>1, <2>2 DEF Typed
  <1>3. CASE Load
    BY <1>1, <1>3, TypedLoadBegin, TypedLoadRecover, TypedLoadEnd DEF Load
  <1>4. CASE Work
    BY <1>1, <1>4, TypedWorkShown, TypedWorkToggle, TypedInHand, InHandRecover, InHandQuery,
       InHandClear, InHandDone DEF Work
  <1>5. CASE Main
    BY <1>1, <1>5, TypedDrainResult, TypedDrainListing, TypedKeys, TypedExit DEF Main
  <1>6. CASE User
    BY <1>1, <1>6, TypedKeys, TypedActivate, TypedEsc DEF User
  <1>7. CASE TimerRefresh \/ Straggler \/ Replug \/ Drop
    BY <1>1, <1>7, TypedKeys, TypedStraggler, TypedOutside
  <1> QED BY <1>2, <1>3, <1>4, <1>5, <1>6, <1>7 DEF Next

(* The shape of every state.                                               *)
LEMMA TypedAlways == Spec => [](Typed /\ Rows)
  BY InitTyped, TypedNext, PTL DEF Spec

(* Every variable keeps its shape, the cursor is on a row whenever a key   *)
(* is handled (tui.rs:262), and the list has a row for a device once,      *)
(* unless another device has its VID:PID.                                  *)
THEOREM TypeCorrect == Spec => []TypeOK
  BY TypedAlways, TypedOK, PTL

(* A listing that arrives leaves the cursor on its device                  *)
(* (preserve_selected_index, tui.rs:461), whatever is merged into it.      *)
THEOREM CursorKept == Spec => CursorStays
  <1>1. Typed /\ Rows /\ [Next]_vars =>
          [pc = "items" /\ selected < Len(items) /\ items[selected + 1].id \in Listed(items')
             => items'[selected' + 1].id = items[selected + 1].id]_vars
    <2> SUFFICES ASSUME Typed, Rows, Next, pc = "items", selected < Len(items),
                        items[selected + 1].id \in Listed(items')
                 PROVE  items'[selected' + 1].id = items[selected + 1].id
      OBVIOUS
    <2>1. items \in Seq(Row) /\ selected \in Nat
      BY DEF Typed, Screen
    <2>2. CASE UNCHANGED <<items, selected>>
      BY <2>2
    <2>3. CASE DrainListing
      <3>1. PICK l \in Answer : l = Head(itemsq) /\ l.rows \in Seq(Row) /\ Uniq(Solo, l.rows)
        BY <2>3, DrainedListing
      <3>2. CASE ~(l.current /\ l.ok)
        BY <2>3, <2>2, <3>1, <3>2 DEF DrainListing
      <3>3. CASE l.current /\ l.ok
        <4>1. items' = Merged(l.rows) /\ selected' = preserve_selected_index(items, items', selected)
          BY <2>3, <3>1, <3>3 DEF DrainListing
        <4>2. items' \in Seq(Row)
          BY <3>1, <4>1, MergedOK
        <4> QED BY <2>1, <4>1, <4>2, PreserveOK
      <3> QED BY <3>2, <3>3
    <2>4. CASE ListingsDrained
      BY <2>1, <2>2, <2>4, ClampOK DEF ListingsDrained
    <2>5. CASE items' = <<>>
      BY <2>5 DEF Listed
    <2>6. ~DrainListing /\ ~ListingsDrained => items' = <<>> \/ UNCHANGED <<items, selected>>
      BY DEF Next, Main, Load, Work, User, DrainResult, Tick, ExitRecover, ExitRecovered, ExitDetach,
             ExitDone, TimerRefresh, LoadBegin, LoadRecover, LoadRecovered, LoadEnd, WorkShown,
             WorkToggle, WorkRecover, WorkRecovered, WorkQuery, WorkRequeried, WorkClear, WorkDone,
             Straggler, Cursor, Activate, Esc, Cancel, Leaves, Replug, Drop, shown
    <2> QED BY <2>2, <2>3, <2>4, <2>5, <2>6
  <1> QED BY <1>1, TypedAlways, PTL DEF Spec, CursorStays

----------------------------------------------------------------------------
(* Spinners and work.                                                      *)

(* The devices that the worker is asked for, has in hand, and has reported.*)
Asked == [i \in 1..Len(actq) |-> actq[i].item.id]
AtWork == IF worker = Idle THEN <<>> ELSE <<worker.act.item.id>>
Reported == [i \in 1..Len(doneq) |-> doneq[i].act.item.id]

Under == ToSet(Asked) \cup ToSet(AtWork) \cup ToSet(Reported)

(* A device is in one of these places at most, and then has a spinner; it  *)
(* has none otherwise, unless the list is left.                            *)
Matches ==
  /\ IsInjective(processing) /\ IsInjective(Asked) /\ IsInjective(Reported)
  /\ ToSet(Asked) \cap ToSet(AtWork) = {} /\ ToSet(Asked) \cap ToSet(Reported) = {}
  /\ ToSet(AtWork) \cap ToSet(Reported) = {}
  /\ ToSet(processing) = Under
Spin == pc # "left" => Matches

LEMMA ToSetOK ==
  ASSUME NEW T, NEW s \in Seq(T)
  PROVE  /\ ToSet(s) = {s[i] : i \in 1..Len(s)} /\ ToSet(s) \subseteq T
         /\ IsInjective(s) <=> \A i, j \in 1..Len(s) : s[i] = s[j] => i = j
         /\ ToSet(s) = {} <=> s = <<>>
  <1>1. DOMAIN s = 1..Len(s)
    OBVIOUS
  <1>2. ToSet(s) = {s[i] : i \in 1..Len(s)}
    BY <1>1 DEF ToSet
  <1>3. \A i \in 1..Len(s) : s[i] \in T
    OBVIOUS
  <1>4. IsInjective(s) <=> \A i, j \in 1..Len(s) : s[i] = s[j] => i = j
    BY <1>1 DEF IsInjective
  <1>5. s = <<>> <=> 1..Len(s) = {}
    <2>1. s = <<>> <=> Len(s) = 0
      OBVIOUS
    <2>2. Len(s) \in Nat
      OBVIOUS
    <2>3. \A n \in Nat : n # 0 => 1 \in 1..n
      OBVIOUS
    <2>4. 1..0 = {}
      OBVIOUS
    <2>5. Len(s) = 0 <=> 1..Len(s) = {}
      BY <2>2, <2>3, <2>4
    <2> QED BY <2>1, <2>5
  <1> QED BY <1>2, <1>3, <1>4, <1>5

(* One more, and one less.                                                 *)
LEMMA OneMore ==
  ASSUME NEW T, NEW s \in Seq(T), NEW x \in T
  PROVE  /\ Append(s, x) \in Seq(T) /\ ToSet(Append(s, x)) = ToSet(s) \cup {x}
         /\ IsInjective(s) /\ x \notin ToSet(s) => IsInjective(Append(s, x))
  <1>1. PICK t : t = Append(s, x)
    OBVIOUS
  <1>2. PICK n \in Nat : n = Len(s)
    OBVIOUS
  <1>3. t \in Seq(T) /\ Len(t) = n + 1 /\ t[n + 1] = x /\ \A i \in 1..n : t[i] = s[i]
    BY <1>1, <1>2
  <1>4. \A i \in 1..(n + 1) : i \in 1..n \/ i = n + 1
    OBVIOUS
  <1>5. ToSet(t) = {t[i] : i \in 1..(n + 1)} /\ ToSet(s) = {s[i] : i \in 1..n}
    BY <1>2, <1>3, ToSetOK
  <1>6. n + 1 \in 1..(n + 1) /\ \A i \in 1..n : i \in 1..(n + 1)
    OBVIOUS
  <1>7. ToSet(t) = ToSet(s) \cup {x}
    BY <1>3, <1>4, <1>5, <1>6
  <1>8. ASSUME IsInjective(s), x \notin ToSet(s) PROVE IsInjective(t)
    <2>1. \A i, j \in 1..n : s[i] = s[j] => i = j
      BY <1>2, <1>8, ToSetOK
    <2>2. \A i \in 1..n : s[i] # x
      BY <1>5, <1>8
    <2>3. \A i, j \in 1..(n + 1) : t[i] = t[j] => i = j
      BY <1>3, <1>4, <2>1, <2>2
    <2> QED BY <1>3, <2>3, ToSetOK
  <1> QED BY <1>1, <1>3, <1>7, <1>8

LEMMA OneLess ==
  ASSUME NEW T, NEW s \in Seq(T), s # <<>>
  PROVE  /\ Tail(s) \in Seq(T) /\ Head(s) \in ToSet(s) /\ ToSet(s) = ToSet(Tail(s)) \cup {Head(s)}
         /\ IsInjective(s) => IsInjective(Tail(s)) /\ Head(s) \notin ToSet(Tail(s))
  <1>1. PICK t : t = Tail(s)
    OBVIOUS
  <1>2. PICK n \in Nat : n = Len(t)
    BY <1>1
  <1>3. /\ t \in Seq(T) /\ Len(s) = n + 1 /\ Head(s) = s[1]
        /\ \A i \in 1..n : t[i] = s[i + 1]
    BY <1>1, <1>2
  <1>4. \A i \in 1..(n + 1) : i = 1 \/ (i - 1 \in 1..n /\ i = (i - 1) + 1)
    OBVIOUS
  <1>5. \A i \in 1..n : i + 1 \in 1..(n + 1) /\ i + 1 # 1
    OBVIOUS
  <1>6. 1 \in 1..(n + 1)
    OBVIOUS
  <1>7. ToSet(s) = {s[i] : i \in 1..(n + 1)} /\ ToSet(t) = {t[i] : i \in 1..n}
    BY <1>2, <1>3, ToSetOK
  <1>8. ToSet(s) = ToSet(t) \cup {s[1]}
    <2>1. \A i \in 1..(n + 1) : s[i] = s[1] \/ s[i] \in ToSet(t)
      BY <1>3, <1>4, <1>7, ZenonT(30)
    <2>2. \A i \in 1..n : t[i] \in ToSet(s)
      BY <1>3, <1>5, <1>7
    <2>3. s[1] \in ToSet(s)
      BY <1>6, <1>7
    <2> QED BY <1>7, <2>1, <2>2, <2>3
  <1>9. ASSUME IsInjective(s) PROVE IsInjective(t) /\ s[1] \notin ToSet(t)
    <2>0. \A i, j \in 1..Len(s) : s[i] = s[j] => i = j
      BY <1>9, ToSetOK
    <2>1. \A i, j \in 1..(n + 1) : s[i] = s[j] => i = j
      BY <1>3, <2>0
    <2>2. ASSUME NEW i \in 1..n, NEW j \in 1..n, t[i] = t[j] PROVE i = j
      <3>1. s[i + 1] = s[j + 1] /\ i + 1 \in 1..(n + 1) /\ j + 1 \in 1..(n + 1)
        BY <1>3, <1>5, <2>2
      <3>2. i + 1 = j + 1
        BY <2>1, <3>1
      <3> QED BY <3>2
    <2>3. \A i \in 1..n : t[i] # s[1]
      BY <1>3, <1>5, <1>6, <2>1
    <2> QED BY <1>2, <1>3, <1>7, <2>2, <2>3, ToSetOK, SMTT(30)
  <1> QED BY <1>1, <1>3, <1>8, <1>9

(* Two sequences without repetition and without a common element, joined.  *)
LEMMA BothDistinct ==
  ASSUME NEW T, NEW a \in Seq(T), NEW b \in Seq(T)
  PROVE  /\ a \o b \in Seq(T) /\ ToSet(a \o b) = ToSet(a) \cup ToSet(b)
         /\ IsInjective(a) /\ IsInjective(b) /\ ToSet(a) \cap ToSet(b) = {} => IsInjective(a \o b)
  <1>1. PICK c : c = a \o b
    OBVIOUS
  <1>2. PICK m \in Nat, n \in Nat : m = Len(a) /\ n = Len(b)
    OBVIOUS
  <1>3. /\ c \in Seq(T) /\ Len(c) = m + n /\ \A i \in 1..m : c[i] = a[i]
        /\ \A i \in 1..n : c[m + i] = b[i]
    BY <1>1, <1>2
  <1>4. \A i \in 1..(m + n) : i \in 1..m \/ (i - m \in 1..n /\ i = m + (i - m))
    BY <1>2
  <1>5. /\ \A i \in 1..m : i \in 1..(m + n)
        /\ \A i \in 1..n : m + i \in 1..(m + n)
    BY <1>2
  <1>6. /\ ToSet(a) = {a[i] : i \in 1..m} /\ ToSet(b) = {b[i] : i \in 1..n}
        /\ ToSet(c) = {c[i] : i \in 1..(m + n)}
    BY <1>2, <1>3, ToSetOK
  <1>7. \A i \in 1..(m + n) : \/ i \in 1..m /\ c[i] = a[i]
                              \/ i - m \in 1..n /\ c[i] = b[i - m] /\ i = m + (i - m)
    <2> TAKE i \in 1..(m + n)
    <2>1. CASE i \in 1..m
      BY <1>3, <2>1
    <2>2. CASE i - m \in 1..n /\ i = m + (i - m)
      <3>1. c[m + (i - m)] = b[i - m]
        BY <1>3, <2>2
      <3> QED BY <2>2, <3>1
    <2> QED BY <1>4, <2>1, <2>2
  <1>8. ToSet(c) = ToSet(a) \cup ToSet(b)
    <2>1. ToSet(c) \subseteq ToSet(a) \cup ToSet(b)
      BY <1>6, <1>7
    <2>2. ToSet(a) \subseteq ToSet(c)
      BY <1>3, <1>5, <1>6
    <2>3. ToSet(b) \subseteq ToSet(c)
      BY <1>3, <1>5, <1>6
    <2> QED BY <2>1, <2>2, <2>3
  <1>9. ASSUME IsInjective(a), IsInjective(b), ToSet(a) \cap ToSet(b) = {} PROVE IsInjective(c)
    <2>1. /\ \A i, j \in 1..m : a[i] = a[j] => i = j
          /\ \A i, j \in 1..n : b[i] = b[j] => i = j
      BY <1>2, <1>9, ToSetOK, SMTT(30)
    <2>2. \A i \in 1..m, j \in 1..n : a[i] # b[j]
      BY <1>6, <1>9
    <2>3. ASSUME NEW i \in 1..(m + n), NEW j \in 1..(m + n), c[i] = c[j] PROVE i = j
      <3>1. \/ i \in 1..m /\ c[i] = a[i]
            \/ i - m \in 1..n /\ c[i] = b[i - m] /\ i = m + (i - m)
        BY <1>7
      <3>2. \/ j \in 1..m /\ c[j] = a[j]
            \/ j - m \in 1..n /\ c[j] = b[j - m] /\ j = m + (j - m)
        BY <1>7
      <3>3. CASE i \in 1..m /\ c[i] = a[i] /\ j \in 1..m /\ c[j] = a[j]
        BY <2>1, <2>3, <3>3
      <3>4. CASE /\ i - m \in 1..n /\ c[i] = b[i - m] /\ i = m + (i - m)
                 /\ j - m \in 1..n /\ c[j] = b[j - m] /\ j = m + (j - m)
        <4>1. i - m = j - m
          BY <2>1, <2>3, <3>4
        <4> QED BY <3>4, <4>1
      <3> QED BY <2>2, <2>3, <3>1, <3>2, <3>3, <3>4
    <2>4. \A i, j \in 1..Len(c) : c[i] = c[j] => i = j
      BY <1>3, <2>3
    <2> QED BY <1>3, <2>4, ToSetOK
  <1> QED BY <1>1, <1>3, <1>8, <1>9

(* The rest of a sequence, as a function.                                  *)
LEMMA TailIs ==
  ASSUME NEW T, NEW s \in Seq(T), s # <<>>
  PROVE  Tail(s) = [i \in 1..(Len(s) - 1) |-> s[i + 1]]
  <1>1. PICK t : t = Tail(s)
    OBVIOUS
  <1>2. t \in Seq(T)
    BY <1>1
  <1>3. PICK n \in Nat : n = Len(t)
    BY <1>2
  <1>4. Len(s) - 1 = n /\ \A i \in 1..n : t[i] = s[i + 1]
    BY <1>1, <1>3
  <1>5. t = [i \in 1..n |-> t[i]]
    BY <1>2, <1>3
  <1>6. t = [i \in 1..n |-> s[i + 1]]
    BY <1>4, <1>5
  <1> QED BY <1>1, <1>4, <1>6

(* The devices of a channel move with what it carries.                     *)
LEMMA AskedOK ==
  ASSUME Typed
  PROVE  /\ Asked \in Seq(Ids) /\ Len(Asked) = Len(actq)
         /\ \A i \in 1..Len(actq) : Asked[i] = actq[i].item.id
         /\ \A act \in Action : actq' = Append(actq, act) => Asked' = Append(Asked, act.item.id)
         /\ actq # <<>> => /\ Asked # <<>> /\ Head(Asked) = Head(actq).item.id
                           /\ actq' = Tail(actq) => Asked' = Tail(Asked)
         /\ actq' = actq => Asked' = Asked
  <1>1. actq \in Seq(Action)
    BY DEF Typed, Channels
  <1>2. PICK n \in Nat : n = Len(actq)
    BY <1>1
  <1>3. PICK s : s = Asked
    OBVIOUS
  <1>4. s = [i \in 1..n |-> actq[i].item.id]
    BY <1>2, <1>3 DEF Asked
  <1>5. \A i \in 1..n : s[i] = actq[i].item.id /\ s[i] \in Ids
    BY <1>1, <1>2, <1>4, Kinds
  <1>6. s \in Seq(Ids) /\ Len(s) = n
    <2>1. s = [i \in 1..n |-> s[i]]
      BY <1>4
    <2> QED BY <1>5, <2>1
  <1>7. Asked' = [i \in 1..Len(actq') |-> actq'[i].item.id]
    BY DEF Asked
  <1>8. ASSUME NEW act \in Action, actq' = Append(actq, act)
        PROVE  Asked' = Append(s, act.item.id)
    <2>1. Len(actq') = n + 1 /\ actq'[n + 1] = act /\ \A i \in 1..n : actq'[i] = actq[i]
      BY <1>1, <1>2, <1>8
    <2>2. \A i \in 1..(n + 1) : actq'[i].item.id = IF i = n + 1 THEN act.item.id ELSE s[i]
      BY <1>5, <2>1
    <2>3. Append(s, act.item.id) = [i \in 1..(n + 1) |-> IF i = n + 1 THEN act.item.id ELSE s[i]]
      BY <1>6
    <2> QED BY <1>7, <2>1, <2>2, <2>3
  <1>9. ASSUME actq # <<>>
        PROVE  /\ s # <<>> /\ Head(s) = Head(actq).item.id
               /\ actq' = Tail(actq) => Asked' = Tail(s)
    <2>1. n # 0 /\ Head(actq) = actq[1] /\ 1 \in 1..n
      BY <1>1, <1>2, <1>9
    <2>2. s # <<>> /\ Head(s) = s[1]
      BY <1>6, <2>1
    <2>3. ASSUME actq' = Tail(actq) PROVE Asked' = Tail(s)
      <3>1. Len(actq') = n - 1 /\ \A i \in 1..(n - 1) : actq'[i] = actq[i + 1] /\ i + 1 \in 1..n
        BY <1>1, <1>2, <1>9, <2>3
      <3>2. \A i \in 1..(n - 1) : actq'[i].item.id = s[i + 1]
        BY <1>5, <3>1
      <3>3. Tail(s) = [i \in 1..(n - 1) |-> s[i + 1]]
        BY <1>6, <2>2, TailIs
      <3> QED BY <1>7, <3>1, <3>2, <3>3
    <2> QED BY <1>5, <2>1, <2>2, <2>3
  <1>10. actq' = actq => Asked' = Asked
    BY DEF Asked
  <1> QED BY <1>2, <1>3, <1>5, <1>6, <1>8, <1>9, <1>10

LEMMA ReportedOK ==
  ASSUME Typed
  PROVE  /\ Reported \in Seq(Ids) /\ Len(Reported) = Len(doneq)
         /\ \A i \in 1..Len(doneq) : Reported[i] = doneq[i].act.item.id
         /\ \A r \in Report : doneq' = Append(doneq, r) => Reported' = Append(Reported, r.act.item.id)
         /\ doneq # <<>> => /\ Reported # <<>> /\ Head(Reported) = Head(doneq).act.item.id
                            /\ doneq' = Tail(doneq) => Reported' = Tail(Reported)
         /\ doneq' = doneq => Reported' = Reported
  <1>1. doneq \in Seq(Report)
    BY DEF Typed, Channels
  <1>2. PICK n \in Nat : n = Len(doneq)
    BY <1>1
  <1>3. PICK s : s = Reported
    OBVIOUS
  <1>4. s = [i \in 1..n |-> doneq[i].act.item.id]
    BY <1>2, <1>3 DEF Reported
  <1>5. \A i \in 1..n : s[i] = doneq[i].act.item.id /\ s[i] \in Ids
    BY <1>1, <1>2, <1>4, Kinds
  <1>6. s \in Seq(Ids) /\ Len(s) = n
    <2>1. s = [i \in 1..n |-> s[i]]
      BY <1>4
    <2> QED BY <1>5, <2>1
  <1>7. Reported' = [i \in 1..Len(doneq') |-> doneq'[i].act.item.id]
    BY DEF Reported
  <1>8. ASSUME NEW r \in Report, doneq' = Append(doneq, r)
        PROVE  Reported' = Append(s, r.act.item.id)
    <2>1. Len(doneq') = n + 1 /\ doneq'[n + 1] = r /\ \A i \in 1..n : doneq'[i] = doneq[i]
      BY <1>1, <1>2, <1>8
    <2>2. \A i \in 1..(n + 1) : doneq'[i].act.item.id = IF i = n + 1 THEN r.act.item.id ELSE s[i]
      BY <1>5, <2>1
    <2>3. Append(s, r.act.item.id) = [i \in 1..(n + 1) |-> IF i = n + 1 THEN r.act.item.id ELSE s[i]]
      BY <1>6
    <2> QED BY <1>7, <2>1, <2>2, <2>3
  <1>9. ASSUME doneq # <<>>
        PROVE  /\ s # <<>> /\ Head(s) = Head(doneq).act.item.id
               /\ doneq' = Tail(doneq) => Reported' = Tail(s)
    <2>1. n # 0 /\ Head(doneq) = doneq[1] /\ 1 \in 1..n
      BY <1>1, <1>2, <1>9
    <2>2. s # <<>> /\ Head(s) = s[1]
      BY <1>6, <2>1
    <2>3. ASSUME doneq' = Tail(doneq) PROVE Reported' = Tail(s)
      <3>1. Len(doneq') = n - 1 /\ \A i \in 1..(n - 1) : doneq'[i] = doneq[i + 1] /\ i + 1 \in 1..n
        BY <1>1, <1>2, <1>9, <2>3
      <3>2. \A i \in 1..(n - 1) : doneq'[i].act.item.id = s[i + 1]
        BY <1>5, <3>1
      <3>3. Tail(s) = [i \in 1..(n - 1) |-> s[i + 1]]
        BY <1>6, <2>2, TailIs
      <3> QED BY <1>7, <3>1, <3>2, <3>3
    <2> QED BY <1>5, <2>1, <2>2, <2>3
  <1>10. doneq' = doneq => Reported' = Reported
    BY DEF Reported
  <1> QED BY <1>2, <1>3, <1>5, <1>6, <1>8, <1>9, <1>10

(* The worker has one action in hand at most.                              *)
LEMMA AtWorkOK ==
  /\ worker = Idle => ToSet(AtWork) = {}
  /\ worker # Idle => ToSet(AtWork) = {worker.act.item.id}
  /\ worker' = Idle => ToSet(AtWork)' = {}
  /\ worker' # Idle => ToSet(AtWork)' = {worker'.act.item.id}
  <1>1. ToSet(<<>>) = {}
    BY DEF ToSet
  <1>2. \A x : ToSet(<<x>>) = {x}
    <2> TAKE x
    <2>1. DOMAIN <<x>> = {1} /\ <<x>>[1] = x
      OBVIOUS
    <2> QED BY <2>1 DEF ToSet
  <1> QED BY <1>1, <1>2 DEF AtWork

(* Nothing is under way at first.                                          *)
LEMMA InitSpin == Init => Spin
  <1> SUFFICES ASSUME Init PROVE Matches
    BY DEF Spin
  <1>1. \A s : s = <<>> => IsInjective(s) /\ ToSet(s) = {}
    BY DEF IsInjective, ToSet
  <1>2. actq = <<>> /\ doneq = <<>> /\ worker = Idle /\ processing = <<>>
    BY DEF Init
  <1>3. Asked = <<>> /\ Reported = <<>> /\ AtWork = <<>>
    BY <1>2 DEF Asked, Reported, AtWork
  <1> QED BY <1>1, <1>2, <1>3 DEF Matches, Under

(* Steps of the worker and the main loop that take or give an action.      *)
LEMMA SpinActivate == Typed /\ Matches /\ Activate => Matches'
  <1> SUFFICES ASSUME Typed, Matches, Activate PROVE Matches'
    OBVIOUS
  <1>1. PICK item \in Row : item = items[selected + 1]
    BY UnderCursor DEF Activate
  <1>2. PICK act : act = [item |-> item, attach |-> item.label = "free"]
    OBVIOUS
  <1>3. act \in Action /\ act.item.id = item.id /\ item.id \in Ids
    BY <1>2 DEF Action, Row
  <1>4. /\ actq' = Append(actq, act) /\ processing' = Append(processing, item.id)
        /\ item.id \notin ToSet(processing) /\ UNCHANGED <<doneq, worker>> /\ pc = "keys"
    BY <1>1, <1>2 DEF Activate
  <1>5. Asked' = Append(Asked, item.id) /\ Asked \in Seq(Ids) /\ Reported' = Reported
    BY <1>3, <1>4, AskedOK, ReportedOK
  <1>6. ToSet(AtWork)' = ToSet(AtWork)
    BY <1>4, AtWorkOK
  <1>7. processing \in Seq(Ids)
    BY DEF Typed, Screen
  <1>8. /\ ToSet(processing') = ToSet(processing) \cup {item.id} /\ IsInjective(processing')
        /\ ToSet(Asked') = ToSet(Asked) \cup {item.id} /\ IsInjective(Asked')
    <2>1. IsInjective(processing) /\ IsInjective(Asked) /\ item.id \notin ToSet(Asked)
      BY <1>4 DEF Matches, Under
    <2> QED BY <1>3, <1>4, <1>5, <1>7, <2>1, OneMore
  <1> QED BY <1>4, <1>5, <1>6, <1>8 DEF Matches, Under

(* The worker takes the first action it is asked for.                      *)
LEMMA TakesNext ==
  ASSUME Typed, Matches, actq # <<>>, actq' = Tail(actq)
  PROVE  /\ Head(actq).item.id \in ToSet(Asked) /\ Head(actq).item.id \notin ToSet(Asked)'
         /\ ToSet(Asked) = ToSet(Asked)' \cup {Head(actq).item.id} /\ IsInjective(Asked')
  <1>1. /\ Asked \in Seq(Ids) /\ Asked # <<>> /\ Head(Asked) = Head(actq).item.id
        /\ Asked' = Tail(Asked)
    BY AskedOK
  <1>2. IsInjective(Asked)
    BY DEF Matches
  <1> QED BY <1>1, <1>2, OneLess

LEMMA SpinWorkShown == Typed /\ Matches /\ WorkShown => Matches'
  <1> SUFFICES ASSUME Typed, Matches, WorkShown PROVE Matches'
    OBVIOUS
  <1>1. PICK id : id = Head(actq).item.id
    OBVIOUS
  <1>2. /\ actq # <<>> /\ actq' = Tail(actq) /\ worker = Idle /\ worker'.act = Head(actq)
        /\ UNCHANGED <<doneq, processing, pc>>
    BY DEF WorkShown, Working, shown
  <1>3. worker' # Idle
    <2>1. worker'.at = "detach"
      BY DEF WorkShown, Working
    <2> QED BY <2>1, Kinds
  <1>4. id \in ToSet(Asked) /\ id \notin ToSet(Asked)' /\ ToSet(Asked) = ToSet(Asked)' \cup {id}
        /\ IsInjective(Asked')
    BY <1>1, <1>2, TakesNext
  <1>5. ToSet(AtWork) = {} /\ ToSet(AtWork)' = {id} /\ Reported' = Reported
    BY <1>1, <1>2, <1>3, AtWorkOK, ReportedOK
  <1> QED BY <1>2, <1>4, <1>5 DEF Matches, Under

(* One more result.                                                        *)
LEMMA OneReported ==
  ASSUME Typed, Matches, NEW act \in Action, NEW ok \in BOOLEAN, Result(act, ok),
         act.item.id \notin ToSet(Reported)
  PROVE  ToSet(Reported)' = ToSet(Reported) \cup {act.item.id} /\ IsInjective(Reported')
  <1>1. PICK r : r = [act |-> act, ok |-> ok]
    OBVIOUS
  <1>2. r \in Report /\ r.act = act /\ doneq' = Append(doneq, r)
    BY <1>1 DEF Report, Result
  <1>3. Reported' = Append(Reported, act.item.id) /\ Reported \in Seq(Ids) /\ act.item.id \in Ids
    BY <1>2, ReportedOK, Kinds
  <1> QED BY <1>3, OneMore DEF Matches

LEMMA SpinWorkToggle == Typed /\ Rows /\ Matches /\ WorkToggle => Matches'
  <1> SUFFICES ASSUME Typed, Rows, Matches, WorkToggle PROVE Matches'
    OBVIOUS
  <1>1. PICK act \in Action : act = Head(actq)
    BY Toggles
  <1>2. PICK id : id = act.item.id
    OBVIOUS
  <1>3. actq # <<>> /\ actq' = Tail(actq) /\ worker = Idle /\ processing' = processing
    BY Toggles DEF shown
  <1>4. id \in ToSet(Asked) /\ id \notin ToSet(Asked)' /\ ToSet(Asked) = ToSet(Asked)' \cup {id}
        /\ IsInjective(Asked')
    BY <1>1, <1>2, <1>3, TakesNext
  <1>5. ToSet(AtWork) = {}
    BY <1>3, AtWorkOK
  <1>6. \/ doneq' = doneq /\ worker' # Idle /\ worker'.act = act
        \/ Result(act, FALSE) /\ worker' = Idle
    BY <1>1, Toggles, ChosenTask, Kinds DEF Result
  <1>7. CASE doneq' = doneq /\ worker' # Idle /\ worker'.act = act
    <2>1. ToSet(AtWork)' = {id} /\ Reported' = Reported
      BY <1>2, <1>7, AtWorkOK, ReportedOK
    <2> QED BY <1>3, <1>4, <1>5, <2>1 DEF Matches, Under
  <1>8. CASE Result(act, FALSE) /\ worker' = Idle
    <2>1. id \notin ToSet(Reported)
      BY <1>4 DEF Matches
    <2>2. ToSet(Reported)' = ToSet(Reported) \cup {id} /\ IsInjective(Reported')
      BY <1>2, <1>8, <2>1, OneReported
    <2>3. ToSet(AtWork)' = {}
      BY <1>8, AtWorkOK
    <2> QED BY <1>3, <1>4, <1>5, <2>2, <2>3 DEF Matches, Under
  <1> QED BY <1>6, <1>7, <1>8

(* The action in hand goes on, or is reported.                             *)
LEMMA SpinInHand == Typed /\ Matches /\ InHand => Matches'
  <1> SUFFICES ASSUME Typed, Matches, InHand PROVE Matches'
    OBVIOUS
  <1>1. worker \in Task /\ worker # Idle /\ UNCHANGED <<actq, processing>>
    BY Kinds DEF InHand, shown
  <1>2. PICK act \in Action : act = worker.act
    BY <1>1, Kinds
  <1>3. ToSet(AtWork) = {act.item.id} /\ Asked' = Asked
    BY <1>1, <1>2, AtWorkOK, AskedOK
  <1>4. CASE GoesOn
    <2>1. worker' # Idle /\ worker'.act = act /\ doneq' = doneq
      BY <1>2, <1>4, Kinds DEF GoesOn
    <2>2. ToSet(AtWork)' = {act.item.id} /\ Reported' = Reported
      BY <2>1, AtWorkOK, ReportedOK
    <2> QED BY <1>1, <1>3, <2>2 DEF Matches, Under
  <1>5. CASE Reports
    <2>1. PICK ok \in BOOLEAN : Result(act, ok)
      BY <1>2, <1>5 DEF Reports
    <2>2. act.item.id \notin ToSet(Reported)
      BY <1>3 DEF Matches
    <2>3. ToSet(Reported)' = ToSet(Reported) \cup {act.item.id} /\ IsInjective(Reported')
      BY <2>1, <2>2, OneReported
    <2>4. ToSet(AtWork)' = {}
      BY <1>5, AtWorkOK DEF Reports
    <2> QED BY <1>1, <1>3, <2>3, <2>4 DEF Matches, Under
  <1> QED BY <1>4, <1>5 DEF InHand

(* With its result the action is over, and the spinner goes.               *)
LEMMA SpinDrainResult == Typed /\ Matches /\ DrainResult => Matches'
  <1> SUFFICES ASSUME Typed, Matches, DrainResult PROVE Matches'
    OBVIOUS
  <1>1. PICK id : id = Head(doneq).act.item.id
    OBVIOUS
  <1>2. /\ doneq # <<>> /\ doneq' = Tail(doneq) /\ processing' = Retain(processing, Ids \ {id})
        /\ UNCHANGED <<actq, worker>> /\ pc # "left" /\ pc' # "left"
    BY <1>1, DrainedResult DEF DrainResult
  <1>3. /\ id \in ToSet(Reported) /\ id \notin ToSet(Reported)'
        /\ ToSet(Reported) = ToSet(Reported)' \cup {id} /\ IsInjective(Reported')
    <2>1. /\ Reported \in Seq(Ids) /\ Reported # <<>> /\ Head(Reported) = id
          /\ Reported' = Tail(Reported)
      BY <1>1, <1>2, ReportedOK
    <2>2. IsInjective(Reported)
      BY DEF Matches
    <2> QED BY <2>1, <2>2, OneLess
  <1>4. ToSet(AtWork)' = ToSet(AtWork) /\ Asked' = Asked
    BY <1>2, AtWorkOK, AskedOK
  <1>5. IsInjective(processing') /\ ToSet(processing') = ToSet(processing) \ {id}
    <2>1. processing \in Seq(Ids) /\ IsInjective(processing)
      BY DEF Typed, Screen, Matches
    <2>2. PICK s : s = processing'
      OBVIOUS
    <2>3. IsInjective(s)
      BY <1>2, <2>1, <2>2, RetainDistinct
    <2>4. PICK rest : rest = Ids \ {id}
      OBVIOUS
    <2>5. PICK q \in Seq(Ids) : q = processing
      BY <2>1
    <2>0. s = Retain(q, rest)
      BY <1>2, <2>2, <2>4, <2>5
    <2>6. /\ s \in Seq(Ids \cap rest)
          /\ \A j \in 1..Len(s) : \E i \in 1..Len(q) : s[j] = q[i]
          /\ \A i \in 1..Len(q) : q[i] \in rest => \E j \in 1..Len(s) : s[j] = q[i]
      <3>1. KeptOf(Ids, s, q, rest)
        BY <2>0, <2>5, RetainOK
      <3> QED BY <3>1 DEF KeptOf
    <2>7. ToSet(s) = {s[i] : i \in 1..Len(s)} /\ ToSet(s) \subseteq Ids \cap rest
      BY <2>6, ToSetOK
    <2>8. ToSet(processing) = {q[i] : i \in 1..Len(q)} /\ ToSet(processing) \subseteq Ids
      BY <2>5, ToSetOK
    <2>9. ToSet(s) \subseteq ToSet(processing)
      BY <2>6, <2>7, <2>8
    <2>10. \A x \in ToSet(processing) : x # id => x \in ToSet(s)
      BY <2>6, <2>7, <2>8, <2>4
    <2> QED BY <2>2, <2>3, <2>7, <2>9, <2>10, <2>4
  <1> QED BY <1>2, <1>3, <1>4, <1>5 DEF Matches, Under

(* Nothing else moves actions.                                             *)
LEMMA SpinOthers ==
  ASSUME Typed, Matches, UNCHANGED <<actq, doneq, processing, worker>>
  PROVE  Matches'
  <1>1. Asked' = Asked /\ Reported' = Reported
    BY AskedOK, ReportedOK
  <1>2. ToSet(AtWork)' = ToSet(AtWork)
    BY AtWorkOK
  <1> QED BY <1>1, <1>2 DEF Matches, Under

(* Who has left does not come back.                                        *)
LEMMA LeftStays == pc = "left" /\ [Next]_vars => pc' = "left"
  BY DEF Next, Main, Load, Work, User, vars, shown, LoadBegin, LoadRecover, LoadRecovered,
         LoadEnd, WorkShown, WorkToggle, WorkRecover, WorkRecovered, WorkQuery, WorkRequeried,
         WorkClear, WorkDone, Straggler, DrainResult, DrainListing, ListingsDrained, Tick,
         TimerRefresh, Cursor, Activate, Esc, Cancel, Leaves, ExitRecover, ExitRecovered, ExitDetach,
         ExitDone, Replug, Drop

LEMMA SpinNext == Typed /\ Rows /\ Spin /\ [Next]_vars => Spin'
  <1> SUFFICES ASSUME Typed, Rows, Spin, [Next]_vars, pc' # "left" PROVE Matches'
    BY DEF Spin
  <1>1. Matches /\ Solo' = Solo
    BY LeftStays, SoloStays DEF Spin
  <1>2. CASE UNCHANGED vars
    BY <1>1, <1>2, SpinOthers DEF vars, shown, queues
  <1>3. CASE Load
    <2>1. UNCHANGED <<actq, doneq, processing, worker>>
      BY <1>3 DEF Load, LoadBegin, LoadRecover, LoadRecovered, LoadEnd, shown, queues
    <2> QED BY <1>1, <2>1, SpinOthers
  <1>4. CASE Work
    BY <1>1, <1>4, SpinWorkShown, SpinWorkToggle, SpinInHand, InHandRecover, InHandQuery,
       InHandClear, InHandDone DEF Work
  <1>5. CASE DrainResult \/ Activate
    BY <1>1, <1>5, SpinDrainResult, SpinActivate
  <1>6. CASE DrainListing \/ ListingsDrained \/ Tick \/ TimerRefresh \/ Cursor \/ Cancel
             \/ Replug \/ Drop
    <2>1. UNCHANGED <<actq, doneq, processing, worker>>
      BY <1>6 DEF DrainListing, ListingsDrained, Tick, TimerRefresh, Cursor, Cancel, Replug, Drop,
                  shown, queues
    <2> QED BY <1>1, <2>1, SpinOthers
  <1>7. CASE ExitRecover \/ ExitRecovered \/ ExitDetach \/ ExitDone
    <2>1. UNCHANGED <<actq, doneq, processing, worker>>
      BY <1>7 DEF ExitRecover, ExitRecovered, ExitDetach, ExitDone, Leaves, shown, queues
    <2> QED BY <1>1, <2>1, SpinOthers
  <1>8. ~Esc /\ ~Straggler
    <2>1. pc # "left"
      BY LeftStays
    <2> QED BY <2>1 DEF Esc, Leaves, Straggler
  <1> QED BY <1>2, <1>3, <1>4, <1>5, <1>6, <1>7, <1>8 DEF Next, Main, User

(* Spin in terms of the one sequence that SpinnerMatchesWork puts together.*)
LEMMA SpinMatches == Typed /\ Spin => SpinnerMatchesWork
  <1> SUFFICES ASSUME Typed, Spin, pc # "left"
               PROVE  LET outstanding == (Asked \o AtWork) \o Reported
                      IN /\ IsInjective(outstanding) /\ IsInjective(processing)
                         /\ ToSet(outstanding) = ToSet(processing)
    BY DEF SpinnerMatchesWork, Asked, AtWork, Reported
  <1>1. Asked \in Seq(Ids) /\ Reported \in Seq(Ids)
    BY AskedOK, ReportedOK
  <1>2. AtWork \in Seq(Ids) /\ IsInjective(AtWork)
    <2>1. worker # Idle => worker.act.item.id \in Ids
      BY Kinds DEF Typed, Threads
    <2>2. \A x \in Ids : <<x>> \in Seq(Ids) /\ IsInjective(<<x>>)
      BY DEF IsInjective
    <2>3. <<>> \in Seq(Ids) /\ IsInjective(<<>>)
      BY DEF IsInjective
    <2> QED BY <2>1, <2>2, <2>3 DEF AtWork
  <1>3. PICK s : s = Asked \o AtWork
    OBVIOUS
  <1>4. s \in Seq(Ids) /\ ToSet(s) = ToSet(Asked) \cup ToSet(AtWork) /\ IsInjective(s)
    BY <1>1, <1>2, <1>3, BothDistinct DEF Matches, Spin
  <1>5. /\ ToSet(s \o Reported) = ToSet(s) \cup ToSet(Reported)
        /\ IsInjective(s \o Reported)
    BY <1>1, <1>4, BothDistinct DEF Matches, Spin
  <1> QED BY <1>3, <1>4, <1>5 DEF Matches, Under, Spin

LEMMA SpinAlways == Spec => []Spin
  <1>1. Init => Typed /\ Rows /\ Spin
    BY InitTyped, InitSpin
  <1>2. Typed /\ Rows /\ Spin /\ [Next]_vars => Spin'
    BY SpinNext
  <1> QED BY <1>1, <1>2, TypedAlways, PTL DEF Spec

(* A row has a spinner exactly while one action on its device is queued,   *)
(* at work or waiting to be drained, and never two: what tui.rs keeps in   *)
(* post_action_processing agrees with its two channels and its worker.     *)
THEOREM SpinnersTrue == Spec => []SpinnerMatchesWork
  BY SpinMatches, SpinAlways, TypedAlways, PTL

----------------------------------------------------------------------------
(* Leaving with Ctrl+C.                                                    *)

(* The exit closure that finds no action under way knows every port that   *)
(* is held, once it has been told, and nobody takes another one.           *)
ExitInv ==
  /\ quit = "idle" =>
       /\ pc \in {"recover", "exit", "left"} /\ worker = Idle /\ actq = <<>>
       /\ pc # "recover" => Held(vhci) \subseteq leaving
  /\ pc \notin {"recover", "exit"} => leaving = {}
  /\ pc \notin {"recover", "exit", "left"} => quit = "no"

LEMMA InitExit == Init => ExitInv
  BY DEF Init, ExitInv

(* No spinner: the worker has nothing to do and nothing in hand.           *)
LEMMA NothingUnder ==
  ASSUME Typed, Matches, processing = <<>>
  PROVE  worker = Idle /\ actq = <<>>
  <1>1. ToSet(processing) = {}
    BY DEF ToSet
  <1>2. ToSet(Asked) = {} /\ ToSet(AtWork) = {}
    BY <1>1 DEF Matches, Under
  <1>3. Asked \in Seq(Ids) /\ (actq # <<>> => Asked # <<>>)
    BY AskedOK
  <1> QED BY <1>2, <1>3, AtWorkOK, ToSetOK

LEMMA ExitCancel == Typed /\ Spin /\ ExitInv /\ Cancel => ExitInv'
  <1> SUFFICES ASSUME Typed, Spin, ExitInv, Cancel PROVE ExitInv'
    OBVIOUS
  <1>1. pc = "keys" /\ quit = "no" /\ leaving = {} /\ UNCHANGED <<worker, actq, vhci>>
    BY DEF Cancel, ExitInv, queues
  <1>2. Held(vhci)' = Held(vhci)
    BY <1>1 DEF Held
  <1>3. processing = <<>> => worker = Idle /\ actq = <<>>
    BY <1>1, NothingUnder DEF Spin
  <1>4. CASE pc' = "exit" /\ leaving' = Held(vhci) /\ quit' = IF processing = <<>> THEN "idle" ELSE "busy"
    BY <1>1, <1>2, <1>3, <1>4 DEF ExitInv
  <1>5. CASE pc' = "recover" /\ quit' = IF processing = <<>> THEN "idle" ELSE "busy"
    BY <1>1, <1>3, <1>5 DEF ExitInv
  <1>6. CASE Continue(doneq) /\ UNCHANGED <<leaving, quit>>
    BY <1>1, <1>6, LoopGoesOn DEF ExitInv
  <1> QED BY <1>4, <1>5, <1>6 DEF Cancel

(* What `usbip port` says when it is asked again is trusted only if it is  *)
(* the truth.                                                              *)
LEMMA ExitExitRecover == ExitInv /\ (ExitRecover \/ ExitRecovered) => ExitInv'
  <1> SUFFICES ASSUME ExitInv, ExitRecover \/ ExitRecovered PROVE ExitInv'
    OBVIOUS
  <1>1. pc = "recover" /\ UNCHANGED <<worker, actq>>
    BY DEF ExitRecover, ExitRecovered, queues
  <1>2. CASE ExitRecover
    BY <1>1, <1>2 DEF ExitRecover, ExitInv
  <1>3. CASE ExitRecovered
    <2>1. PICK ports : leaving' = Held(ports) /\ quit' = IF ports = vhci THEN quit ELSE "blind"
      BY <1>3 DEF ExitRecovered
    <2>2. pc' = "exit" /\ vhci' = vhci
      BY <1>3 DEF ExitRecovered
    <2>3. quit' = "idle" => quit = "idle" /\ leaving' = Held(vhci)
      BY <2>1
    <2>4. Held(vhci)' = Held(vhci)
      BY <2>2 DEF Held
    <2> QED BY <1>1, <2>2, <2>3, <2>4 DEF ExitInv
  <1> QED BY <1>2, <1>3

LEMMA ExitExitDetach == Typed /\ Rows /\ Solo' = Solo /\ ExitInv /\ ExitDetach => ExitInv'
  <1> SUFFICES ASSUME Typed, Rows, Solo' = Solo, ExitInv, ExitDetach PROVE ExitInv'
    OBVIOUS
  <1>1. pc = "exit" /\ UNCHANGED <<worker, actq>>
    BY DEF ExitDetach, queues
  <1>2. PICK p \in leaving :
          \/ Freed(p) /\ leaving' = leaving \ {p} /\ UNCHANGED <<pc, quit>>
          \/ leaving' = {} /\ Continue(doneq) /\ quit' = "no"
    BY DEF ExitDetach, Freed
  <1>3. CASE Freed(p) /\ leaving' = leaving \ {p} /\ UNCHANGED <<pc, quit>>
    <2>1. Held(vhci)' = Held(vhci) \ {p}
      BY <1>3, FreedOK
    <2> QED BY <1>1, <1>3, <2>1 DEF ExitInv
  <1>4. CASE leaving' = {} /\ Continue(doneq) /\ quit' = "no"
    BY <1>4, LoopGoesOn DEF ExitInv
  <1> QED BY <1>2, <1>3, <1>4

(* Somebody frees a port, or none.                                         *)
LEMMA ExitFewer ==
  ASSUME ExitInv, Held(vhci)' \subseteq Held(vhci), UNCHANGED <<pc, worker, actq, leaving, quit>>
  PROVE  ExitInv'
  BY DEF ExitInv

(* Everybody else leaves the ports alone, frees some, or has found work.   *)
LEMMA ExitNext == Typed /\ Rows /\ Spin /\ ExitInv /\ [Next]_vars => ExitInv'
  <1> SUFFICES ASSUME Typed, Rows, Spin, ExitInv, [Next]_vars PROVE ExitInv'
    OBVIOUS
  <1>1. Solo' = Solo
    BY SoloStays
  <1>2. vhci' = vhci => Held(vhci)' = Held(vhci)
    BY DEF Held
  <1>3. \A p : Freed(p) => Held(vhci)' \subseteq Held(vhci)
    BY <1>1, FreedOK
  <1>4. CASE Cancel \/ ExitRecover \/ ExitRecovered \/ ExitDetach
    BY <1>1, <1>4, ExitCancel, ExitExitRecover, ExitExitDetach
  <1>5. CASE ExitDone
    <2>1. UNCHANGED <<worker, vhci, leaving>> /\ leaving = {} /\ pc = "exit"
      BY <1>5 DEF ExitDone
    <2>2. CASE Leaves /\ UNCHANGED quit
      BY <1>2, <2>1, <2>2 DEF ExitInv, Leaves
    <2>3. CASE Continue(doneq) /\ quit' = "no"
      BY <1>2, <2>1, <2>3, LoopGoesOn DEF ExitInv
    <2> QED BY <1>5, <2>2, <2>3 DEF ExitDone
  <1>6. CASE Esc
    BY <1>6 DEF Esc, Leaves, ExitInv
  <1>7. CASE Work
    <2>1. quit # "idle" /\ UNCHANGED <<pc, leaving, quit>>
      BY <1>7 DEF Work, WorkShown, WorkToggle, WorkRecover, WorkRecovered, WorkQuery, WorkRequeried,
                  WorkClear, WorkDone, ExitInv
    <2> QED BY <2>1 DEF ExitInv
  <1>8. CASE Load
    <2>1. UNCHANGED <<pc, worker, actq, leaving, quit>>
      BY <1>8 DEF Load, LoadBegin, LoadRecover, LoadRecovered, LoadEnd, queues
    <2>2. vhci' = vhci \/ \E p : Freed(p)
      BY <1>8 DEF Load, LoadBegin, LoadRecover, LoadRecovered, LoadEnd
    <2> QED BY <1>2, <1>3, <2>1, <2>2, ExitFewer
  <1>9. CASE Straggler
    <2>1. UNCHANGED <<pc, actq, leaving, quit>>
      BY <1>9 DEF Straggler, queues
    <2>2. CASE worker # Idle
      BY <2>1, <2>2 DEF ExitInv
    <2>3. CASE worker = Idle
      <3>1. worker' = worker /\ (vhci' = vhci \/ \E p : Freed(p))
        BY <1>9, <2>3 DEF Straggler
      <3> QED BY <1>2, <1>3, <2>1, <3>1, ExitFewer
    <2> QED BY <2>2, <2>3
  <1>10. CASE DrainResult \/ Tick \/ TimerRefresh \/ Cursor \/ Activate
    <2>1. pc \in {"actions", "keys"} /\ pc' \in {"actions", "items"} /\ UNCHANGED <<leaving, quit>>
      BY <1>10, LoopGoesOn DEF DrainResult, Tick, TimerRefresh, Cursor, Activate
    <2> QED BY <2>1 DEF ExitInv
  <1>11. CASE DrainListing \/ Replug \/ Drop
    <2>1. UNCHANGED <<pc, worker, actq, leaving, quit>>
      BY <1>11 DEF DrainListing, Replug, Drop, queues
    <2>2. vhci' = vhci \/ \E p : Freed(p)
      BY <1>11 DEF DrainListing, Replug, Drop, Freed
    <2> QED BY <1>2, <1>3, <2>1, <2>2, ExitFewer
  <1>12. CASE ListingsDrained
    BY <1>12 DEF ListingsDrained, ExitInv
  <1>13. CASE UNCHANGED vars
    BY <1>2, <1>13 DEF ExitInv, vars, outside, queues
  <1> QED BY <1>4, <1>5, <1>6, <1>7, <1>8, <1>9, <1>10, <1>11, <1>12, <1>13 DEF Next, Main, User

(* Ctrl+C with no action under way: when the process has ended through the *)
(* exit closure (client.rs 763-783) every port that this client held is    *)
(* free, twins or not, also when `usbip port` failed in the loader or the  *)
(* worker, ports were lost, listings arrived or keys were pressed; unless  *)
(* the exit's own `usbip port` failed, and failed again.                   *)
THEOREM ExitLeavesNothing == Spec => []ExitDetachesAll
  <1>1. Init => Typed /\ Rows /\ Spin /\ ExitInv
    BY InitTyped, InitSpin, InitExit
  <1>2. Typed /\ Rows /\ Spin /\ ExitInv /\ [Next]_vars => ExitInv'
    BY ExitNext
  <1>3. ExitInv => ExitDetachesAll
    BY DEF ExitInv, ExitDetachesAll
  <1> QED BY <1>1, <1>2, <1>3, TypedAlways, SpinAlways, PTL DEF Spec


----------------------------------------------------------------------------
(* Rows and what they announce.                                            *)

(* Loader and worker are not both at what needs the mutex.                 *)
Mutex ==
  /\ loader # Idle /\ worker # Idle => ~worker.locked
  /\ worker # Idle /\ ~worker.locked => worker.at = "detach"

LEMMA InitMutex == Init => Mutex
  BY DEF Init, Mutex

(* The worker keeps the mutex until it reports.                            *)
LEMMA MutexWork ==
  ASSUME Typed, Rows, Solo' = Solo, Mutex, Work
  PROVE  Mutex'
  <1>1. CASE WorkShown
    <2>1. PICK act, p : worker' = [at |-> "detach", act |-> act, ports |-> {p}, locked |-> FALSE]
      BY <1>1 DEF WorkShown, Working
    <2> QED BY <2>1 DEF Mutex
  <1>2. CASE WorkToggle
    <2>1. loader' = Idle /\ (worker' = Idle \/ worker'.locked)
      BY <1>2, Toggles DEF Chosen
    <2> QED BY <2>1 DEF Mutex
  <1>3. CASE WorkDone
    BY <1>3 DEF WorkDone, Mutex
  <1>4. CASE WorkRecover \/ WorkRecovered \/ WorkQuery \/ WorkRequeried \/ WorkClear
    <2>1. /\ worker \in Task /\ worker # Idle /\ worker.at # "detach" /\ loader' = loader
          /\ worker.act \in Action /\ vhci \in Vhci
      BY <1>4, Kinds DEF Typed, Threads, World, WorkRecover, WorkRecovered, WorkQuery, WorkRequeried,
                         WorkClear
    <2>2. loader = Idle /\ worker.locked
      BY <2>1 DEF Mutex
    <2>3. worker' = Idle \/ worker'.locked
      <3>1. CASE WorkRecover
        <4>1. worker' = [worker EXCEPT !.ports = @ \ {First(@)}]
          BY <3>1 DEF WorkRecover
        <4>2. worker'.locked = worker.locked
          BY <2>1, <4>1 DEF Task
        <4> QED BY <2>2, <4>2
      <3>2. CASE WorkRecovered
        <4>1. PICK ports : Again(ports) /\ Looks(worker.act, ports)
          BY <3>2 DEF WorkRecovered
        <4>2. ports \in Vhci
          BY <3>2, <4>1, AgainOK DEF WorkRecovered
        <4> QED BY <2>1, <4>1, <4>2, LooksOK DEF Chosen
      <3>3. CASE WorkQuery
        <4>1. CASE Clears(worker.act, vhci)
          BY <2>1, <4>1, ClearsOK
        <4>2. CASE Working("requery", worker.act, InUse, TRUE)
          BY <4>2 DEF Working
        <4> QED BY <3>3, <4>1, <4>2 DEF WorkQuery
      <3>4. CASE WorkRequeried
        <4>1. PICK ports : Again(ports) /\ Clears(worker.act, ports)
          BY <3>4 DEF WorkRequeried
        <4>2. ports \in Vhci
          BY <3>4, <4>1, AgainOK DEF WorkRequeried
        <4> QED BY <2>1, <4>1, <4>2, ClearsOK
      <3>5. CASE WorkClear
        <4>1. worker' = Idle \/ \E at, left : Working(at, worker.act, left, TRUE)
          BY <3>5 DEF WorkClear
        <4> QED BY <4>1 DEF Working
      <3> QED BY <1>4, <3>1, <3>2, <3>3, <3>4, <3>5
    <2> QED BY <2>1, <2>2, <2>3 DEF Mutex
  <1> QED BY <1>1, <1>2, <1>3, <1>4 DEF Work

LEMMA MutexNext == Typed /\ Rows /\ Mutex /\ [Next]_vars => Mutex'
  <1> SUFFICES ASSUME Typed, Rows, Mutex, [Next]_vars PROVE Mutex'
    OBVIOUS
  <1>1. CASE Work
    BY <1>1, MutexWork, SoloStays
  <1>2. CASE LoadBegin
    BY <1>2 DEF LoadBegin, Mutex
  <1>3. CASE LoadRecover \/ LoadRecovered \/ LoadEnd
    <2>1. loader # Idle /\ worker' = worker
      BY <1>3, Kinds DEF LoadRecover, LoadRecovered, LoadEnd
    <2> QED BY <2>1 DEF Mutex
  <1>4. CASE DrainResult
    <2>1. AskAgain /\ worker' = worker
      BY <1>4 DEF DrainResult
    <2> QED BY <2>1, AskAgainOK DEF Mutex
  <1>5. CASE Straggler
    BY <1>5 DEF Straggler, Mutex
  <1>6. ~Work /\ ~Load /\ ~DrainResult /\ ~Straggler => UNCHANGED <<loader, worker>>
    BY DEF Next, Main, User, DrainListing, ListingsDrained, Tick, TimerRefresh, Cursor, Activate, Esc,
           Cancel, ExitRecover, ExitRecovered, ExitDetach, ExitDone, Replug, Drop, vars
  <1> QED BY <1>1, <1>2, <1>3, <1>4, <1>5, <1>6 DEF Load, Mutex

LEMMA MutexAlways == Spec => []Mutex
  BY InitMutex, MutexNext, TypedAlways, PTL DEF Spec

(* Where the list keeps rows, actions and results.                         *)
OnScreen(row) == \E i \in 1..Len(items) : items[i] = row
Stuck(row) == \E i \in 1..Len(sticky) : sticky[i] = row
Coming(row) ==
  \E i \in 1..Len(itemsq) :
    itemsq[i].current /\ \E j \in 1..Len(itemsq[i].rows) : itemsq[i].rows[j] = row
Taken(ports) == pc # "left" /\ loader.at = "load" /\ loader.current /\ loader.ports = ports
Queued(act) == \E i \in 1..Len(actq) : actq[i] = act
Waiting(r) == \E i \in 1..Len(doneq) : doneq[i] = r

(* An action has succeeded and the main loop does not know yet.            *)
Waits(id, attach) ==
  \E r \in Report : Waiting(r) /\ r.ok /\ r.act.item.id = id /\ r.act.attach = attach

(* A row tells whether its device is attached, and where.                  *)
Tells(row) ==
  /\ row.label = "free" <=> AttachedAt(vhci, row.id) = {}
  /\ row.label \in PortSet => row.label \in AttachedAt(vhci, row.id)

(* A row tells the truth, or what was true before the result that waits.   *)
Fits(row) ==
  \/ row.id \in Off
  \/ /\ row.label # "locked"
     /\ \/ Tells(row) \/ Waits(row.id, FALSE)
        \/ Waits(row.id, TRUE) /\ row.label = "free"

(* So does what the loader was told; nothing is attached while it loads.   *)
FitsPorts(ports, id) ==
  \/ id \in Off \/ AttachedAt(ports, id) = AttachedAt(vhci, id)
  \/ Waits(id, FALSE) /\ AttachedAt(vhci, id) = {}

Announces(act) ==
  /\ act.attach <=> act.item.label = "free"
  /\ act.item.id \in Off \/ (Tells(act.item) /\ act.item.label # "locked")
Agrees(task) ==
  task.act.item.id \notin Off =>
    /\ task.at # "clear"
    /\ task.at = "recover" => Announces(task.act)
    /\ task.at \in {"query", "requery", "attach"} =>
         task.act.attach /\ AttachedAt(vhci, task.act.item.id) = {}
    /\ task.at = "detach" => ~task.act.attach /\ task.ports \subseteq AttachedAt(vhci, task.act.item.id)
Came(r) ==
  r.ok /\ r.act.item.id \notin Off => (r.act.attach <=> AttachedAt(vhci, r.act.item.id) # {})

SeenTrue == \A row \in Row : OnScreen(row) \/ Stuck(row) \/ Coming(row) => Fits(row)
StuckHeld == \A row \in Row : Stuck(row) /\ row.id \in Solo => row.label # "free"
TakenTrue == \A ports \in Vhci, id \in Ids : Taken(ports) => FitsPorts(ports, id)
QueuedTrue == \A act \in Action : Queued(act) => Announces(act)
TaskTrue == \A task \in Task : worker = task => Agrees(task)
CameTrue == \A r \in Report : Waiting(r) => Came(r)

Truth == SeenTrue /\ StuckHeld /\ TakenTrue /\ QueuedTrue /\ TaskTrue /\ CameTrue

(* A step leaves a device as it is, or excuses it; or the worker has done  *)
(* to it what was announced, and the result waits.                         *)
Calm(id) ==
  \/ id \in Off'
  \/ /\ id \notin Off /\ AttachedAt(vhci, id)' = AttachedAt(vhci, id)
     /\ \A attach \in BOOLEAN : Waits(id, attach) => Waits(id, attach)'
Turned(id) ==
  /\ id \notin Off /\ \A attach \in BOOLEAN : ~Waits(id, attach)
  /\ \/ Waits(id, FALSE)' /\ AttachedAt(vhci, id)' = {}
     \/ Waits(id, TRUE)' /\ AttachedAt(vhci, id) = {} /\ loader = Idle

LEMMA FitsStill ==
  ASSUME NEW row \in Row, Fits(row), Calm(row.id) \/ Turned(row.id)
  PROVE  Fits(row)'
  <1>1. CASE row.id \in Off'
    BY <1>1 DEF Fits
  <1>2. CASE /\ row.id \notin Off /\ AttachedAt(vhci, row.id)' = AttachedAt(vhci, row.id)
             /\ \A attach \in BOOLEAN : Waits(row.id, attach) => Waits(row.id, attach)'
    <2>1. Tells(row) => Tells(row)'
      BY <1>2 DEF Tells
    <2> QED BY <1>2, <2>1 DEF Fits
  <1>3. CASE Turned(row.id)
    <2>1. Tells(row) /\ row.label # "locked"
      BY <1>3 DEF Turned, Fits
    <2>2. AttachedAt(vhci, row.id) = {} => row.label = "free"
      BY <2>1 DEF Tells
    <2> QED BY <1>3, <2>1, <2>2 DEF Turned, Fits
  <1> QED BY <1>1, <1>2, <1>3 DEF Calm

LEMMA FitsPortsStill ==
  ASSUME NEW ports \in Vhci, NEW id \in Ids, FitsPorts(ports, id), Calm(id) \/ Turned(id),
         loader # Idle
  PROVE  FitsPorts(ports, id)'
  <1>1. CASE Calm(id)
    <2>1. AttachedAt(ports, id)' = AttachedAt(vhci, id)' \/ AttachedAt(ports, id) # AttachedAt(vhci, id)
            \/ id \in Off'
      BY <1>1 DEF Calm, AttachedAt
    <2> QED BY <1>1, <2>1 DEF Calm, FitsPorts
  <1>2. CASE Turned(id)
    BY <1>2 DEF Turned, FitsPorts
  <1> QED BY <1>1, <1>2

LEMMA ActionsStill ==
  /\ \A act \in Action : Announces(act) /\ Calm(act.item.id) => Announces(act)'
  /\ \A task \in Task : Agrees(task) /\ Calm(task.act.item.id) => Agrees(task)'
  /\ \A r \in Report : Came(r) /\ Calm(r.act.item.id) => Came(r)'
  <1>1. ASSUME NEW act \in Action, Announces(act), Calm(act.item.id) PROVE Announces(act)'
    BY <1>1 DEF Announces, Calm, Tells
  <1>2. ASSUME NEW task \in Task, Agrees(task), Calm(task.act.item.id) PROVE Agrees(task)'
    <2>1. Announces(task.act) => Announces(task.act)'
      BY <1>1, <1>2, Kinds
    <2> QED BY <1>2, <2>1 DEF Agrees, Calm
  <1>3. ASSUME NEW r \in Report, Came(r), Calm(r.act.item.id) PROVE Came(r)'
    BY <1>3 DEF Came, Calm
  <1> QED BY <1>1, <1>2, <1>3

(* The rows of a listing tell what the loader was told.                    *)
LEMMA LabelFits ==
  ASSUME NEW ports \in Vhci, NEW row \in Row, FitsPorts(ports, row.id),
         NEW occupied \in {{}, Attached(vhci)}, Shows(row, ports, occupied)
  PROVE  Fits(row)
  <1> SUFFICES ASSUME row.id \notin Off PROVE Fits(row)
    BY DEF Fits
  <1>1. row.id \in Ids /\ row.id \in Solo
    BY DEF Row, Off
  <1>2. IF AttachedAt(ports, row.id) # {} THEN row.label \in AttachedAt(ports, row.id)
        ELSE row.label = IF row.id \in occupied THEN "locked" ELSE "free"
    BY <1>1 DEF Shows
  <1>3. AttachedAt(ports, row.id) \subseteq PortSet
    BY DEF AttachedAt
  <1>4. row.id \in occupied => AttachedAt(vhci, row.id) # {}
    <2> SUFFICES ASSUME row.id \in Attached(vhci) PROVE AttachedAt(vhci, row.id) # {}
      OBVIOUS
    <2>1. PICK p \in PortSet : vhci[p] = row.id
      BY DEF Attached, Held
    <2> QED BY <2>1 DEF AttachedAt
  <1>5. \/ AttachedAt(ports, row.id) = AttachedAt(vhci, row.id)
        \/ Waits(row.id, FALSE) /\ AttachedAt(vhci, row.id) = {}
    BY DEF FitsPorts
  <1>6. row.label # "locked"
    BY <1>2, <1>3, <1>4, <1>5, Names
  <1>7. AttachedAt(ports, row.id) = AttachedAt(vhci, row.id) => Tells(row)
    BY <1>2, <1>3, <1>6, Names DEF Tells
  <1> QED BY <1>5, <1>6, <1>7 DEF Fits

(* Devices whose actions are under way have a spinner.                     *)
LEMMA Places ==
  ASSUME Typed
  PROVE  /\ \A act \in Action : Queued(act) => act.item.id \in ToSet(Asked)
         /\ \A r \in Report : Waiting(r) => r.act.item.id \in ToSet(Reported)
         /\ \A id, attach : Waits(id, attach) => id \in ToSet(Reported)
         /\ worker # Idle => worker.act.item.id \in ToSet(AtWork)
  <1>1. /\ ToSet(Asked) = {Asked[i] : i \in 1..Len(actq)}
        /\ \A i \in 1..Len(actq) : Asked[i] = actq[i].item.id
    BY AskedOK, ToSetOK
  <1>2. /\ ToSet(Reported) = {Reported[i] : i \in 1..Len(doneq)}
        /\ \A i \in 1..Len(doneq) : Reported[i] = doneq[i].act.item.id
    BY ReportedOK, ToSetOK
  <1>3. \A act \in Action : Queued(act) => act.item.id \in ToSet(Asked)
    BY <1>1 DEF Queued
  <1>4. \A r \in Report : Waiting(r) => r.act.item.id \in ToSet(Reported)
    BY <1>2 DEF Waiting
  <1>5. \A id, attach : Waits(id, attach) => id \in ToSet(Reported)
    BY <1>4 DEF Waits
  <1> QED BY <1>3, <1>4, <1>5, AtWorkOK

(* One result at most waits for a device.                                  *)
LEMMA OneReport ==
  ASSUME Typed, Matches, NEW i \in 1..Len(doneq), NEW j \in 1..Len(doneq),
         doneq[i].act.item.id = doneq[j].act.item.id
  PROVE  i = j
  <1>1. /\ Reported \in Seq(Ids) /\ Len(Reported) = Len(doneq)
        /\ \A k \in 1..Len(doneq) : Reported[k] = doneq[k].act.item.id
    BY ReportedOK
  <1>2. \A k, l \in 1..Len(doneq) : Reported[k] = Reported[l] => k = l
    BY <1>1, ToSetOK DEF Matches
  <1> QED BY <1>1, <1>2

(* What is sent on a channel is there, and what was there stays.           *)
LEMMA Sends ==
  ASSUME Typed
  PROVE  /\ \A r \in Report : doneq' = Append(doneq, r) =>
              \A x \in Report : Waiting(x)' <=> Waiting(x) \/ x = r
         /\ \A act \in Action : actq' = Append(actq, act) =>
              \A x \in Action : Queued(x)' <=> Queued(x) \/ x = act
         /\ actq # <<>> /\ actq' = Tail(actq) =>
              \A x \in Action : Queued(x)' => Queued(x)
         /\ actq # <<>> => Queued(Head(actq))
         /\ doneq # <<>> => Waiting(Head(doneq))
  <1>1. PICK m \in Nat, n \in Nat : m = Len(actq) /\ n = Len(doneq)
    BY DEF Typed, Channels
  <1>2. actq \in Seq(Action) /\ doneq \in Seq(Report)
    BY DEF Typed, Channels
  <1>3. \A k \in Nat : \A i \in 1..(k + 1) : i \in 1..k \/ i = k + 1
    OBVIOUS
  <1>4. \A k \in Nat : k + 1 \in 1..(k + 1) /\ \A i \in 1..k : i \in 1..(k + 1)
    OBVIOUS
  <1>5. ASSUME NEW r \in Report, doneq' = Append(doneq, r), NEW x \in Report
        PROVE  Waiting(x)' <=> Waiting(x) \/ x = r
    <2>1. /\ Len(doneq') = n + 1 /\ doneq'[n + 1] = r
          /\ \A i \in 1..n : doneq'[i] = doneq[i]
      BY <1>1, <1>2, <1>5, Channel
    <2>2. Waiting(x)' <=> \E i \in 1..(n + 1) : doneq'[i] = x
      BY <2>1 DEF Waiting
    <2>3. Waiting(x) <=> \E i \in 1..n : doneq[i] = x
      BY <1>1 DEF Waiting
    <2> QED BY <1>3, <1>4, <2>1, <2>2, <2>3
  <1>6. ASSUME NEW act \in Action, actq' = Append(actq, act), NEW x \in Action
        PROVE  Queued(x)' <=> Queued(x) \/ x = act
    <2>1. /\ Len(actq') = m + 1 /\ actq'[m + 1] = act
          /\ \A i \in 1..m : actq'[i] = actq[i]
      BY <1>1, <1>2, <1>6, Channel
    <2>2. Queued(x)' <=> \E i \in 1..(m + 1) : actq'[i] = x
      BY <2>1 DEF Queued
    <2>3. Queued(x) <=> \E i \in 1..m : actq[i] = x
      BY <1>1 DEF Queued
    <2> QED BY <1>3, <1>4, <2>1, <2>2, <2>3
  <1>7. ASSUME actq # <<>>, actq' = Tail(actq), NEW x \in Action, Queued(x)'
        PROVE  Queued(x)
    <2>1. \A i \in 1..Len(actq') : actq'[i] = actq[i + 1] /\ i + 1 \in 1..Len(actq)
      BY <1>2, <1>7, Channel
    <2> QED BY <1>7, <2>1 DEF Queued
  <1>8. (actq # <<>> => Queued(Head(actq))) /\ (doneq # <<>> => Waiting(Head(doneq)))
    BY <1>2, Channel DEF Queued, Waiting
  <1> QED BY <1>5, <1>6, <1>7, <1>8

(* Steps that touch no port and excuse nobody.                             *)
LEMMA Quiet ==
  ASSUME Solo' = Solo, UNCHANGED <<vhci, surprise>>, \A r \in Report : Waiting(r) => Waiting(r)'
  PROVE  \A id \in Ids : Calm(id)
  <1>1. \A id \in Ids, attach \in BOOLEAN : Waits(id, attach) => Waits(id, attach)'
    BY DEF Waits
  <1>2. \A id \in Ids : AttachedAt(vhci, id)' = AttachedAt(vhci, id)
    BY DEF AttachedAt
  <1>3. Off' = Off
    BY DEF Off
  <1> QED BY <1>1, <1>2, <1>3 DEF Calm

(* A port that is lost or given back otherwise excuses its device, and so  *)
(* does an answer that hides it.                                           *)
LEMMA Excused ==
  ASSUME Typed, Rows, Solo' = Solo, doneq' = doneq \/ \E r \in Report : doneq' = Append(doneq, r),
         \/ UNCHANGED <<vhci, surprise>>
         \/ \E p : Freed(p)
         \/ vhci' = vhci /\ \E ports : Again(ports)
  PROVE  \A id \in Ids : Calm(id)
  <1>1. \A id \in Ids, attach \in BOOLEAN : Waits(id, attach) => Waits(id, attach)'
    <2>1. \A x \in Report : Waiting(x) => Waiting(x)'
      BY Sends DEF Waiting
    <2> QED BY <2>1 DEF Waits
  <1>2. Off \subseteq Off' /\ \A id \in Ids : AttachedAt(vhci, id)' = AttachedAt(vhci, id) \/ id \in Off'
    <2>1. CASE UNCHANGED <<vhci, surprise>>
      BY <2>1 DEF Off, AttachedAt
    <2>2. CASE \E p : Freed(p)
      BY <2>2, FreedOK
    <2>3. CASE vhci' = vhci /\ \E ports : Again(ports)
      BY <2>3, AgainOK DEF AttachedAt
    <2> QED BY <2>1, <2>2, <2>3
  <1> QED BY <1>1, <1>2 DEF Calm

(* Rows, snapshot and actions that stay where they are stay true.          *)
LEMMA SeenStill ==
  ASSUME Solo' = Solo, Truth, \A id \in Ids : Calm(id) \/ Turned(id),
         UNCHANGED <<pc, items, sticky, itemsq>>,
         loader' = loader \/ loader'.at # "load"
  PROVE  SeenTrue' /\ StuckHeld' /\ TakenTrue'
  <1>1. \A row \in Row : /\ OnScreen(row)' = OnScreen(row) /\ Stuck(row)' = Stuck(row)
                         /\ Coming(row)' = Coming(row) /\ row.id \in Ids
    BY DEF OnScreen, Stuck, Coming, Row
  <1>2. SeenTrue'
    BY <1>1, FitsStill DEF Truth, SeenTrue
  <1>3. StuckHeld'
    BY <1>1 DEF Truth, StuckHeld
  <1>4. \A ports \in Vhci : Taken(ports)' => Taken(ports) /\ loader # Idle
    BY Kinds DEF Taken
  <1>5. TakenTrue'
    BY <1>4, FitsPortsStill DEF Truth, TakenTrue
  <1> QED BY <1>2, <1>3, <1>5

LEMMA QueueStill ==
  ASSUME Truth, \A id \in Ids : Calm(id), \A act \in Action : Queued(act)' => Queued(act)
  PROVE  QueuedTrue'
  BY ActionsStill, Kinds DEF Truth, QueuedTrue

LEMMA TaskStill ==
  ASSUME Truth, \A id \in Ids : Calm(id), worker' = worker \/ worker' = Idle
  PROVE  TaskTrue'
  BY ActionsStill, Kinds DEF Truth, TaskTrue

LEMMA CameStill ==
  ASSUME Truth, \A id \in Ids : Calm(id), \A r \in Report : Waiting(r)' => Waiting(r)
  PROVE  CameTrue'
  BY ActionsStill, Kinds DEF Truth, CameTrue

LEMMA TruthStill ==
  ASSUME Solo' = Solo, Truth, \A id \in Ids : Calm(id),
         UNCHANGED <<pc, items, sticky, itemsq, actq, doneq>>,
         loader' = loader \/ loader'.at # "load",
         worker' = worker \/ worker' = Idle
  PROVE  Truth'
  <1>1. /\ \A act \in Action : Queued(act)' => Queued(act)
        /\ \A r \in Report : Waiting(r)' => Waiting(r)
    BY DEF Queued, Waiting
  <1>2. SeenTrue' /\ StuckHeld' /\ TakenTrue'
    BY SeenStill
  <1> QED BY <1>1, <1>2, QueueStill, TaskStill, CameStill DEF Truth

(* At first every row is as the ports are.                                 *)
LEMMA InitTruth == Init => Truth
  <1> SUFFICES ASSUME Init PROVE Truth
    OBVIOUS
  <1>1. items = Listing(vhci, exported, {}) /\ sticky = <<>> /\ itemsq = <<>> /\ loader = Idle
    BY DEF Init
  <1>2. actq = <<>> /\ doneq = <<>> /\ worker = Idle
    BY DEF Init
  <1>3. vhci \in Vhci /\ items \in Seq(Row)
    BY InitTyped DEF Typed, World, Screen
  <1>4. \A row : OnScreen(row) => Fits(row)
    <2> SUFFICES ASSUME NEW row, OnScreen(row) PROVE Fits(row)
      OBVIOUS
    <2>1. row \in Row /\ Shows(row, vhci, {})
      BY <1>1, <1>3, ListingOK DEF OnScreen
    <2>2. FitsPorts(vhci, row.id)
      BY DEF FitsPorts
    <2> QED BY <1>3, <2>1, <2>2, LabelFits
  <1>5. \A row : ~Stuck(row) /\ ~Coming(row)
    BY <1>1 DEF Stuck, Coming
  <1>6. /\ \A act : ~Queued(act)
        /\ \A r : ~Waiting(r)
        /\ \A ports : ~Taken(ports)
    BY <1>1, <1>2, Kinds DEF Queued, Waiting, Taken
  <1>7. TaskTrue
    BY <1>2, Kinds DEF TaskTrue
  <1> QED BY <1>4, <1>5, <1>6, <1>7 DEF Truth, SeenTrue, StuckHeld, TakenTrue, QueuedTrue, CameTrue

(* Nobody reads what is left behind but the worker.                        *)
LEMMA TruthLeaves ==
  ASSUME Solo' = Solo, Truth, Leaves, UNCHANGED <<worker, vhci, surprise>>
  PROVE  Truth'
  <1>1. pc' = "left" /\ items' = <<>> /\ sticky' = <<>> /\ itemsq' = <<>> /\ actq' = <<>> /\ doneq' = <<>>
    BY DEF Leaves
  <1>2. /\ \A row : ~OnScreen(row)' /\ ~Stuck(row)' /\ ~Coming(row)'
        /\ \A ports : ~Taken(ports)'
        /\ \A act : ~Queued(act)'
        /\ \A r : ~Waiting(r)'
    BY <1>1 DEF OnScreen, Stuck, Coming, Taken, Queued, Waiting
  <1>3. \A task \in Task : Agrees(task) => Agrees(task)'
    BY DEF Agrees, Announces, Tells, AttachedAt, Off
  <1> QED BY <1>2, <1>3 DEF Truth, SeenTrue, StuckHeld, TakenTrue, QueuedTrue, TaskTrue, CameTrue

(* The keyboard, and what happens outside.                                 *)
LEMMA TruthQuiet ==
  ASSUME Typed, Rows, Solo' = Solo, Truth,
         ListingsDrained \/ Tick \/ TimerRefresh \/ Cursor \/ Cancel \/ ExitRecover \/ ExitRecovered
           \/ ExitDetach \/ (ExitDone /\ ~Leaves) \/ Replug \/ Drop \/ UNCHANGED vars
  PROVE  Truth'
  <1>1. UNCHANGED <<items, sticky, itemsq, loader, actq, doneq, worker>>
    BY DEF ListingsDrained, Tick, TimerRefresh, Cursor, Cancel, ExitRecover, ExitRecovered, ExitDetach,
           ExitDone, Replug, Drop, vars, shown, queues
  <1>2. \/ UNCHANGED <<vhci, surprise>>
        \/ \E p : Freed(p)
        \/ vhci' = vhci /\ \E ports : Again(ports)
    BY DEF ListingsDrained, Tick, TimerRefresh, Cursor, Cancel, ExitRecover, ExitRecovered, ExitDetach,
           ExitDone, Replug, Drop, vars, outside, Freed
  <1>3. \A id \in Ids : Calm(id)
    BY <1>1, <1>2, Excused
  <1>4. pc' = "left" => pc = "left"
    BY LoopGoesOn DEF ListingsDrained, Tick, TimerRefresh, Cursor, Cancel, ExitRecover, ExitRecovered,
                      ExitDetach, ExitDone, Replug, Drop, vars, outside
  <1>5. pc = "left" => pc' = "left"
    BY DEF ListingsDrained, Tick, TimerRefresh, Cursor, Cancel, ExitRecover, ExitRecovered,
           ExitDetach, ExitDone, Replug, Drop, vars
  <1>6. /\ \A act \in Action : Queued(act)' => Queued(act)
        /\ \A r \in Report : Waiting(r)' => Waiting(r)
    BY <1>1 DEF Queued, Waiting
  <1>7. \A row \in Row : /\ OnScreen(row)' = OnScreen(row) /\ Stuck(row)' = Stuck(row)
                         /\ Coming(row)' = Coming(row) /\ row.id \in Ids
    BY <1>1 DEF OnScreen, Stuck, Coming, Row
  <1>8. SeenTrue' /\ StuckHeld'
    BY <1>3, <1>7, FitsStill DEF Truth, SeenTrue, StuckHeld
  <1>9. TakenTrue'
    <2>1. \A ports \in Vhci : Taken(ports)' => Taken(ports) /\ loader # Idle
      BY <1>1, <1>5, Kinds DEF Taken
    <2> QED BY <1>3, <2>1, FitsPortsStill DEF Truth, TakenTrue
  <1> QED BY <1>1, <1>3, <1>6, <1>8, <1>9, QueueStill, TaskStill, CameStill DEF Truth

(* The loader asks for the ports: it is told how they are, or recovers and *)
(* is told how they are but for those that are exempt.                     *)
LEMMA TruthLoads ==
  ASSUME Typed, Rows, Solo' = Solo, Truth, LoadBegin \/ LoadRecover \/ LoadRecovered
  PROVE  Truth'
  <1>1. UNCHANGED <<pc, items, sticky, itemsq, actq, doneq, worker>>
    BY DEF LoadBegin, LoadRecover, LoadRecovered, shown, queues
  <1>2. \/ UNCHANGED <<vhci, surprise>>
        \/ \E p : Freed(p)
        \/ vhci' = vhci /\ \E ports : Again(ports)
    BY DEF LoadBegin, LoadRecover, LoadRecovered
  <1>3. \A id \in Ids : Calm(id)
    BY <1>1, <1>2, Excused
  <1>4. CASE loader'.at # "load"
    BY <1>1, <1>3, <1>4, TruthStill
  <1>5. CASE loader'.at = "load"
    <2>1. \A row \in Row : /\ OnScreen(row)' = OnScreen(row) /\ Stuck(row)' = Stuck(row)
                           /\ Coming(row)' = Coming(row) /\ row.id \in Ids
      BY <1>1 DEF OnScreen, Stuck, Coming, Row
    <2>2. SeenTrue' /\ StuckHeld'
      BY <1>3, <2>1, FitsStill DEF Truth, SeenTrue, StuckHeld
    <2>3. vhci' = vhci /\ \A id \in Ids : id \in Off' \/ AttachedAt(loader'.ports, id) = AttachedAt(vhci, id)
      <3>1. CASE LoadBegin
        <4>1. loader'.ports = vhci
          BY <1>5, <3>1 DEF LoadBegin
        <4> QED BY <3>1, <4>1 DEF LoadBegin
      <3>2. CASE LoadRecover
        <4>1. loader \in Recovering
          BY <3>2, Kinds DEF Typed, Threads, LoadRecover
        <4>2. loader'.at = "recover"
          BY <3>2, <4>1 DEF LoadRecover, Recovering
        <4> QED BY <1>5, <4>2
      <3>3. CASE LoadRecovered
        <4>1. PICK ports : Again(ports) /\ loader'.ports = ports
          BY <3>3 DEF LoadRecovered
        <4>2. vhci' = vhci
          BY <3>3 DEF LoadRecovered
        <4> QED BY <4>1, <4>2, AgainOK
      <3> QED BY <3>1, <3>2, <3>3
    <2>4. TakenTrue'
      <3> SUFFICES ASSUME NEW ports \in Vhci, NEW id \in Ids, Taken(ports)' PROVE FitsPorts(ports, id)'
        BY DEF TakenTrue
      <3>1. loader'.ports = ports
        BY DEF Taken
      <3>2. AttachedAt(ports, id)' = AttachedAt(ports, id) /\ AttachedAt(vhci, id)' = AttachedAt(vhci, id)
        BY <2>3 DEF AttachedAt
      <3> QED BY <2>3, <3>1, <3>2 DEF FitsPorts
    <2>5. /\ \A act \in Action : Queued(act)' => Queued(act)
          /\ \A r \in Report : Waiting(r)' => Waiting(r)
      BY <1>1 DEF Queued, Waiting
    <2> QED BY <1>1, <1>3, <2>2, <2>4, <2>5, QueueStill, TaskStill, CameStill DEF Truth
  <1> QED BY <1>4, <1>5

(* The listing says what the loader was told.                              *)
LEMMA TruthLoadEnd == ASSUME Typed, Rows, Solo' = Solo, Truth, LoadEnd PROVE Truth'
  <1>1. UNCHANGED <<pc, vhci, surprise, items, sticky, actq, doneq, worker>> /\ pc # "left"
        /\ loader.at = "load" /\ loader' = Idle
    BY DEF LoadEnd, shown
  <1>2. /\ \A act \in Action : Queued(act)' => Queued(act)
        /\ \A r \in Report : Waiting(r)' <=> Waiting(r)
    BY <1>1 DEF Queued, Waiting
  <1>3. \A id \in Ids : Calm(id)
    BY <1>1, <1>2, Quiet
  <1>4. PICK ok \in BOOLEAN, known \in SUBSET Ids, occupied \in {{}, Attached(vhci)}, a \in Answer :
          /\ itemsq' = Append(itemsq, a) /\ a.current = loader.current
          /\ a.rows = IF ok THEN Listing(loader.ports, known, occupied) ELSE <<>>
          /\ loader \in Snapshot /\ loader.ports \in Vhci
    BY LoadedOK
  <1>5. PICK ports \in Vhci : ports = loader.ports
    BY <1>4
  <1>6. a.current => \A j \in 1..Len(a.rows) : Fits(a.rows[j])
    <2> SUFFICES ASSUME loader.current, NEW j \in 1..Len(a.rows) PROVE Fits(a.rows[j])
      BY <1>4
    <2>1. ok
      BY <1>4
    <2>2. PICK row \in Row : row = a.rows[j]
      BY <1>4, Kinds
    <2>3. Shows(row, ports, occupied)
      BY <1>4, <1>5, <2>1, <2>2, ListingOK
    <2>4. FitsPorts(ports, row.id)
      BY <1>1, <1>5, Kinds DEF Truth, TakenTrue, Taken, Row
    <2> QED BY <2>2, <2>3, <2>4, LabelFits
  <1>7. \A row \in Row : Coming(row)' => Coming(row) \/ Fits(row)
    <2> SUFFICES ASSUME NEW row \in Row, Coming(row)', ~Coming(row) PROVE Fits(row)
      OBVIOUS
    <2>1. PICK i \in 1..Len(itemsq') :
             itemsq'[i].current /\ \E j \in 1..Len(itemsq'[i].rows) : itemsq'[i].rows[j] = row
      BY DEF Coming
    <2>2. PICK n \in Nat : n = Len(itemsq)
      BY DEF Typed, Channels
    <2>3. /\ Len(itemsq') = n + 1 /\ itemsq'[n + 1] = a
          /\ \A k \in 1..n : itemsq'[k] = itemsq[k]
      BY <1>4, <2>2, Channel DEF Typed, Channels
    <2>4. i \in 1..n \/ i = n + 1
      BY <2>2, <2>3
    <2>5. i \notin 1..n
      BY <2>1, <2>2, <2>3 DEF Coming
    <2>6. itemsq'[i] = a
      BY <2>3, <2>4, <2>5
    <2> QED BY <1>6, <2>1, <2>6
  <1>8. \A row \in Row : OnScreen(row)' = OnScreen(row) /\ Stuck(row)' = Stuck(row) /\ row.id \in Ids
    BY <1>1 DEF OnScreen, Stuck, Row
  <1>9. SeenTrue' /\ StuckHeld'
    <2>1. \A row \in Row : OnScreen(row)' \/ Stuck(row)' \/ Coming(row)' => Fits(row)
      BY <1>7, <1>8 DEF Truth, SeenTrue
    <2> QED BY <1>3, <1>8, <2>1, FitsStill DEF Truth, SeenTrue, StuckHeld
  <1>10. TakenTrue'
    BY <1>1, Kinds DEF TakenTrue, Taken
  <1>11. QueuedTrue' /\ TaskTrue' /\ CameTrue'
    BY <1>1, <1>2, <1>3, QueueStill, TaskStill, CameStill
  <1> QED BY <1>9, <1>10, <1>11 DEF Truth

(* The worker starts what the row announced.                               *)
LEMMA TakesShown ==
  ASSUME NEW task \in Task, Announces(task.act), task.at = "detach", task.act.item.label \in PortSet,
         task.ports = {task.act.item.label}
  PROVE  Agrees(task)
  BY Names DEF Announces, Tells, Agrees

LEMMA TakesChosen ==
  ASSUME NEW act \in Action, Announces(act), NEW ports, NEW task, Chosen(task, ports, act),
         act.item.id \notin Off => AttachedAt(ports, act.item.id) = AttachedAt(vhci, act.item.id)
  PROVE  Agrees(task)
  <1> SUFFICES ASSUME act.item.id \notin Off PROVE Agrees(task)
    BY DEF Agrees, Chosen
  <1>1. task.act = act /\ act.item.id \in Solo
    BY Kinds DEF Off, Chosen
  <1>2. act.attach <=> AttachedAt(vhci, act.item.id) = {}
    BY DEF Announces, Tells
  <1> QED BY <1>1, <1>2 DEF Agrees, Chosen

LEMMA TruthWorkShown == ASSUME Typed, Rows, Solo' = Solo, Truth, WorkShown PROVE Truth'
  <1>1. /\ actq # <<>> /\ actq' = Tail(actq) /\ worker = Idle
        /\ UNCHANGED <<pc, vhci, surprise, items, sticky, itemsq, loader, doneq>>
    BY DEF WorkShown, shown, outside
  <1>2. PICK act \in Action : act = Head(actq) /\ act.item.label \in PortSet
    BY Channel DEF Typed, Channels, WorkShown
  <1>3. PICK task \in Task : /\ task = worker' /\ task.act = act /\ task.at = "detach"
                             /\ task.ports = {act.item.label}
    <2>1. PICK task : task = [at |-> "detach", act |-> act, ports |-> {act.item.label}, locked |-> FALSE]
      OBVIOUS
    <2>2. task \in Task
      BY <1>2, <2>1 DEF Task
    <2> QED BY <1>2, <2>1, <2>2 DEF WorkShown, Working
  <1>4. /\ \A x \in Action : Queued(x)' => Queued(x)
        /\ \A r \in Report : Waiting(r)' <=> Waiting(r)
    BY <1>1, Sends DEF Waiting
  <1>5. \A id \in Ids : Calm(id)
    BY <1>1, <1>4, Quiet
  <1>6. Announces(act)
    BY <1>1, <1>2, Sends DEF Truth, QueuedTrue
  <1>7. Agrees(task)
    BY <1>2, <1>3, <1>6, TakesShown
  <1>8. TaskTrue'
    BY <1>3, <1>5, <1>7, ActionsStill, Kinds DEF TaskTrue
  <1>9. SeenTrue' /\ StuckHeld' /\ TakenTrue'
    BY <1>1, <1>5, SeenStill
  <1> QED BY <1>4, <1>5, <1>8, <1>9, QueueStill, CameStill DEF Truth

(* What the worker turns to next keeps what it has in hand honest.         *)
LEMMA TruthTurns ==
  ASSUME Typed, Rows, Solo' = Solo, Truth, \A id \in Ids : Calm(id),
         UNCHANGED <<pc, items, sticky, itemsq, loader, doneq>>,
         \A x \in Action : Queued(x)' => Queued(x),
         NEW task \in Task, worker' = task, Agrees(task)'
  PROVE  Truth'
  <1>1. \A r \in Report : Waiting(r)' <=> Waiting(r)
    BY DEF Waiting
  <1>2. TaskTrue'
    <2>1. \A x \in Task : worker' = x => x = task
      OBVIOUS
    <2> QED BY <2>1 DEF TaskTrue
  <1>3. SeenTrue' /\ StuckHeld' /\ TakenTrue'
    BY SeenStill
  <1> QED BY <1>1, <1>2, <1>3, QueueStill, CameStill DEF Truth

(* A result that says nothing of an effect.                                *)
LEMMA TruthUntold ==
  ASSUME Typed, Rows, Solo' = Solo, Truth, UNCHANGED <<pc, items, sticky, itemsq>>,
         loader' = loader \/ loader'.at # "load", worker' = worker \/ worker' = Idle,
         \A x \in Action : Queued(x)' => Queued(x),
         NEW r \in Report, ~r.ok, doneq' = doneq \/ doneq' = Append(doneq, r),
         \A d \in Ids : \/ d \in Off'
                        \/ d \notin Off /\ AttachedAt(vhci, d)' = AttachedAt(vhci, d)
  PROVE  Truth'
  <1>1. \A x \in Report : (Waiting(x) => Waiting(x)') /\ (Waiting(x)' => Waiting(x) \/ x = r)
    BY Sends DEF Waiting
  <1>2. \A d \in Ids : Calm(d)
    <2>1. \A d \in Ids, attach \in BOOLEAN : Waits(d, attach) => Waits(d, attach)'
      BY <1>1 DEF Waits
    <2> QED BY <2>1 DEF Calm
  <1>3. CameTrue'
    BY <1>1, <1>2, ActionsStill, Kinds DEF Truth, CameTrue, Came
  <1>4. SeenTrue' /\ StuckHeld' /\ TakenTrue'
    BY <1>2, SeenStill
  <1> QED BY <1>2, <1>3, <1>4, QueueStill, TaskStill DEF Truth

(* An error is sent while nothing happens to the ports but what is excused.*)
LEMMA TruthFails ==
  ASSUME Typed, Rows, Solo' = Solo, Truth, NEW act \in Action, Result(act, FALSE), worker' = Idle,
         UNCHANGED <<pc, items, sticky, itemsq, loader>>,
         \A x \in Action : Queued(x)' => Queued(x),
         \/ UNCHANGED <<vhci, surprise>>
         \/ \E p : Freed(p)
         \/ vhci' = vhci /\ \E ports : Again(ports)
  PROVE  Truth'
  <1>1. PICK r : r = [act |-> act, ok |-> FALSE]
    OBVIOUS
  <1>2. r \in Report /\ ~r.ok /\ doneq' = Append(doneq, r)
    BY <1>1 DEF Report, Result
  <1>3. \A id \in Ids : Calm(id)
    BY <1>2, Excused
  <1> QED BY <1>2, <1>3, TruthUntold DEF Calm

LEMMA TruthWorkToggle == ASSUME Typed, Rows, Solo' = Solo, Truth, WorkToggle PROVE Truth'
  <1>1. /\ actq # <<>> /\ actq' = Tail(actq) /\ worker = Idle /\ Head(actq) \in Action
        /\ UNCHANGED <<pc, vhci, surprise, items, sticky, itemsq, loader>>
    BY Toggles DEF shown
  <1>2. PICK act \in Action : act = Head(actq)
    BY <1>1
  <1>3. \A x \in Action : Queued(x)' => Queued(x)
    BY <1>1, Sends
  <1>4. Announces(act)
    BY <1>1, <1>2, Sends DEF Truth, QueuedTrue
  <1>5. CASE doneq' = Append(doneq, [act |-> act, ok |-> FALSE]) /\ worker' = Idle
    BY <1>1, <1>3, <1>5, TruthFails DEF Result
  <1>6. CASE doneq' = doneq /\ worker' # Idle
    <2>1. /\ worker' \in Task /\ worker'.act = act
          /\ Chosen(worker', vhci, act) \/ worker'.at = "recover"
      BY <1>2, <1>6, Toggles DEF Chosen
    <2>2. PICK task \in Task : task = worker'
      BY <2>1
    <2>3. \A id \in Ids : Calm(id)
      BY <1>1, <1>6, Quiet DEF Waiting
    <2>4. Agrees(task)
      <3>1. CASE Chosen(task, vhci, act)
        BY <1>4, <3>1, TakesChosen
      <3>2. CASE task.at = "recover"
        BY <1>4, <2>1, <2>2, <3>2 DEF Agrees
      <3> QED BY <2>1, <2>2, <3>1, <3>2
    <2>5. Agrees(task)'
      BY <2>3, <2>4, ActionsStill, Kinds
    <2> QED BY <1>1, <1>3, <1>6, <2>2, <2>3, <2>5, TruthTurns
  <1>7. \/ doneq' = Append(doneq, [act |-> act, ok |-> FALSE]) /\ worker' = Idle
        \/ doneq' = doneq /\ worker' # Idle
    BY <1>2, Toggles, Kinds DEF Chosen
  <1> QED BY <1>5, <1>6, <1>7

(* The worker detaches what the fallback lists.                            *)
LEMMA TruthWorkRecover == ASSUME Typed, Rows, Solo' = Solo, Truth, WorkRecover PROVE Truth'
  <1>1. /\ worker' = [worker EXCEPT !.ports = @ \ {First(@)}] /\ worker.at \in {"recover", "requery"}
        /\ UNCHANGED <<pc, items, sticky, itemsq, loader, actq, doneq>> /\ \E p : Freed(p)
    BY DEF WorkRecover, shown, queues
  <1>2. worker \in Task /\ worker.act \in Action
    BY Kinds DEF Typed, Threads, WorkRecover
  <1>3. PICK task \in Task : task = worker' /\ task.act = worker.act /\ task.at = worker.at
    <2>1. worker' \in Task /\ worker'.act = worker.act /\ worker'.at = worker.at
      BY <1>1, <1>2 DEF Task
    <2> QED BY <2>1
  <1>4. \A id \in Ids : Calm(id)
    BY <1>1, Excused
  <1>5. Agrees(worker)
    BY <1>2 DEF Truth, TaskTrue
  <1>6. Agrees(task)
    BY <1>1, <1>3, <1>5 DEF Agrees
  <1>7. Agrees(task)'
    BY <1>4, <1>6, ActionsStill, Kinds
  <1>8. \A x \in Action : Queued(x)' => Queued(x)
    BY <1>1 DEF Queued
  <1> QED BY <1>1, <1>3, <1>4, <1>7, <1>8, TruthTurns

(* The worker is told again.                                               *)
LEMMA TruthWorkRecovered == ASSUME Typed, Rows, Solo' = Solo, Truth, WorkRecovered PROVE Truth'
  <1>1. worker \in Task /\ worker.act \in Action /\ worker.at = "recover"
        /\ UNCHANGED <<pc, items, sticky, itemsq, loader, actq, vhci>>
    BY Kinds DEF Typed, Threads, WorkRecovered, shown
  <1>2. PICK ports : Again(ports) /\ Looks(worker.act, ports)
    BY DEF WorkRecovered
  <1>3. ports \in Vhci /\ Off \subseteq Off'
        /\ \A id \in Ids \ Off' : AttachedAt(ports, id) = AttachedAt(vhci, id)
    BY <1>1, <1>2, AgainOK
  <1>4. PICK act \in Action : act = worker.act
    BY <1>1
  <1>5. \/ doneq' = doneq /\ Chosen(worker', ports, act)
        \/ doneq' = Append(doneq, [act |-> act, ok |-> FALSE]) /\ worker' = Idle
    BY <1>2, <1>3, <1>4, LooksOK
  <1>6. \A x \in Action : Queued(x)' => Queued(x)
    BY <1>1 DEF Queued
  <1>7. CASE doneq' = Append(doneq, [act |-> act, ok |-> FALSE]) /\ worker' = Idle
    BY <1>1, <1>2, <1>6, <1>7, TruthFails DEF Result
  <1>8. CASE doneq' = doneq /\ Chosen(worker', ports, act)
    <2>1. \A id \in Ids : Calm(id)
      BY <1>1, <1>2, <1>8, Excused
    <2>2. PICK task \in Task : task = worker' /\ task.act = act
      BY <1>8 DEF Chosen
    <2>3. Announces(act) \/ act.item.id \in Off
      <3>1. Agrees(worker)
        BY <1>1 DEF Truth, TaskTrue
      <3> QED BY <1>1, <1>4, <3>1 DEF Agrees
    <2>4. Agrees(task)'
      <3>1. CASE act.item.id \in Off'
        BY <2>2, <3>1 DEF Agrees
      <3>2. CASE act.item.id \notin Off'
        <4>1. Announces(act) /\ act.item.id \in Ids
          BY <1>3, <2>3, <3>2, Kinds
        <4>2. AttachedAt(ports, act.item.id) = AttachedAt(vhci, act.item.id)
          BY <1>3, <3>2, <4>1
        <4>3. Agrees(task)
          BY <1>8, <2>2, <4>1, <4>2, TakesChosen
        <4> QED BY <2>1, <2>2, <4>1, <4>3, ActionsStill
      <3> QED BY <3>1, <3>2
    <2> QED BY <1>1, <1>6, <1>8, <2>1, <2>2, <2>4, TruthTurns
  <1> QED BY <1>5, <1>7, <1>8

(* Nothing of the device is found that auto_detach_matching_ports would    *)
(* detach.                                                                 *)
LEMMA TruthClears ==
  ASSUME Typed, Rows, Solo' = Solo, Truth, worker # Idle, worker.at \in {"query", "requery"},
         NEW ports \in Vhci, Clears(worker.act, ports),
         UNCHANGED <<pc, items, sticky, itemsq, loader, actq, doneq, vhci>>,
         surprise' = surprise \/ Again(ports),
         \A id \in Ids \ Off' : AttachedAt(ports, id) = AttachedAt(vhci, id)
  PROVE  Truth'
  <1>1. worker \in Task /\ worker.act \in Action
    BY Kinds DEF Typed, Threads
  <1>2. PICK act \in Action : act = worker.act
    BY <1>1
  <1>3. \A id \in Ids : Calm(id)
    BY Excused
  <1>4. PICK task \in Task : /\ task = worker' /\ task.act = act /\ task.at \in {"attach", "clear"}
                             /\ act.item.id \in Solo =>
                                  (task.at = "clear" <=> AttachedAt(ports, act.item.id) # {})
    BY <1>1, <1>2, ClearsOK
  <1>5. Agrees(worker)
    BY <1>1 DEF Truth, TaskTrue
  <1>6. Agrees(task)'
    <2> SUFFICES ASSUME act.item.id \notin Off' PROVE Agrees(task)'
      BY <1>4 DEF Agrees
    <2>1. act.item.id \in Ids
      BY Kinds
    <2>2. act.item.id \notin Off /\ AttachedAt(vhci, act.item.id)' = AttachedAt(vhci, act.item.id)
      BY <1>3, <2>1 DEF Calm
    <2>3. act.item.id \in Solo /\ AttachedAt(ports, act.item.id) = AttachedAt(vhci, act.item.id)
      BY <2>1, <2>2 DEF Off
    <2>4. act.attach /\ AttachedAt(vhci, act.item.id) = {}
      BY <1>2, <1>5, <2>2 DEF Agrees
    <2>5. task.at = "attach"
      BY <1>4, <2>3, <2>4
    <2> QED BY <1>4, <2>2, <2>4, <2>5 DEF Agrees
  <1>7. \A x \in Action : Queued(x)' => Queued(x)
    BY DEF Queued
  <1> QED BY <1>3, <1>4, <1>6, <1>7, TruthTurns

LEMMA TruthWorkQuery ==
  ASSUME Typed, Rows, Solo' = Solo, Truth, WorkQuery \/ WorkRequeried
  PROVE  Truth'
  <1>1. /\ worker # Idle /\ worker.at \in {"query", "requery"} /\ vhci \in Vhci
        /\ UNCHANGED <<pc, items, sticky, itemsq, loader, actq, doneq, vhci>>
    BY DEF Typed, World, WorkQuery, WorkRequeried, shown, queues
  <1>2. CASE WorkQuery /\ Clears(worker.act, vhci)
    <2>1. surprise' = surprise
      BY <1>2 DEF WorkQuery
    <2> QED BY <1>1, <1>2, <2>1, TruthClears
  <1>3. CASE WorkRequeried
    <2>1. PICK ports : Again(ports) /\ Clears(worker.act, ports)
      BY <1>3 DEF WorkRequeried
    <2>2. ports \in Vhci /\ \A id \in Ids \ Off' : AttachedAt(ports, id) = AttachedAt(vhci, id)
      BY <1>1, <2>1, AgainOK
    <2> QED BY <1>1, <2>1, <2>2, TruthClears
  <1>4. CASE WorkQuery /\ Working("requery", worker.act, InUse, TRUE)
    <2>1. worker \in Task /\ worker.act \in Action /\ worker.at = "query" /\ surprise' = surprise
      BY <1>1, <1>4, Kinds DEF Typed, Threads, WorkQuery
    <2>2. InUse \subseteq PortSet
      BY DEF InUse, Held
    <2>3. PICK task : task = [at |-> "requery", act |-> worker.act, ports |-> InUse, locked |-> TRUE]
      OBVIOUS
    <2>4. task \in Task /\ task = worker' /\ task.act = worker.act /\ task.at = "requery"
      BY <1>4, <2>1, <2>2, <2>3 DEF Task, Working
    <2>5. \A id \in Ids : Calm(id)
      BY <1>1, <2>1, Quiet DEF Waiting
    <2>6. Agrees(worker)
      BY <2>1 DEF Truth, TaskTrue
    <2>7. Agrees(task)
      BY <2>1, <2>4, <2>6 DEF Agrees
    <2>8. Agrees(task)'
      BY <2>4, <2>5, <2>7, ActionsStill, Kinds
    <2>9. \A x \in Action : Queued(x)' => Queued(x)
      BY <1>1 DEF Queued
    <2> QED BY <1>1, <2>4, <2>5, <2>8, <2>9, TruthTurns
  <1> QED BY <1>2, <1>3, <1>4 DEF WorkQuery

(* Only for an exempt device is there something to detach first.           *)
LEMMA TruthWorkClear == ASSUME Typed, Rows, Solo' = Solo, Truth, WorkClear PROVE Truth'
  <1>1. /\ worker \in Task /\ worker.act \in Action /\ worker.ports \subseteq PortSet
        /\ worker.at = "clear" /\ UNCHANGED <<pc, items, sticky, itemsq, loader, actq>>
    BY Kinds DEF Typed, Threads, WorkClear, shown
  <1>2. PICK p, left : p = First(worker.ports) /\ left = worker.ports \ {p}
    OBVIOUS
  <1>3. \A x \in Action : Queued(x)' => Queued(x)
    BY <1>1 DEF Queued
  <1>4. CASE /\ Freed(p) /\ doneq' = doneq
             /\ Working(IF left = {} THEN "attach" ELSE "clear", worker.act, left, TRUE)
    <2>1. PICK task : task = [at |-> IF left = {} THEN "attach" ELSE "clear", act |-> worker.act,
                              ports |-> left, locked |-> TRUE]
      OBVIOUS
    <2>2. task \in Task /\ task = worker' /\ task.act = worker.act
      BY <1>1, <1>2, <1>4, <2>1 DEF Task, Working
    <2>3. \A id \in Ids : Calm(id)
      BY <1>4, Excused
    <2>4. worker.act.item.id \in Off
      <3>1. Agrees(worker)
        BY <1>1 DEF Truth, TaskTrue
      <3> QED BY <1>1, <3>1 DEF Agrees
    <2>5. worker.act.item.id \in Off'
      BY <1>4, <2>4, FreedOK
    <2>6. Agrees(task)'
      BY <2>2, <2>5 DEF Agrees
    <2> QED BY <1>1, <1>3, <1>4, <2>2, <2>3, <2>6, TruthTurns
  <1>5. CASE /\ UNCHANGED <<vhci, surprise>> \/ Freed(p)
             /\ Result(worker.act, FALSE) /\ worker' = Idle
    BY <1>1, <1>3, <1>5, TruthFails
  <1> QED BY <1>2, <1>4, <1>5 DEF WorkClear

(* A row that has no spinner tells the truth when the key is pressed.      *)
LEMMA TruthActivate == ASSUME Typed, Rows, Solo' = Solo, Matches, Truth, Activate PROVE Truth'
  <1>1. UNCHANGED <<vhci, surprise, items, sticky, itemsq, loader, doneq, worker>> /\ pc = "keys"
        /\ pc' # "left"
    BY LoopGoesOn DEF Activate, outside
  <1>2. PICK item \in Row : /\ item = items[selected + 1] /\ item.id \in Ids
                            /\ selected + 1 \in 1..Len(items)
    BY UnderCursor DEF Activate, Row
  <1>3. PICK act : act = [item |-> item, attach |-> item.label = "free"]
    OBVIOUS
  <1>4. /\ act \in Action /\ act.item = item /\ act.attach = (item.label = "free")
        /\ actq' = Append(actq, act) /\ item.id \notin ToSet(processing)
    BY <1>2, <1>3 DEF Action, Activate
  <1>5. \A r \in Report : Waiting(r)' <=> Waiting(r)
    BY <1>1 DEF Waiting
  <1>6. \A id \in Ids : Calm(id)
    BY <1>1, <1>5, Quiet
  <1>7. Fits(item)
    BY <1>2 DEF Truth, SeenTrue, OnScreen
  <1>8. \A attach : ~Waits(item.id, attach)
    BY <1>4, Places DEF Matches, Under
  <1>9. Announces(act)
    BY <1>4, <1>7, <1>8 DEF Fits, Announces
  <1>10. \A x \in Action : Queued(x)' <=> Queued(x) \/ x = act
    BY <1>4, Sends
  <1>11. QueuedTrue'
    BY <1>6, <1>9, <1>10, ActionsStill, Kinds DEF Truth, QueuedTrue
  <1>12. SeenTrue' /\ StuckHeld'
    <2>1. \A row \in Row : /\ OnScreen(row)' = OnScreen(row) /\ Stuck(row)' = Stuck(row)
                           /\ Coming(row)' = Coming(row) /\ row.id \in Ids
      BY <1>1 DEF OnScreen, Stuck, Coming, Row
    <2> QED BY <1>6, <2>1, FitsStill DEF Truth, SeenTrue, StuckHeld
  <1>13. TakenTrue'
    <2>1. \A ports \in Vhci : Taken(ports)' => Taken(ports) /\ loader # Idle
      BY <1>1, Kinds DEF Taken
    <2> QED BY <1>6, <2>1, FitsPortsStill DEF Truth, TakenTrue
  <1> QED BY <1>1, <1>5, <1>6, <1>11, <1>12, <1>13, TaskStill, CameStill DEF Truth

(* What a command does to devices: only the worker's own device may change *)
(* unexcused, and then as announced.                                       *)
LEMMA Effects ==
  ASSUME Typed, Rows, Solo' = Solo, Truth, worker # Idle, NEW ok \in BOOLEAN, Effect(ok),
         NEW id \in Ids, id = worker.act.item.id
  PROVE  /\ \A d \in Ids : d # id \/ ~ok =>
              \/ d \in Off'
              \/ d \notin Off /\ AttachedAt(vhci, d)' = AttachedAt(vhci, d)
         /\ id \in Off' \/
              /\ id \notin Off
              /\ worker.act.attach =>
                   /\ worker.at = "attach" /\ AttachedAt(vhci, id) = {} /\ AttachedAt(vhci, id)' # {}
              /\ ~worker.act.attach => AttachedAt(vhci, id)' = {}
            \/ ~ok
  <1>1. worker \in Task /\ worker.act \in Action /\ worker.act.attach \in BOOLEAN
    BY Kinds DEF Typed, Threads
  <1>2. vhci \in Vhci /\ Exclusive(vhci)
    BY DEF Typed, World, Rows
  <1>3. id \notin Off =>
          /\ worker.at = "attach" => worker.act.attach
          /\ worker.at = "detach" => ~worker.act.attach /\ worker.ports \subseteq AttachedAt(vhci, id)
    BY <1>1 DEF Truth, TaskTrue, Agrees
  <1>4. CASE worker.at = "detach"
    <2>1. PICK p \in worker.ports :
            /\ vhci[p] # None /\ vhci' = [vhci EXCEPT ![p] = None]
            /\ AsShown(ok /\ ~worker.act.attach /\ vhci[p] = id, vhci[p])
      BY <1>4 DEF Effect
    <2>2. PICK v : v = vhci[p]
      OBVIOUS
    <2>3. p \in PortSet /\ v \in Ids
      BY <1>1, <1>2, <2>1, <2>2, Kinds DEF Vhci
    <2>4. PICK gone : gone = IF ok /\ ~worker.act.attach /\ v = id THEN {} ELSE {v}
      OBVIOUS
    <2>5. Unseen(gone)
      BY <2>1, <2>2, <2>4 DEF AsShown
    <2>6. Off' = Off \cup (gone \cap Ids)
      BY <2>5, UnseenOK
    <2>7. \A d \in Ids : AttachedAt(vhci, d)' = AttachedAt(vhci, d) \ {p}
      <3>1. \A d \in Ids : AttachedAt([vhci EXCEPT ![p] = None], d) = AttachedAt(vhci, d) \ {p}
        BY <1>2, PortFreed
      <3> QED BY <2>1, <3>1 DEF AttachedAt
    <2>8. \A d \in Ids : p \in AttachedAt(vhci, d) <=> v = d
      BY <2>2, <2>3 DEF AttachedAt
    <2>9. \A d \in Ids : v # d => AttachedAt(vhci, d)' = AttachedAt(vhci, d)
      BY <2>7, <2>8
    <2>10. \A d \in Ids : d # id \/ ~ok =>
            \/ d \in Off'
            \/ d \notin Off /\ AttachedAt(vhci, d)' = AttachedAt(vhci, d)
      BY <2>3, <2>4, <2>6, <2>9
    <2>11. v = id => AttachedAt(vhci, id)' = {}
      <3>1. v = id => \A q \in AttachedAt(vhci, id) : q = p
        BY <1>2, <2>1, <2>2, <2>3 DEF AttachedAt, Exclusive
      <3> QED BY <2>7, <3>1
    <2>12. id \notin Off => v = id /\ ~worker.act.attach
      BY <1>3, <1>4, <2>1, <2>8
    <2> QED BY <2>6, <2>10, <2>11, <2>12
  <1>5. CASE worker.at = "attach"
    <2>1. PICK p \in PortSet : vhci[p] = None /\ vhci' = [vhci EXCEPT ![p] = id]
      BY <1>5 DEF Effect
    <2>2. AttachedAt(vhci, id) = {} /\ AsShown(ok /\ worker.act.attach, id)
      BY <1>5 DEF Effect
    <2>3. PICK gone : gone = IF ok /\ worker.act.attach THEN {} ELSE {id}
      OBVIOUS
    <2>4. Unseen(gone)
      BY <2>2, <2>3 DEF AsShown
    <2>5. Off' = Off \cup (gone \cap Ids)
      BY <2>4, UnseenOK
    <2>6. /\ AttachedAt(vhci, id)' = {p}
          /\ \A d \in Ids \ {id} : AttachedAt(vhci, d)' = AttachedAt(vhci, d)
      <3>1. /\ AttachedAt([vhci EXCEPT ![p] = id], id) = {p}
            /\ \A d \in Ids \ {id} : AttachedAt([vhci EXCEPT ![p] = id], d) = AttachedAt(vhci, d)
        <4>1. AttachedAt([vhci EXCEPT ![p] = id], id) = {p}
          BY <1>2, <2>1, <2>2, PortTaken
        <4>2. ASSUME NEW d \in Ids \ {id}
              PROVE  AttachedAt([vhci EXCEPT ![p] = id], d) = AttachedAt(vhci, d)
          BY <1>2, <2>1, Names DEF AttachedAt, Vhci
        <4> QED BY <4>1, <4>2
      <3> QED BY <2>1, <3>1 DEF AttachedAt
    <2>7. id \notin Off => worker.act.attach
      BY <1>3, <1>5
    <2> QED BY <1>5, <2>2, <2>3, <2>5, <2>6, <2>7
  <1> QED BY <1>4, <1>5 DEF Effect

LEMMA TruthWorkDone == ASSUME Typed, Rows, Solo' = Solo, Matches, Mutex, Truth, WorkDone PROVE Truth'
  <1>1. /\ worker # Idle /\ worker' = Idle
        /\ UNCHANGED <<pc, items, sticky, itemsq, loader, actq>>
        /\ \A x \in Action : Queued(x)' => Queued(x)
    BY DEF WorkDone, shown, Queued
  <1>2. PICK act \in Action, id \in Ids : act = worker.act /\ id = worker.act.item.id
    BY <1>1, Kinds DEF Typed, Threads
  <1>3. PICK yes : yes = [act |-> act, ok |-> TRUE]
    OBVIOUS
  <1>4. PICK no : no = [act |-> act, ok |-> FALSE]
    OBVIOUS
  <1>5. /\ yes \in Report /\ yes.ok /\ yes.act = act
        /\ no \in Report /\ ~no.ok
    BY <1>3, <1>4 DEF Report
  <1>6. CASE Effect(FALSE) /\ Result(act, FALSE)
    <2>1. doneq' = Append(doneq, no)
      BY <1>4, <1>6 DEF Result
    <2>2. \A d \in Ids : \/ d \in Off'
                         \/ d \notin Off /\ AttachedAt(vhci, d)' = AttachedAt(vhci, d)
      BY <1>1, <1>2, <1>6, Effects
    <2> QED BY <1>1, <1>5, <2>1, <2>2, TruthUntold
  <1>7. CASE UNCHANGED <<vhci, surprise>> /\ Result(act, FALSE)
    <2>1. doneq' = Append(doneq, no)
      BY <1>4, <1>7 DEF Result
    <2>2. \A d \in Ids : \/ d \in Off'
                         \/ d \notin Off /\ AttachedAt(vhci, d)' = AttachedAt(vhci, d)
      BY <1>7 DEF AttachedAt, Off
    <2> QED BY <1>1, <1>5, <2>1, <2>2, TruthUntold
  <1>8. CASE Effect(TRUE) /\ Result(act, TRUE)
    <2>1. \A x \in Report : Waiting(x)' <=> Waiting(x) \/ x = yes
      BY <1>3, <1>5, <1>8, Sends DEF Result
    <2>2. /\ \A d \in Ids : d # id => \/ d \in Off'
                                      \/ d \notin Off /\ AttachedAt(vhci, d)' = AttachedAt(vhci, d)
          /\ id \in Off' \/
               /\ id \notin Off
               /\ act.attach => /\ worker.at = "attach" /\ AttachedAt(vhci, id) = {}
                                 /\ AttachedAt(vhci, id)' # {}
               /\ ~act.attach => AttachedAt(vhci, id)' = {}
      BY <1>1, <1>2, <1>8, Effects
    <2>3. \A d \in Ids : d # id => Calm(d)
      <3>1. \A d \in Ids, attach \in BOOLEAN : Waits(d, attach) => Waits(d, attach)'
        BY <2>1 DEF Waits
      <3> QED BY <2>2, <3>1 DEF Calm
    <2>4. /\ \A x \in Action : Queued(x) => x.item.id # id
          /\ \A x \in Report : Waiting(x) => x.act.item.id # id
          /\ \A attach : ~Waits(id, attach)
      <3>1. id \in ToSet(AtWork)
        BY <1>1, <1>2, Places
      <3> QED BY <3>1, Places DEF Matches
    <2>5. Calm(id) \/ Turned(id)
      <3>1. Waits(id, act.attach)'
        BY <1>2, <1>5, <2>1 DEF Waits
      <3>2. CASE id \in Off'
        BY <3>2 DEF Calm
      <3>3. CASE id \notin Off'
        BY <1>1, <1>2, <2>2, <2>4, <3>1, <3>3, Kinds DEF Turned, Mutex
      <3> QED BY <3>2, <3>3
    <2>6. SeenTrue' /\ StuckHeld' /\ TakenTrue'
      <3>1. \A d \in Ids : Calm(d) \/ Turned(d)
        BY <2>3, <2>5
      <3> QED BY <1>1, <3>1, SeenStill
    <2>7. QueuedTrue'
      <3>1. \A x \in Action : Queued(x)' => Queued(x)
        BY <1>1
      <3> QED BY <2>3, <2>4, <3>1, ActionsStill, Kinds DEF Truth, QueuedTrue
    <2>8. TaskTrue'
      BY <1>1, Kinds DEF TaskTrue
    <2>9. CameTrue'
      <3>1. Came(yes)'
        BY <1>2, <1>5, <2>2 DEF Came
      <3> QED BY <2>1, <2>3, <2>4, <3>1, ActionsStill, Kinds DEF Truth, CameTrue
    <2> QED BY <2>6, <2>7, <2>8, <2>9 DEF Truth
  <1> QED BY <1>2, <1>6, <1>7, <1>8 DEF WorkDone

(* After the end of the process nobody reads what the last command did.    *)
LEMMA TruthStraggler == ASSUME Typed, Rows, Solo' = Solo, Truth, Straggler PROVE Truth'
  <1>1. /\ UNCHANGED <<pc, items, sticky, itemsq, actq, doneq>>
        /\ \A x \in Action : Queued(x)' => Queued(x)
    BY DEF Straggler, shown, queues, Queued
  <1>2. (loader' = loader \/ loader'.at # "load") /\ (worker' = worker \/ worker' = Idle)
    BY Kinds DEF Straggler
  <1>3. CASE UNCHANGED <<vhci, surprise>> \/ \E p : Freed(p)
    <2>1. \A id \in Ids : Calm(id)
      BY <1>1, <1>3, Excused
    <2> QED BY <1>1, <1>2, <2>1, TruthStill
  <1>4. CASE worker # Idle /\ Effect(FALSE)
    <2>1. PICK act \in Action, id \in Ids : act = worker.act /\ id = worker.act.item.id
      BY <1>4, Kinds DEF Typed, Threads
    <2>2. \A d \in Ids : \/ d \in Off'
                         \/ d \notin Off /\ AttachedAt(vhci, d)' = AttachedAt(vhci, d)
      BY <1>4, <2>1, Effects
    <2>3. \A id2 \in Ids : Calm(id2)
      <3>1. \A d \in Ids, attach \in BOOLEAN : Waits(d, attach) => Waits(d, attach)'
        BY <1>1 DEF Waits, Waiting
      <3> QED BY <2>2, <3>1 DEF Calm
    <2> QED BY <1>1, <1>2, <2>3, TruthStill
  <1> QED BY <1>3, <1>4 DEF Straggler

(* A result comes in.  Its row shows what the action has done, a row that  *)
(* was attached sticks, and what was listed before counts no more.         *)
LEMMA ToldOutcome ==
  ASSUME NEW old \in Row, NEW row \in Row, NEW attach \in BOOLEAN, row.id = old.id,
         row.label = optimistic_toggle_label(old.label, attach), Fits(old),
         \A a \in BOOLEAN : Waits(old.id, a) => a = attach,
         old.id \notin Off, attach <=> AttachedAt(vhci, old.id) # {}
  PROVE  Tells(row) /\ row.label # "locked" /\ (attach => row.label # "free")
  <1>1. old.label \in Labels /\ old.label # "locked"
    BY DEF Row, Fits
  <1>2. CASE attach
    <2>1. old.label # "free" => Tells(old)
      BY <1>2 DEF Fits
    <2>2. row.label = IF old.label = "free" THEN "on" ELSE old.label
      BY <1>2 DEF optimistic_toggle_label
    <2> QED BY <1>1, <1>2, <2>1, <2>2, Names DEF Tells
  <1>3. CASE ~attach
    <2>1. row.label = "free"
      BY <1>1, <1>3 DEF optimistic_toggle_label, Labels
    <2> QED BY <1>3, <2>1, Names DEF Tells
  <1> QED BY <1>2, <1>3

(* The first result goes, the others stay.                                 *)
LEMMA Drains ==
  ASSUME Typed, Matches, doneq # <<>>, doneq' = Tail(doneq), NEW r \in Report, r = Head(doneq)
  PROVE  /\ \A x \in Report : Waiting(x)' => Waiting(x)
         /\ \A x \in Report : Waiting(x) => x = r \/ (Waiting(x)' /\ x.act.item.id # r.act.item.id)
  <1>1. PICK n \in Nat : n = Len(doneq)
    BY DEF Typed, Channels
  <1>2. /\ r = doneq[1] /\ 1 \in 1..n /\ Len(doneq') = n - 1
        /\ \A i \in 1..Len(doneq') : doneq'[i] = doneq[i + 1] /\ i + 1 \in 1..n
    BY <1>1, Channel DEF Typed, Channels
  <1>3. \A x \in Report : Waiting(x)' => Waiting(x)
    BY <1>1, <1>2 DEF Waiting
  <1>4. \A x \in Report : Waiting(x) => x = r \/ (Waiting(x)' /\ x.act.item.id # r.act.item.id)
    <2> SUFFICES ASSUME NEW x \in Report, Waiting(x), x # r
                 PROVE  Waiting(x)' /\ x.act.item.id # r.act.item.id
      OBVIOUS
    <2>1. PICK i \in 1..n : doneq[i] = x /\ i # 1
      BY <1>1, <1>2 DEF Waiting
    <2>2. i - 1 \in 1..(n - 1) /\ (i - 1) + 1 = i
      BY <2>1
    <2>3. doneq'[i - 1] = doneq[(i - 1) + 1]
      BY <1>2, <2>2
    <2>4. doneq'[i - 1] = x
      BY <2>1, <2>2, <2>3
    <2>5. Waiting(x)'
      BY <1>2, <2>2, <2>4 DEF Waiting
    <2>6. x.act.item.id # r.act.item.id
      BY <1>1, <1>2, <2>1, OneReport
    <2> QED BY <2>5, <2>6
  <1> QED BY <1>3, <1>4


LEMMA TruthDrainResult == ASSUME Typed, Rows, Solo' = Solo, Matches, Truth, DrainResult PROVE Truth'
  <1>1. /\ doneq # <<>> /\ Head(doneq) \in Report /\ doneq' = Tail(doneq) /\ AskAgain
        /\ UNCHANGED <<actq, worker, vhci, surprise>>
        /\ IF Head(doneq).ok THEN Outcome(Head(doneq).act) ELSE UNCHANGED <<items, sticky>>
    BY DrainedResult DEF outside
  <1>2. PICK r \in Report : r = Head(doneq)
    BY <1>1
  <1>3. PICK id \in Ids : id = r.act.item.id
    BY Kinds
  <1>4. r.act \in Action /\ r.ok \in BOOLEAN /\ r.act.attach \in BOOLEAN
    BY Kinds
  <1>5. /\ \A x \in Report : Waiting(x)' => Waiting(x)
        /\ \A x \in Report : Waiting(x) => x = r \/ (Waiting(x)' /\ x.act.item.id # id)
    BY <1>1, <1>2, <1>3, Drains
  <1>6. /\ \A d \in Ids : d # id => Calm(d)
        /\ ~r.ok => \A d \in Ids : Calm(d)
    <2>1. \A d \in Ids : AttachedAt(vhci, d)' = AttachedAt(vhci, d)
      BY <1>1 DEF AttachedAt
    <2>2. \A d \in Ids, attach \in BOOLEAN : d # id \/ ~r.ok => (Waits(d, attach) => Waits(d, attach)')
      BY <1>3, <1>5 DEF Waits
    <2>3. Off' = Off
      BY <1>1 DEF Off
    <2> QED BY <2>1, <2>2, <2>3 DEF Calm
  <1>7. /\ \A attach \in BOOLEAN : Waits(id, attach) => attach = r.act.attach
        /\ r.ok /\ id \notin Off => (r.act.attach <=> AttachedAt(vhci, id) # {})
    <2>1. \A attach \in BOOLEAN : Waits(id, attach) => attach = r.act.attach
      BY <1>5 DEF Waits
    <2>2. Came(r)
      BY <1>1, <1>2, Sends DEF Truth, CameTrue
    <2> QED BY <1>3, <2>1, <2>2 DEF Came
  <1>8. \A row \in Row : Tells(row) => Tells(row)'
    BY <1>1 DEF Tells, AttachedAt
  <1>9. \A row \in Row : row.id \in Ids
    BY DEF Row
  <1>10. \A row \in Row : ~Coming(row)'
    BY AskAgainOK, <1>1 DEF Coming
  <1>11. TakenTrue'
    BY AskAgainOK, <1>1, Kinds DEF TakenTrue, Taken
  <1>12. QueuedTrue' /\ TaskTrue' /\ CameTrue'
    <2>1. \A x \in Action : (Queued(x)' => Queued(x)) /\ (Announces(x) => Announces(x)')
      BY <1>1 DEF Queued, Announces, Tells, AttachedAt, Off
    <2>2. \A x \in Task : Agrees(x) => Agrees(x)'
      BY <1>1 DEF Agrees, Announces, Tells, AttachedAt, Off
    <2>3. \A x \in Report : Came(x) => Came(x)'
      BY <1>1 DEF Came, AttachedAt, Off
    <2> QED BY <1>1, <1>5, <2>1, <2>2, <2>3 DEF Truth, QueuedTrue, TaskTrue, CameTrue
  <1>13. CASE ~r.ok
    <2>1. UNCHANGED <<items, sticky>> /\ \A d \in Ids : Calm(d)
      BY <1>1, <1>2, <1>6, <1>13
    <2>2. \A row \in Row : OnScreen(row)' = OnScreen(row) /\ Stuck(row)' = Stuck(row)
      BY <2>1 DEF OnScreen, Stuck
    <2> QED BY <1>9, <1>10, <1>11, <1>12, <2>1, <2>2, FitsStill DEF Truth, SeenTrue, StuckHeld
  <1>14. CASE r.ok
    <2>1. Outcome(r.act)
      BY <1>1, <1>2, <1>14
    <2>2. PICK act \in Action : act = r.act
      BY <1>4
    <2>3. /\ items' = Updated(act)
          /\ \A i \in 1..Len(sticky') :
               \/ \E j \in 1..Len(sticky) : sticky'[i] = sticky[j] /\ (act.attach \/ sticky[j].id # act.item.id)
               \/ act.attach /\ \E j \in 1..Len(items') : items'[j].id = act.item.id /\ sticky'[i] = items'[j]
          /\ items' \in Seq(Row)
      BY <2>1, <2>2, OutcomeOK
    <2>4. \A row \in Row : OnScreen(row)' =>
            /\ Fits(row)'
            /\ row.id = id /\ act.attach /\ id \in Solo => row.label # "free"
      <3> SUFFICES ASSUME NEW row \in Row, OnScreen(row)'
                   PROVE  /\ Fits(row)'
                          /\ row.id = id /\ act.attach /\ id \in Solo => row.label # "free"
        OBVIOUS
      <3>1. PICK i \in 1..Len(items') : items'[i] = row
        BY DEF OnScreen
      <3>2. /\ i \in 1..Len(items) /\ items[i] \in Row /\ row.id = items[i].id
            /\ items[i].id # act.item.id => row = items[i]
            /\ items[i].id = act.item.id /\ items[i].id \in Solo =>
                 row.label = optimistic_toggle_label(items[i].label, act.attach)
        BY <2>3, <3>1, UpdatedOK
      <3>3. PICK old \in Row : old = items[i]
        BY <3>2
      <3>4. Fits(old)
        BY <3>2, <3>3 DEF Truth, SeenTrue, OnScreen
      <3>5. CASE old.id # id
        <4>1. row = old /\ Calm(old.id)
          BY <1>3, <1>6, <1>9, <2>2, <3>2, <3>3, <3>5
        <4>2. Fits(old)'
          BY <3>4, <4>1, FitsStill
        <4> QED BY <3>2, <3>3, <3>5, <4>1, <4>2
      <3>6. CASE old.id = id
        <4>1. /\ row.id = old.id /\ act.attach \in BOOLEAN
              /\ id \in Solo => row.label = optimistic_toggle_label(old.label, act.attach)
          BY <1>3, <1>4, <2>2, <3>2, <3>3, <3>6
        <4>2. id \notin Off => Tells(row) /\ row.label # "locked"
          <5>1. id \notin Off => row.label = optimistic_toggle_label(old.label, act.attach)
            BY <4>1 DEF Off
          <5>2. \A attach \in BOOLEAN : Waits(id, attach) => attach = act.attach
            BY <1>7, <2>2
          <5>3. id \notin Off => (act.attach <=> AttachedAt(vhci, id) # {})
            BY <1>7, <1>14, <2>2
          <5> QED BY <3>4, <3>6, <4>1, <5>1, <5>2, <5>3, ToldOutcome
        <4>3. Fits(row)'
          <5>1. id \in Off => id \in Off'
            BY <1>1 DEF Off
          <5> QED BY <1>8, <3>6, <4>1, <4>2, <5>1 DEF Fits
        <4>4. act.attach /\ id \in Solo => row.label # "free"
          <5>1. id \in Solo => row.label = optimistic_toggle_label(old.label, act.attach)
            BY <4>1
          <5> QED BY <5>1, Names DEF optimistic_toggle_label
        <4> QED BY <4>3, <4>4
      <3> QED BY <3>5, <3>6
    <2>5. \A row \in Row : Stuck(row)' => Fits(row)' /\ (row.id \in Solo => row.label # "free")
      <3> SUFFICES ASSUME NEW row \in Row, Stuck(row)'
                   PROVE  Fits(row)' /\ (row.id \in Solo => row.label # "free")
        OBVIOUS
      <3>1. PICK i \in 1..Len(sticky') : sticky'[i] = row
        BY DEF Stuck
      <3>2. CASE Stuck(row) /\ (act.attach \/ row.id # id)
        <4>1. Fits(row) /\ (row.id \in Solo => row.label # "free")
          BY <3>2 DEF Truth, SeenTrue, StuckHeld
        <4>2. CASE row.id # id
          BY <1>6, <1>9, <4>1, <4>2, FitsStill
        <4>3. CASE row.id = id /\ act.attach
          <5>1. row.id \notin Off => row.id \in Solo
            BY <1>9 DEF Off
          <5>2. row.id \in Off \/ (Tells(row) /\ row.label # "locked")
            BY <1>7, <2>2, <4>1, <4>3, <5>1 DEF Fits
          <5>3. row.id \in Off => row.id \in Off'
            BY <1>1 DEF Off
          <5>4. Fits(row)'
            BY <1>8, <5>2, <5>3 DEF Fits
          <5> QED BY <4>1, <5>4
        <4> QED BY <3>2, <4>2, <4>3
      <3>3. CASE act.attach /\ OnScreen(row)' /\ row.id = id
        BY <2>4, <3>3
      <3>4. \/ Stuck(row) /\ (act.attach \/ row.id # id)
            \/ act.attach /\ OnScreen(row)' /\ row.id = id
        BY <1>3, <2>2, <2>3, <3>1 DEF Stuck, OnScreen
      <3> QED BY <3>2, <3>3, <3>4
    <2> QED BY <1>10, <1>11, <1>12, <2>4, <2>5 DEF Truth, SeenTrue, StuckHeld
  <1> QED BY <1>4, <1>13, <1>14

(* A listing in which a device without a twin is right tells the truth.     *)
LEMMA RightTells ==
  ASSUME NEW rows \in Seq(Row), Uniq(Solo, rows), NEW i \in 1..Len(rows), vhci \in Vhci,
         rows[i].id \in Solo, Right(rows, rows[i].id)
  PROVE  Tells(rows[i]) /\ rows[i].label # "locked"
  <1>1. PICK row \in Row : row = rows[i]
    OBVIOUS
  <1>2. row.id \in Ids
    BY DEF Row
  <1>3. RowOf(rows, row.id) = <<row>>
    BY <1>1, RowOfUniq
  <1>4. <<row>> # <<>> /\ \A x : <<row>> = <<x>> => row = x
    OBVIOUS
  <1>5. row = [id |-> row.id, label |-> Label(vhci, {}, row.id)]
    BY <1>1, <1>3, <1>4 DEF Right
  <1>6. Shows(row, vhci, {})
    BY <1>2, <1>5, LabelOK
  <1>7. /\ IF AttachedAt(vhci, row.id) # {} THEN row.label \in AttachedAt(vhci, row.id)
           ELSE row.label = "free"
        /\ AttachedAt(vhci, row.id) \subseteq PortSet
    BY <1>1, <1>6 DEF Shows, AttachedAt
  <1>8. Tells(row) /\ row.label # "locked"
    BY <1>7, Names DEF Tells
  <1> QED BY <1>1, <1>8

(* A listing comes in: its rows are true if it counts, and a device is no   *)
(* longer exempt if the screen shows it as it is.                           *)
LEMMA TruthDrainListing == ASSUME Typed, Rows, Solo' = Solo, Spin, Truth, DrainListing PROVE Truth'
  <1>1. /\ pc # "left" /\ surprise' \subseteq surprise
        /\ UNCHANGED <<vhci, actq, doneq, worker, loader>>
    BY DEF DrainListing
  <1>2. PICK l \in Answer : /\ l = Head(itemsq) /\ l = itemsq[1] /\ 1 \in 1..Len(itemsq)
                            /\ l.rows \in Seq(Row) /\ Uniq(Solo, l.rows)
    BY DrainedListing
  <1>3. \A d \in Ids : d \notin Off \/ d \in Off' => Calm(d)
    <2>1. \A d \in Ids : AttachedAt(vhci, d)' = AttachedAt(vhci, d)
      BY <1>1 DEF AttachedAt
    <2>2. \A d \in Ids, attach \in BOOLEAN : Waits(d, attach) => Waits(d, attach)'
      BY <1>1 DEF Waits, Waiting
    <2> QED BY <1>1, <2>1, <2>2 DEF Calm, Off
  <1>4. \A d \in Off \ Off' :
          /\ d \in Solo /\ l.current /\ l.ok /\ itemsq' = <<>> /\ loader = Idle
          /\ d \notin ToSet(processing) /\ Right(items', d)
    <2> SUFFICES ASSUME NEW d \in Off \ Off'
                 PROVE  /\ d \in Solo /\ l.current /\ l.ok /\ itemsq' = <<>> /\ loader = Idle
                        /\ d \notin ToSet(processing) /\ Right(items', d)
      OBVIOUS
    <2>1. d \in surprise /\ d \notin surprise' /\ d \in Solo
      BY DEF Off, Typed, World
    <2>2. /\ l.current /\ l.ok /\ itemsq' = <<>> /\ loader = Idle
          /\ surprise' = {id \in surprise : id \in ToSet(processing) \/ ~Right(items', id)}
      BY <1>2, <2>1 DEF DrainListing
    <2> QED BY <2>1, <2>2
  <1>5. \A row \in Row : row.id \in Ids
    BY DEF Row
  <1>6. \A row \in Row : Coming(row)' => Coming(row) /\ Calm(row.id)
    <2> SUFFICES ASSUME NEW row \in Row, Coming(row)' PROVE Coming(row) /\ Calm(row.id)
      OBVIOUS
    <2>1. PICK i \in 1..Len(itemsq') :
            itemsq'[i].current /\ \E j \in 1..Len(itemsq'[i].rows) : itemsq'[i].rows[j] = row
      BY DEF Coming
    <2>2. itemsq'[i] = itemsq[i + 1] /\ i + 1 \in 1..Len(itemsq) /\ itemsq' # <<>>
      BY <2>1, DrainedListing
    <2>3. Coming(row)
      BY <2>1, <2>2 DEF Coming
    <2> QED BY <1>3, <1>4, <1>5, <2>2, <2>3
  <1>7. /\ \A row \in Row : OnScreen(row)' => \/ OnScreen(row) \/ Stuck(row) \/ Coming(row)
        /\ \A row \in Row : Stuck(row)' => Stuck(row)
        /\ l.current /\ l.ok => \A row \in Row : Stuck(row)' => OnScreen(row)'
    <2>1. CASE l.current /\ l.ok
      <3>1. /\ items' = Merged(l.rows)
            /\ sticky' = Without(sticky, Listed(merge_retained_items(items, l.rows, processing)))
        BY <1>2, <2>1 DEF DrainListing
      <3>2. PICK rows \in Seq(Row) : rows = l.rows /\ Uniq(Solo, rows)
        BY <1>2
      <3>3. PICK s : s = Without(sticky, Listed(merge_retained_items(items, rows, processing)))
        OBVIOUS
      <3>4. PICK all : all = Merged(rows)
        OBVIOUS
      <3>5. MergedFrom(all, s, rows)
        BY <3>2, <3>3, <3>4, MergedOK
      <3>6. items' = all /\ sticky' = s
        BY <3>1, <3>2, <3>3, <3>4
      <3>7. \A row : (\E j \in 1..Len(rows) : rows[j] = row) => Coming(row)
        BY <1>2, <2>1, <3>2 DEF Coming
      <3>8. ASSUME NEW row \in Row, OnScreen(row)' PROVE OnScreen(row) \/ Stuck(row) \/ Coming(row)
        <4>1. PICK i \in 1..Len(all) : all[i] = row
          BY <3>6, <3>8 DEF OnScreen
        <4> QED BY <3>5, <3>7, <4>1 DEF MergedFrom, OnScreen, Stuck
      <3>9. ASSUME NEW row \in Row, Stuck(row)' PROVE Stuck(row) /\ OnScreen(row)'
        <4>1. PICK i \in 1..Len(s) : s[i] = row
          BY <3>6, <3>9 DEF Stuck
        <4>2. PICK j \in 1..Len(all) : all[j] = row
          BY <3>5, <4>1 DEF MergedFrom
        <4>3. PICK k \in 1..Len(sticky) : sticky[k] = row
          BY <3>5, <4>1 DEF MergedFrom
        <4> QED BY <3>6, <4>2, <4>3 DEF OnScreen, Stuck
      <3> QED BY <3>8, <3>9
    <2>2. CASE ~(l.current /\ l.ok)
      <3>1. UNCHANGED <<items, sticky>>
        BY <1>2, <2>2 DEF DrainListing
      <3> QED BY <2>2, <3>1 DEF OnScreen, Stuck
    <2> QED BY <2>1, <2>2
  <1>8. \A row \in Row : OnScreen(row)' \/ Stuck(row)' => Fits(row)'
    <2> SUFFICES ASSUME NEW row \in Row, OnScreen(row)' \/ Stuck(row)' PROVE Fits(row)'
      OBVIOUS
    <2>1. CASE row.id \notin Off \/ row.id \in Off'
      <3>1. Fits(row)
        BY <1>7 DEF Truth, SeenTrue
      <3> QED BY <1>3, <1>5, <2>1, <3>1, FitsStill
    <2>2. CASE row.id \in Off \ Off'
      <3>1. l.current /\ l.ok /\ row.id \in Solo /\ Right(items', row.id) /\ OnScreen(row)'
        BY <1>4, <1>7, <2>2
      <3>2. items' = Merged(l.rows)
        BY <1>2, <3>1 DEF DrainListing
      <3>3. PICK rows \in Seq(Row) : rows = items' /\ Uniq(Solo, rows)
        BY <1>2, <3>2, MergedOK
      <3>4. PICK i \in 1..Len(rows) : rows[i] = row
        BY <3>1, <3>3 DEF OnScreen
      <3>5. Tells(row) /\ row.label # "locked"
        BY <3>1, <3>3, <3>4, RightTells DEF Typed, World
      <3>6. Tells(row)'
        BY <1>1, <3>5 DEF Tells, AttachedAt
      <3> QED BY <3>5, <3>6 DEF Fits
    <2> QED BY <2>1, <2>2
  <1>9. SeenTrue' /\ StuckHeld'
    BY <1>6, <1>7, <1>8, FitsStill DEF Truth, SeenTrue, StuckHeld
  <1>10. TakenTrue'
    <2>1. ASSUME NEW ports \in Vhci, NEW id \in Ids, Taken(ports)' PROVE FitsPorts(ports, id)'
      <3>1. Taken(ports) /\ loader # Idle
        BY <1>1, <2>1, Kinds DEF Taken
      <3>2. Calm(id)
        BY <1>3, <1>4, <3>1
      <3> QED BY <3>1, <3>2, FitsPortsStill DEF Truth, TakenTrue
    <2> QED BY <2>1 DEF TakenTrue
  <1>11. \A d \in ToSet(Asked) \cup ToSet(AtWork) \cup ToSet(Reported) : d \in Ids => Calm(d)
    BY <1>1, <1>3, <1>4 DEF Spin, Matches, Under
  <1>12. QueuedTrue'
    <2>1. \A x \in Action : Queued(x)' => Queued(x) /\ Calm(x.item.id)
      BY <1>1, <1>11, Places, Kinds DEF Queued
    <2> QED BY <2>1, ActionsStill DEF Truth, QueuedTrue
  <1>13. TaskTrue'
    <2>1. \A x \in Task : worker = x => Calm(x.act.item.id)
      BY <1>11, Places, Kinds
    <2> QED BY <1>1, <2>1, ActionsStill DEF Truth, TaskTrue
  <1>14. CameTrue'
    <2>1. \A x \in Report : Waiting(x)' => Waiting(x) /\ Calm(x.act.item.id)
      <3>1. \A x \in Report : Waiting(x)' => Waiting(x)
        BY <1>1 DEF Waiting
      <3> QED BY <1>11, <3>1, Places, Kinds
    <2> QED BY <2>1, ActionsStill DEF Truth, CameTrue
  <1> QED BY <1>9, <1>10, <1>12, <1>13, <1>14 DEF Truth

LEMMA TruthNext == Typed /\ Rows /\ Spin /\ Mutex /\ Truth /\ [Next]_vars => Truth'
  <1> SUFFICES ASSUME Typed, Rows, Spin, Mutex, Truth, [Next]_vars PROVE Truth'
    OBVIOUS
  <1>1. Solo' = Solo
    BY SoloStays
  <1>2. CASE \/ ListingsDrained \/ Tick \/ TimerRefresh \/ Cursor \/ Cancel \/ ExitRecover
             \/ ExitRecovered \/ ExitDetach \/ (ExitDone /\ ~Leaves) \/ Replug \/ Drop \/ UNCHANGED vars
    BY <1>1, <1>2, TruthQuiet
  <1>3. CASE Esc \/ (ExitDone /\ Leaves)
    <2>1. Leaves /\ UNCHANGED <<worker, vhci, surprise>>
      BY <1>3 DEF Esc, ExitDone, outside
    <2> QED BY <1>1, <2>1, TruthLeaves
  <1>4. CASE Load
    BY <1>1, <1>4, TruthLoads, TruthLoadEnd DEF Load
  <1>5. CASE WorkShown \/ WorkToggle \/ WorkRecover \/ WorkRecovered \/ WorkQuery \/ WorkRequeried
             \/ WorkClear
    BY <1>1, <1>5, TruthWorkShown, TruthWorkToggle, TruthWorkRecover, TruthWorkRecovered,
       TruthWorkQuery, TruthWorkClear
  <1>6. CASE Activate \/ DrainResult \/ WorkDone
    <2>1. Matches
      BY <1>6 DEF Spin, Activate, DrainResult, WorkDone
    <2> QED BY <1>1, <1>6, <2>1, TruthActivate, TruthDrainResult, TruthWorkDone
  <1>7. CASE DrainListing
    BY <1>1, <1>7, TruthDrainListing
  <1>8. CASE Straggler
    BY <1>1, <1>8, TruthStraggler
  <1> QED BY <1>2, <1>3, <1>4, <1>5, <1>6, <1>7, <1>8 DEF Next, Main, Load, Work, User

(* The worker does what the row announced when the key was pressed, however *)
(* rows, ports and listings changed on the way (activate closure,           *)
(* client.rs): an attach never detaches, not even what                      *)
(* auto_detach_matching_ports looks for, and a detach frees no port of      *)
(* another device.  Exempt are devices that changed behind the list's back  *)
(* or that a failing `usbip port` detached or hid, until a listing puts     *)
(* their row right, and devices with a twin of the same VID:PID.            *)
THEOREM AnnouncedDone == Spec => []DoesAsShown
  <1>1. Init => Truth
    BY InitTruth
  <1>2. Typed /\ Rows /\ Spin /\ Mutex /\ Truth /\ [Next]_vars => Truth'
    BY TruthNext
  <1>3. Typed /\ Truth => DoesAsShown
    <2> SUFFICES ASSUME Typed, Truth, NEW id, id = worker.act.item.id,
                        worker # Idle, id \notin surprise, NoTwin(id)
                 PROVE  /\ worker.at \in {"query", "attach"} => worker.act.attach
                        /\ worker.at = "detach" =>
                             ~worker.act.attach /\ \A p \in worker.ports : vhci[p] \in {None, id}
                        /\ worker.at # "clear"
      BY DEF DoesAsShown
    <2>1. worker \in Task /\ id \in Ids
      BY Kinds DEF Typed, Threads
    <2>2. id \notin Off
      BY <2>1 DEF Off, Solo
    <2>3. Agrees(worker)
      BY <2>1 DEF Truth, TaskTrue
    <2> QED BY <2>2, <2>3 DEF Agrees, AttachedAt
  <1> QED BY <1>1, <1>2, <1>3, TypedAlways, SpinAlways, MutexAlways, PTL DEF Spec
=============================================================================
