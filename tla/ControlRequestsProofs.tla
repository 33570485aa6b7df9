------------------------ MODULE ControlRequestsProofs ------------------------
(***************************************************************************)
(* Proofs about ControlRequests, for every set of host devices, names and   *)
(* requests.  Whatever is set, unset and given a number again, a number in  *)
(* a descriptor leads to the string of its field.  And every answer that    *)
(* waits to be written is one that the device gives, from which follows     *)
(* that it fits, that it is given at all, and that success means done.      *)
(***************************************************************************)
EXTENDS ControlRequests, ListsProofs, FiniteSetTheorems

(* What the constants are assumed to be.                                   *)
LEMMA NamesOK ==
  /\ None \notin Names /\ Fields \subseteq Names /\ NewNames \subseteq Names
  /\ Values \subseteq 0..255 /\ Hosts \subseteq Host /\ MaxChanges \in Nat
  BY RequestAssumption

(* A device is a record of these fields. *)
Shaped(d) ==
  d = [interfaces |-> d.interfaces, raw |-> d.raw, super |-> d.super,
       cp210x |-> d.cp210x, configuration_value |-> d.configuration_value,
       handler |-> d.handler, pool |-> d.pool, index |-> d.index]

(* TypeOK and StringsNamed for one device and one assignment of names, and  *)
(* what makes them inductive: no two fields share a number.                 *)
PoolTyped(d) ==
  /\ DOMAIN d.pool \subseteq StringIndexes
  /\ \A i \in DOMAIN d.pool : d.pool[i] \in Names
  /\ d.index \in [Fields -> 0..255]
Named(d, nm) ==
  \A f \in Fields :
    IF nm[f] = None THEN d.index[f] = 0
    ELSE d.index[f] \in DOMAIN d.pool /\ d.pool[d.index[f]] = nm[f]
Distinct(d) ==
  \A f, g \in Fields : f # g /\ d.index[f] = d.index[g] => d.index[f] = 0
StringsOK(d, nm) ==
  /\ Shaped(d) /\ PoolTyped(d) /\ nm \in [Fields -> Names \cup {None}]
  /\ Named(d, nm) /\ Distinct(d)

(* new_string returns a number that is free.                               *)
LEMMA NewStringFree ==
  ASSUME NEW pool, Free(pool) # {}
  PROVE  new_string(pool) \in Free(pool)
  <1>1. Free(pool) \subseteq Nat
    BY DEF Free, StringIndexes
  <1>2. PICK i \in Free(pool) : \A j \in Free(pool) : <<j, i>> \notin OpToRel(<, Nat)
    BY <1>1, NatLessThanWellFounded, WFMin
  <1>3. \A j \in Free(pool) : i <= j
    <2> TAKE j \in Free(pool)
    <2>1. i \in Nat /\ j \in Nat
      BY <1>1
    <2>2. ~(j < i)
      BY <1>2, <2>1 DEF OpToRel
    <2> QED BY <2>1, <2>2
  <1> QED BY <1>3 DEF new_string

(* A field without a number is given a string.                             *)
LEMMA RenamedOK ==
  ASSUME NEW d, NEW nm, StringsOK(d, nm), NEW f \in Fields, d.index[f] = 0,
         NEW name \in Names, Free(d.pool) # {}
  PROVE  /\ StringsOK(Renamed(d, f, name), [nm EXCEPT ![f] = name])
         /\ DOMAIN Renamed(d, f, name).pool = DOMAIN d.pool \cup {new_string(d.pool)}
         /\ \A g \in Fields : g # f => Renamed(d, f, name).index[g] = d.index[g]
  <1> DEFINE i == new_string(d.pool)
             r == Renamed(d, f, name)
  <1>1. i \in 1..255 /\ i \notin DOMAIN d.pool
    BY NewStringFree DEF Free, StringIndexes
  <1>2. /\ r.pool = With(d.pool, i, name)
        /\ r.index = [d.index EXCEPT ![f] = i]
        /\ Shaped(r)
    <2> HIDE DEF i
    <2>1. Shaped(d)
      BY DEF StringsOK
    <2>2. r = [d EXCEPT !.pool = With(@, i, name), !.index[f] = i]
      BY DEF Renamed, i
    <2>3. r = [interfaces |-> d.interfaces, raw |-> d.raw, super |-> d.super,
               cp210x |-> d.cp210x, configuration_value |-> d.configuration_value,
               handler |-> d.handler, pool |-> With(d.pool, i, name),
               index |-> [d.index EXCEPT ![f] = i]]
      BY <2>1, <2>2 DEF Shaped
    <2> QED BY <2>3 DEF Shaped
  <1> HIDE DEF i, r
  <1>3. /\ DOMAIN r.pool = DOMAIN d.pool \cup {i}
        /\ r.pool[i] = name
        /\ \A j \in DOMAIN d.pool : r.pool[j] = d.pool[j]
    <2>1. /\ DOMAIN With(d.pool, i, name) = DOMAIN d.pool \cup {i}
          /\ With(d.pool, i, name)[i] = name
          /\ \A j \in DOMAIN d.pool : j # i => With(d.pool, i, name)[j] = d.pool[j]
      BY DEF With
    <2>2. r.pool = With(d.pool, i, name)
      BY <1>2
    <2> QED BY <1>1, <2>1, <2>2
  <1>4. d.index \in [Fields -> 0..255] /\ nm \in [Fields -> Names \cup {None}]
    BY DEF StringsOK, PoolTyped
  <1>5. \A g \in Fields : r.index[g] = IF g = f THEN i ELSE d.index[g]
    BY <1>2, <1>4
  <1>6. PoolTyped(r)
    BY <1>1, <1>2, <1>3, <1>4 DEF StringsOK, PoolTyped, StringIndexes
  <1>7. Named(r, [nm EXCEPT ![f] = name])
    <2> SUFFICES ASSUME NEW g \in Fields
                 PROVE  IF [nm EXCEPT ![f] = name][g] = None THEN r.index[g] = 0
                        ELSE /\ r.index[g] \in DOMAIN r.pool
                             /\ r.pool[r.index[g]] = [nm EXCEPT ![f] = name][g]
      BY DEF Named
    <2>1. CASE g = f
      <3>1. name # None
        BY NamesOK
      <3>2. [nm EXCEPT ![f] = name][g] = name /\ r.index[g] = i
        BY <1>4, <1>5, <2>1
      <3> QED BY <1>3, <3>1, <3>2
    <2>2. CASE g # f
      <3>1. [nm EXCEPT ![f] = name][g] = nm[g] /\ r.index[g] = d.index[g]
        BY <1>4, <1>5, <2>2
      <3>2. IF nm[g] = None THEN d.index[g] = 0
            ELSE d.index[g] \in DOMAIN d.pool /\ d.pool[d.index[g]] = nm[g]
        BY DEF StringsOK, Named
      <3> QED BY <1>3, <3>1, <3>2
    <2> QED BY <2>1, <2>2
  <1>8. Distinct(r)
    <2> SUFFICES ASSUME NEW g \in Fields, NEW h \in Fields, g # h, r.index[g] = r.index[h]
                 PROVE  r.index[g] = 0
      BY DEF Distinct
    <2>1. \A k \in Fields : d.index[k] # 0 => d.index[k] \in DOMAIN d.pool
      BY DEF StringsOK, Named
    <2>2. CASE g # f /\ h # f
      BY <1>5, <2>2 DEF StringsOK, Distinct
    <2>3. CASE g = f \/ h = f
      BY <1>1, <1>5, <2>1, <2>3
    <2> QED BY <2>2, <2>3
  <1>9. [nm EXCEPT ![f] = name] \in [Fields -> Names \cup {None}]
    BY <1>4
  <1> QED BY <1>2, <1>3, <1>5, <1>6, <1>7, <1>8, <1>9 DEF StringsOK, i, r

(* A field gives up its number.                                            *)
LEMMA UnnamedOK ==
  ASSUME NEW d, NEW nm, StringsOK(d, nm), NEW f \in Fields
  PROVE  /\ StringsOK(Unnamed(d, f), [nm EXCEPT ![f] = None])
         /\ Unnamed(d, f).index[f] = 0
  <1> DEFINE u == Unnamed(d, f)
             pool == IF d.index[f] # 0 THEN Drop(d.pool, d.index[f]) ELSE d.pool
  <1>1. /\ u.pool = pool
        /\ u.index = [d.index EXCEPT ![f] = 0]
        /\ Shaped(u)
    <2>1. Shaped(d)
      BY DEF StringsOK
    <2>2. u = [d EXCEPT !.pool = pool, !.index[f] = 0]
      BY DEF Unnamed
    <2> HIDE DEF pool, u
    <2>3. u = [interfaces |-> d.interfaces, raw |-> d.raw, super |-> d.super,
               cp210x |-> d.cp210x, configuration_value |-> d.configuration_value,
               handler |-> d.handler, pool |-> pool,
               index |-> [d.index EXCEPT ![f] = 0]]
      BY <2>1, <2>2 DEF Shaped
    <2> QED BY <2>3 DEF Shaped
  <1> HIDE DEF u
  <1>2. d.index \in [Fields -> 0..255] /\ nm \in [Fields -> Names \cup {None}]
    BY DEF StringsOK, PoolTyped
  <1>3. \A g \in Fields : u.index[g] = IF g = f THEN 0 ELSE d.index[g]
    BY <1>1, <1>2
  <1>4. /\ DOMAIN u.pool \subseteq DOMAIN d.pool
        /\ \A j \in DOMAIN u.pool : u.pool[j] = d.pool[j]
        /\ \A j \in DOMAIN d.pool : j # d.index[f] => j \in DOMAIN u.pool
    <2>1. CASE d.index[f] = 0
      BY <1>1, <2>1
    <2>2. CASE d.index[f] # 0
      <3>1. u.pool = Drop(d.pool, d.index[f])
        BY <1>1, <2>2
      <3> QED BY <3>1 DEF Drop
    <2> QED BY <2>1, <2>2
  <1>5. PoolTyped(u)
    BY <1>1, <1>2, <1>4 DEF StringsOK, PoolTyped
  <1>6. Named(u, [nm EXCEPT ![f] = None])
    <2> SUFFICES ASSUME NEW g \in Fields, g # f, nm[g] # None
                 PROVE  u.index[g] \in DOMAIN u.pool /\ u.pool[u.index[g]] = nm[g]
      BY <1>2, <1>3 DEF Named, StringsOK
    <2>1. d.index[g] \in DOMAIN d.pool /\ d.pool[d.index[g]] = nm[g]
      BY DEF StringsOK, Named
    <2>2. d.index[g] # 0
      BY <2>1 DEF StringsOK, PoolTyped, StringIndexes
    <2>3. d.index[g] # d.index[f]
      BY <2>2 DEF StringsOK, Distinct
    <2> QED BY <1>3, <1>4, <2>1, <2>3
  <1>7. Distinct(u)
    BY <1>3 DEF StringsOK, Distinct
  <1>8. [nm EXCEPT ![f] = None] \in [Fields -> Names \cup {None}]
    BY <1>2
  <1> QED BY <1>1, <1>3, <1>5, <1>6, <1>7, <1>8 DEF StringsOK, u

(* A field is given the string of its own name if S has it.                *)
LEMMA KnownOK ==
  ASSUME NEW S, NEW d, NEW nm, StringsOK(d, nm), NEW f \in Fields, d.index[f] = 0,
         Free(d.pool) # {}
  PROVE  LET k == IF f \in S THEN Renamed(d, f, f) ELSE d IN
         /\ StringsOK(k, [nm EXCEPT ![f] = IF f \in S THEN f ELSE None])
         /\ \A g \in Fields : g # f => k.index[g] = d.index[g]
         /\ \E x : DOMAIN k.pool \subseteq DOMAIN d.pool \cup {x}
  <1>1. CASE f \in S
    <2>1. f \in Names
      BY NamesOK
    <2> QED BY <1>1, <2>1, RenamedOK
  <1>2. CASE f \notin S
    <2>1. nm \in [Fields -> Names \cup {None}]
      BY DEF StringsOK
    <2>2. nm[f] = None
      BY DEF StringsOK, Named, PoolTyped, StringIndexes
    <2>3. [nm EXCEPT ![f] = None] = nm
      BY <2>1, <2>2
    <2> QED BY <1>2, <2>3
  <1> QED BY <1>1, <1>2

(* A pool that starts empty has room for the strings of four fields.       *)
LEMMA RoomForFour ==
  ASSUME NEW pool, NEW a, NEW b, NEW c, DOMAIN pool \subseteq {a, b, c}
  PROVE  Free(pool) # {}
  BY DEF Free, StringIndexes

(* A device without strings.                                               *)
LEMMA BareOK ==
  ASSUME NEW d, Shaped(d), d.pool = NoStrings, d.index = [f \in Fields |-> 0]
  PROVE  StringsOK(d, [f \in Fields |-> None]) /\ DOMAIN d.pool = {}
  BY DEF StringsOK, PoolTyped, Named, Distinct, NoStrings

Strings(S) == [f \in Fields |-> IF f \in S THEN f ELSE None]

(* Four fields, one after the other, get a string if S has them.           *)
LEMMA GivenOK ==
  ASSUME NEW S, NEW d, Shaped(d), d.pool = NoStrings, d.index = [f \in Fields |-> 0]
  PROVE  LET Known(e, f) == IF f \in S THEN Renamed(e, f, f) ELSE e IN
         StringsOK(Known(Known(Known(Known(d, "configuration"), "manufacturer"),
                               "product"), "serial"), Strings(S))
  <1> DEFINE Known(e, f) == IF f \in S THEN Renamed(e, f, f) ELSE e
             N(nm, f) == [nm EXCEPT ![f] = IF f \in S THEN f ELSE None]
             d1 == Known(d, "configuration")
             d2 == Known(d1, "manufacturer")
             d3 == Known(d2, "product")
             d4 == Known(d3, "serial")
             n0 == [f \in Fields |-> None]
             n1 == N(n0, "configuration")
             n2 == N(n1, "manufacturer")
             n3 == N(n2, "product")
             n4 == N(n3, "serial")
  <1>1. Fields = {"configuration", "manufacturer", "product", "serial"}
    BY DEF Fields
  <1>2. /\ StringsOK(d, n0) /\ DOMAIN d.pool = {}
        /\ \A f \in Fields : d.index[f] = 0
    BY BareOK
  <1>3. /\ StringsOK(d1, n1)
        /\ \A g \in Fields : g # "configuration" => d1.index[g] = 0
        /\ \E x : DOMAIN d1.pool \subseteq {x}
    <2>1. Free(d.pool) # {}
      BY <1>2, RoomForFour
    <2> QED BY <1>1, <1>2, <2>1, KnownOK
  <1> HIDE DEF d1, n1
  <1>4. PICK a : DOMAIN d1.pool \subseteq {a}
    BY <1>3
  <1>5. /\ StringsOK(d2, n2)
        /\ d2.index["product"] = 0 /\ d2.index["serial"] = 0
        /\ \E x : DOMAIN d2.pool \subseteq {a, x}
    <2>1. Free(d1.pool) # {}
      BY <1>4, RoomForFour
    <2>2. "manufacturer" \in Fields /\ d1.index["manufacturer"] = 0 /\ StringsOK(d1, n1)
      BY <1>1, <1>3
    <2>3. /\ StringsOK(d2, n2)
          /\ \A g \in Fields : g # "manufacturer" => d2.index[g] = d1.index[g]
          /\ \E x : DOMAIN d2.pool \subseteq DOMAIN d1.pool \cup {x}
      BY <2>1, <2>2, KnownOK
    <2>4. PICK x : DOMAIN d2.pool \subseteq DOMAIN d1.pool \cup {x}
      BY <2>3
    <2>5. DOMAIN d2.pool \subseteq {a, x}
      BY <1>4, <2>4
    <2> QED BY <1>1, <1>3, <2>3, <2>5
  <1> HIDE DEF d2, n2
  <1>6. PICK b : DOMAIN d2.pool \subseteq {a, b}
    BY <1>5
  <1>7. /\ StringsOK(d3, n3)
        /\ d3.index["serial"] = 0
        /\ \E x : DOMAIN d3.pool \subseteq {a, b, x}
    <2>1. Free(d2.pool) # {}
      BY <1>6, RoomForFour, ZenonT(30)
    <2>2. "product" \in Fields /\ d2.index["product"] = 0 /\ StringsOK(d2, n2)
      BY <1>1, <1>5
    <2>3. /\ StringsOK(d3, n3)
          /\ \A g \in Fields : g # "product" => d3.index[g] = d2.index[g]
          /\ \E x : DOMAIN d3.pool \subseteq DOMAIN d2.pool \cup {x}
      BY <2>1, <2>2, KnownOK
    <2>4. PICK x : DOMAIN d3.pool \subseteq DOMAIN d2.pool \cup {x}
      BY <2>3
    <2>5. DOMAIN d3.pool \subseteq {a, b, x}
      BY <1>6, <2>4
    <2> QED BY <1>1, <1>5, <2>3, <2>5
  <1> HIDE DEF d3, n3
  <1>8. PICK c : DOMAIN d3.pool \subseteq {a, b, c}
    BY <1>7
  <1>9. StringsOK(d4, n4)
    <2>1. Free(d3.pool) # {}
      BY <1>8, RoomForFour
    <2> QED BY <1>1, <1>7, <2>1, KnownOK
  <1>10. n4 = Strings(S)
    BY <1>1 DEF n1, n2, n3, Strings
  <1> QED BY <1>9, <1>10 DEF d1, d2, d3

(* What TypeOK says beside the strings.                                    *)
RestOK ==
  /\ phase \in {"off", "build", "serve", "dead"} /\ host \in Hosts \cup {None}
  /\ config \in 0..255 /\ changes \in 0..MaxChanges
  /\ phase = "dead" <=> Answered("panic")

(* The invariant: strings keep their fields, and the rest has its type.    *)
IInv == StringsOK(device, names) /\ RestOK

(* The invariant says what the two properties say.                         *)
LEMMA IInvImplies == IInv => TypeOK /\ StringsNamed
  BY DEF IInv, StringsOK, PoolTyped, Named, RestOK, TypeOK, StringsNamed

(* UsbDevice::new.                                                         *)
LEMMA DefaultOK == StringsOK(Default, [f \in Fields |-> f])
  <1> DEFINE bare == [interfaces |-> <<>>, raw |-> <<>>, super |-> FALSE,
                      cp210x |-> FALSE, configuration_value |-> 1, handler |-> FALSE,
                      pool |-> NoStrings, index |-> [f \in Fields |-> 0]]
             Given(e, f) == IF f \in Fields THEN Renamed(e, f, f) ELSE e
             all == Given(Given(Given(Given(bare, "configuration"), "manufacturer"),
                                "product"), "serial")
  <1>1. StringsOK(all, Strings(Fields))
    <2>1. Shaped(bare) /\ bare.pool = NoStrings /\ bare.index = [f \in Fields |-> 0]
      BY DEF Shaped
    <2> HIDE DEF bare
    <2> QED BY <2>1, GivenOK
  <1>2. Strings(Fields) = [f \in Fields |-> f]
    BY DEF Strings
  <1>3. all = Default
    BY DEF Default, Fields
  <1> QED BY <1>1, <1>2, <1>3

(* with_nusb_devices, whatever could be claimed and read.                  *)
LEMMA OpenedOK ==
  ASSUME NEW h \in Hosts, NEW claimed, NEW readable
  PROVE  StringsOK(Opened(h, claimed, readable), Strings(h.strings))
  <1> DEFINE bare ==
        [interfaces |-> Retain(h.interfaces, claimed),
         raw |-> IF readable THEN extract_configuration_descriptors(h.descriptors)
                 ELSE <<>>,
         super |-> h.super, cp210x |-> h.cp210x,
         configuration_value |-> h.configuration, handler |-> TRUE,
         pool |-> NoStrings, index |-> [f \in Fields |-> 0]]
             Known(e, f) == IF f \in h.strings THEN Renamed(e, f, f) ELSE e
             all == Known(Known(Known(bare, "manufacturer"), "product"), "serial")
  <1>1. all = Opened(h, claimed, readable)
    BY DEF Opened
  <1>2. Known(bare, "configuration") = bare
    BY NamesOK DEF Host
  <1>3. Shaped(bare) /\ bare.pool = NoStrings /\ bare.index = [f \in Fields |-> 0]
    BY DEF Shaped
  <1> HIDE DEF bare
  <1>4. StringsOK(all, Strings(h.strings))
    BY <1>2, <1>3, GivenOK
  <1> QED BY <1>1, <1>4

(* The invariant holds of the device that is not opened yet.               *)
LEMMA InitOK == Init => IInv
  <1> SUFFICES ASSUME Init PROVE StringsOK(device, names) /\ RestOK
    BY DEF IInv
  <1>1. StringsOK(device, names)
    BY DefaultOK DEF Init
  <1>2. RestOK
    BY NamesOK DEF Init, RestOK, Answered
  <1> QED BY <1>1, <1>2

(* Requests and answers leave the strings alone; a panic is the one way to  *)
(* the phase "dead".                                                       *)
LEMMA ControlOK ==
  ASSUME IInv, NEW s \in Setups, Control(s)
  PROVE  IInv'
  <1>1. StringsOK(device, names)'
    BY DEF IInv, Control
  <1>2. PICK outcome :
          /\ reply' = <<[ask |-> s, outcome |-> outcome]>>
          /\ phase' = IF outcome.res = "panic" THEN "dead" ELSE "serve"
          /\ config' = IF s.request = "set_configuration" /\ outcome.did = "done"
                       THEN s.value ELSE config
    BY Zenon DEF Control
  <1>3. s.request = "set_configuration" => s.value \in 0..255
    BY NamesOK DEF Setups, Setup
  <1>4. RestOK'
    BY <1>2, <1>3 DEF IInv, RestOK, Answered, Control
  <1> QED BY <1>1, <1>4 DEF IInv

(* Nor do transfers change the strings.                                    *)
LEMMA TransferOK ==
  ASSUME IInv, NEW address, NEW room, Transfer(address, room)
  PROVE  IInv'
  <1>1. StringsOK(device, names)'
    BY DEF IInv, Transfer
  <1>2. PICK outcome, ask :
          /\ reply' = <<[ask |-> ask, outcome |-> outcome]>>
          /\ phase' = IF outcome.res = "panic" THEN "dead" ELSE "serve"
    BY Zenon DEF Transfer
  <1>3. RestOK'
    BY <1>2 DEF IInv, RestOK, Answered, Transfer
  <1> QED BY <1>1, <1>3 DEF IInv

(* with_interface takes a free number, so no field's string is disturbed.   *)
LEMMA InterfaceOK ==
  ASSUME NEW d, NEW nm, StringsOK(d, nm), NEW name \in Names, Free(d.pool) # {},
         NEW intf
  PROVE  StringsOK([d EXCEPT !.pool = With(@, new_string(d.pool), name),
                             !.interfaces = Append(@, intf)], nm)
  <1> DEFINE i == new_string(d.pool)
             r == [d EXCEPT !.pool = With(@, i, name), !.interfaces = Append(@, intf)]
  <1>1. i \in 1..255 /\ i \notin DOMAIN d.pool
    BY NewStringFree DEF Free, StringIndexes
  <1> HIDE DEF i
  <1>2. r = [interfaces |-> Append(d.interfaces, intf), raw |-> d.raw, super |-> d.super,
             cp210x |-> d.cp210x, configuration_value |-> d.configuration_value,
             handler |-> d.handler, pool |-> With(d.pool, i, name), index |-> d.index]
    <2>1. Shaped(d)
      BY DEF StringsOK
    <2> DEFINE p == With(d.pool, i, name)
               a == Append(d.interfaces, intf)
    <2>3. r = [d EXCEPT !.pool = p, !.interfaces = a]
      OBVIOUS
    <2> HIDE DEF p, a, r
    <2>4. r = [interfaces |-> a, raw |-> d.raw, super |-> d.super,
               cp210x |-> d.cp210x, configuration_value |-> d.configuration_value,
               handler |-> d.handler, pool |-> p, index |-> d.index]
      BY <2>1, <2>3 DEF Shaped
    <2> QED BY <2>4 DEF p, a
  <1> HIDE DEF r
  <1>3. /\ DOMAIN r.pool = DOMAIN d.pool \cup {i}
        /\ r.pool[i] = name
        /\ \A j \in DOMAIN d.pool : r.pool[j] = d.pool[j]
    <2>1. r.pool = With(d.pool, i, name)
      BY <1>2
    <2> QED BY <1>1, <2>1 DEF With
  <1>4. r.index = d.index /\ Shaped(r)
    BY <1>2 DEF Shaped
  <1>5. PoolTyped(r)
    BY <1>1, <1>3, <1>4 DEF StringsOK, PoolTyped, StringIndexes
  <1>6. Named(r, nm)
    BY <1>3, <1>4 DEF StringsOK, Named
  <1>7. Distinct(r)
    BY <1>4 DEF StringsOK, Distinct
  <1>8. StringsOK(r, nm)
    BY <1>4, <1>5, <1>6, <1>7 DEF StringsOK
  <1> QED BY <1>8 DEF r, i

(* Every step keeps the invariant.                                         *)
LEMMA NextOK == IInv /\ [Next]_vars => IInv'
  <1> SUFFICES ASSUME IInv, [Next]_vars PROVE IInv'
    OBVIOUS
  <1>0. StringsOK(device, names) /\ RestOK
    BY DEF IInv
  <1>1. ASSUME NEW h \in Hosts, Open(h) PROVE IInv'
    <2>1. names' = Strings(h.strings)
      BY <1>1 DEF Open, Strings
    <2>2. StringsOK(device, names)'
      BY <1>1, <2>1, OpenedOK DEF Open
    <2>3. h.configuration \in 0..255
      BY NamesOK DEF Host
    <2>4. RestOK'
      BY <1>0, <1>1, <2>3 DEF Open, RestOK, Answered
    <2> QED BY <2>2, <2>4 DEF IInv
  <1>2. CASE New
    <2>1. StringsOK(device, names)'
      BY <1>2, DefaultOK DEF New
    <2>2. RestOK'
      BY <1>0, <1>2 DEF New, RestOK, Answered
    <2> QED BY <2>1, <2>2 DEF IInv
  <1>3. CASE Export
    <2>1. StringsOK(device, names)'
      BY <1>0, <1>3 DEF Export
    <2>2. RestOK'
      BY <1>0, <1>3 DEF Export, RestOK, Answered
    <2> QED BY <2>1, <2>2 DEF IInv
  <1>4. CASE Respond
    <2>1. StringsOK(device, names)'
      BY <1>0, <1>4 DEF Respond
    <2>2. RestOK'
      BY <1>0, <1>4 DEF Respond, RestOK, Answered
    <2> QED BY <2>1, <2>2 DEF IInv
  <1>5. ASSUME Change PROVE RestOK'
    BY <1>0, <1>5, NamesOK DEF Change, RestOK, Answered
  <1>6. ASSUME NEW f \in Fields, NEW name \in NewNames, SetName(f, name) PROVE IInv'
    <2> DEFINE u == Unnamed(device, f)
               free == [names EXCEPT ![f] = None]
    <2>1. StringsOK(u, free) /\ u.index[f] = 0
      BY <1>0, UnnamedOK
    <2>2. Free(u.pool) # {} /\ name \in Names
      BY <1>6, NamesOK DEF SetName
    <2> HIDE DEF u, free
    <2>3. StringsOK(Renamed(u, f, name), [free EXCEPT ![f] = name])
      BY <2>1, <2>2, RenamedOK
    <2>4. [free EXCEPT ![f] = name] = [names EXCEPT ![f] = name]
      BY <1>0 DEF free, StringsOK
    <2>5. StringsOK(device, names)'
      BY <1>6, <2>3, <2>4 DEF SetName, u
    <2>6. RestOK'
      BY <1>5, <1>6 DEF SetName
    <2> QED BY <2>5, <2>6 DEF IInv
  <1>7. ASSUME NEW f \in Fields, UnsetName(f) PROVE IInv'
    <2>1. StringsOK(device, names)'
      BY <1>0, <1>7, UnnamedOK DEF UnsetName
    <2>2. RestOK'
      BY <1>5, <1>7 DEF UnsetName
    <2> QED BY <2>1, <2>2 DEF IInv
  <1>8. ASSUME NEW name \in NewNames, WithInterface(name) PROVE IInv'
    <2> DEFINE x == [number |-> Len(device.interfaces), bulk_only |-> FALSE,
                     endpoints |-> <<>>]
               d == [device EXCEPT !.pool = With(@, new_string(device.pool), name),
                                   !.interfaces = Append(@, x)]
    <2>1. Free(device.pool) # {} /\ device' = d /\ names' = names
      BY <1>8 DEF WithInterface
    <2> HIDE DEF x
    <2>2. StringsOK(d, names)
      BY <1>0, <2>1, NamesOK, InterfaceOK
    <2> HIDE DEF d
    <2>3. StringsOK(device, names)'
      BY <2>1, <2>2
    <2>4. RestOK'
      BY <1>5, <1>8 DEF WithInterface
    <2> QED BY <2>3, <2>4 DEF IInv
  <1>9. CASE UNCHANGED vars
    BY <1>9, <1>0 DEF IInv, vars, RestOK, Answered
  <1> QED
    BY <1>1, <1>2, <1>3, <1>4, <1>6, <1>7, <1>8, <1>9, ControlOK, TransferOK DEF Next

(* Type correctness.                                                       *)
THEOREM TypeCorrect == Spec => []TypeOK
  <1> QED BY InitOK, NextOK, IInvImplies, PTL DEF Spec

(* Whatever is set, unset and numbered again, and whichever strings a host  *)
(* device has: the number of a field leads to its string.                   *)
THEOREM StringsCorrect == Spec => []StringsNamed
  <1> QED BY InitOK, NextOK, IInvImplies, PTL DEF Spec

----------------------------------------------------------------------------
(* The body of a device: all of it but for its strings.                    *)

Interface == [number : Nat, bulk_only : BOOLEAN, endpoints : Seq(Endpoint)]

(* A configuration as it is cut out of a file: as long as it says.         *)
Raw == {r \in Seq(0..255) : Len(r) >= 4 /\ Len(r) = Announced(r)}

(* Where the walk over a file stops, and where it goes on.                 *)
Ends(file, o) ==
  \/ o + 2 > Len(file)
  \/ file[o + 1] < 2 \/ o + file[o + 1] > Len(file)
NextDescriptor(file, o) ==
  IF ConfigurationAt(file, o) > 0 THEN o + ConfigurationAt(file, o) ELSE o + file[o + 1]

(* Every configuration that is cut out is as long as it says.              *)
LEMMA CutOut ==
  ASSUME NEW file \in Seq(0..255), NEW o \in 0..Len(file), ~Ends(file, o)
  PROVE  /\ NextDescriptor(file, o) \in Nat
         /\ o < NextDescriptor(file, o) /\ NextDescriptor(file, o) <= Len(file)
         /\ ConfigurationAt(file, o) > 0 =>
              SubSeq(file, o + 1, o + ConfigurationAt(file, o)) \in Raw
  <1>1. PICK n \in Nat : n = Len(file)
    OBVIOUS
  <1>2. \A i \in 1..n : file[i] \in 0..255
    BY <1>1
  <1>3. o + 2 <= n /\ file[o + 1] \in 2..255 /\ o + file[o + 1] <= n
    <2>1. o \in 0..n /\ ~(o + 2 > n) /\ ~(file[o + 1] < 2) /\ ~(o + file[o + 1] > n)
      BY <1>1 DEF Ends
    <2>2. o + 2 <= n /\ o + 1 \in 1..n
      BY <2>1
    <2>3. PICK x \in 0..255 : x = file[o + 1]
      BY <1>2, <2>2
    <2>4. ~(x < 2) /\ ~(o + x > n)
      BY <2>1, <2>3
    <2>5. x \in 2..255 /\ o + x <= n
      BY <2>1, <2>4
    <2> QED BY <2>2, <2>3, <2>5
  <1>4. CASE ConfigurationAt(file, o) = 0
    <2>1. PICK x \in 2..255 : x = file[o + 1]
      BY <1>3
    <2>2. NextDescriptor(file, o) = o + x
      BY <1>4, <2>1 DEF NextDescriptor
    <2>3. o + x \in Nat /\ o < o + x /\ o + x <= n
      <3>1. o \in 0..n
        BY <1>1
      <3>2. o + x <= n
        BY <1>3, <2>1
      <3> QED BY <3>1, <3>2
    <2> QED BY <1>1, <1>4, <2>2, <2>3
  <1>5. CASE ConfigurationAt(file, o) # 0
    <2>1. PICK total : total = file[o + 3] + (256 * file[o + 4])
      OBVIOUS
    <2>2. /\ ConfigurationAt(file, o) = total
          /\ file[o + 1] >= 9 /\ total >= file[o + 1] /\ o + total <= n
      BY <1>1, <1>5, <2>1 DEF ConfigurationAt
    <2>3. o + 3 \in 1..n /\ o + 4 \in 1..n
      <3>1. PICK x \in 2..255 : x = file[o + 1]
        BY <1>3
      <3>2. x >= 9 /\ o + x <= n /\ o \in 0..n
        BY <1>1, <1>3, <2>2, <3>1
      <3> QED BY <3>2
    <2>4. file[o + 3] \in 0..255 /\ file[o + 4] \in 0..255
      BY <1>2, <2>3
    <2>5. total \in Nat /\ total >= 9
      <3>1. PICK x \in 2..255 : x = file[o + 1]
        BY <1>3
      <3>2. total \in Nat
        <4>1. PICK y \in 0..255, z \in 0..255 : y = file[o + 3] /\ z = file[o + 4]
          BY <2>4
        <4>2. total = y + (256 * z)
          BY <2>1, <4>1
        <4>3. y + (256 * z) \in Nat
          OBVIOUS
        <4> QED BY <4>2, <4>3
      <3>3. x >= 9 /\ total >= x
        BY <2>2, <3>1
      <3> QED BY <3>2, <3>3
    <2>6. PICK r : r = SubSeq(file, o + 1, o + total)
      OBVIOUS
    <2>7. o + total \in 1..n /\ o + 1 \in 1..n /\ (o + total) - (o + 1) + 1 = total
      BY <2>2, <2>5
    <2>8. /\ r \in Seq(0..255) /\ Len(r) = total
          /\ \A i \in 1..total : r[i] = file[o + 1 + i - 1]
      <3>1. PICK a, b : a = o + 1 /\ b = o + total
        OBVIOUS
      <3>2. a \in Int /\ b \in Int /\ a <= b /\ b - a + 1 = total
        BY <2>5, <2>7, <3>1
      <3>3. \A i \in a..b : file[i] \in 0..255
        BY <1>2, <2>7, <3>1
      <3>4. /\ SubSeq(file, a, b) \in Seq(0..255)
            /\ Len(SubSeq(file, a, b)) = total
            /\ \A i \in 1..total : SubSeq(file, a, b)[i] = file[a + i - 1]
        BY <3>2, <3>3
      <3> QED BY <2>6, <3>1, <3>4
    <2>9. r[3] = file[o + 3] /\ r[4] = file[o + 4]
      <3>1. 3 \in 1..total /\ 4 \in 1..total
        BY <2>5
      <3>2. o + 1 + 3 - 1 = o + 3 /\ o + 1 + 4 - 1 = o + 4
        OBVIOUS
      <3> QED BY <2>8, <3>1, <3>2
    <2>10. r \in Raw
      BY <2>1, <2>5, <2>8, <2>9 DEF Raw, Announced
    <2>11. NextDescriptor(file, o) = o + total
      BY <2>2, <2>5 DEF NextDescriptor
    <2> QED BY <1>1, <2>2, <2>5, <2>6, <2>10, <2>11
  <1> QED BY <1>4, <1>5

(* extract_configuration_descriptors ends, whatever the bytes, and gives    *)
(* only configurations that are as long as they say.                        *)
LEMMA ExtractOK ==
  ASSUME NEW file \in Seq(0..255)
  PROVE  extract_configuration_descriptors(file) \in Seq(Raw)
  <1>1. PICK N \in Nat : N = Len(file)
    OBVIOUS
  <1>2. PICK stop : stop = {o \in 0..N : Ends(file, o)}
    OBVIOUS
  <1>3. PICK next : next = [o \in 0..N |-> IF o \in stop THEN 0 ELSE NextDescriptor(file, o)]
    OBVIOUS
  <1> DEFINE Cut(o) == SubSeq(file, o + 1, o + ConfigurationAt(file, o))
             Step(o) == [x \in Seq(Raw) |->
                           IF o \notin stop /\ ConfigurationAt(file, o) > 0
                           THEN <<Cut(o)>> \o x ELSE x]
  <1>4. PICK step : step = [o \in 0..N |-> Step(o)]
    OBVIOUS
  <1>5. next \in [0..N -> Nat] /\ \A o \in 0..N : o \notin stop => o < next[o] /\ next[o] <= N
    <2>1. ASSUME NEW o \in 0..N, o \notin stop
          PROVE  next[o] = NextDescriptor(file, o) /\ ~Ends(file, o)
      BY <1>2, <1>3, <2>1
    <2>2. ASSUME NEW o \in 0..N, o \notin stop
          PROVE  next[o] \in Nat /\ o < next[o] /\ next[o] <= N
      BY <1>1, <2>1, <2>2, CutOut
    <2>3. \A o \in 0..N : o \in stop => next[o] = 0
      BY <1>3
    <2> QED BY <1>3, <2>2, <2>3
  <1>6. \A o \in 0..N : o \notin stop /\ ConfigurationAt(file, o) > 0 => Cut(o) \in Raw
    BY <1>1, <1>2, CutOut
  <1>7. step \in [0..N -> [Seq(Raw) -> Seq(Raw)]]
    <2>1. ASSUME NEW o \in 0..N PROVE Step(o) \in [Seq(Raw) -> Seq(Raw)]
      <3>1. ASSUME NEW x \in Seq(Raw), NEW c \in Raw PROVE <<c>> \o x \in Seq(Raw)
        BY <3>1
      <3> QED BY <1>6, <3>1
    <2> QED BY <1>4, <2>1
  <1>8. PICK f \in [0..N -> Seq(Raw)] : Jumps(f, N, stop, next, <<>>, step)
    <2>1. <<>> \in Seq(Raw)
      OBVIOUS
    <2> HIDE DEF Step
    <2> QED BY <1>5, <1>7, <2>1, JumpExists
  <1> DEFINE Value(g, offset) ==
        IF offset + 2 > Len(file) THEN <<>>
        ELSE LET length == file[offset + 1] IN
             IF length < 2 \/ offset + length > Len(file) THEN <<>>
             ELSE LET total == ConfigurationAt(file, offset) IN
                  IF total > 0
                  THEN <<SubSeq(file, offset + 1, offset + total)>> \o g[offset + total]
                  ELSE g[offset + length]
             Is(g) == g = [offset \in 0..Len(file) |-> Value(g, offset)]
  <1>9. ASSUME NEW g, NEW o \in 0..N
        PROVE  Value(g, o) =
                 IF o \in stop THEN <<>>
                 ELSE IF ConfigurationAt(file, o) > 0
                 THEN <<Cut(o)>> \o g[next[o]] ELSE g[next[o]]
    <2>1. o \in stop <=> Ends(file, o)
      BY <1>2
    <2>2. o \notin stop => next[o] = NextDescriptor(file, o)
      BY <1>3
    <2> QED BY <2>1, <2>2 DEF Ends, NextDescriptor
  <1>10. Is(f)
    <2>1. ASSUME NEW o \in 0..N PROVE f[o] = Value(f, o)
      <3>1. f[o] = IF o \in stop THEN <<>> ELSE step[o][f[next[o]]]
        BY <1>8 DEF Jumps
      <3>2. CASE o \in stop
        BY <1>9, <3>1, <3>2
      <3>3. CASE o \notin stop
        <4>1. next[o] \in 0..N
          BY <1>5, <3>3
        <4>2. f[next[o]] \in Seq(Raw)
          BY <1>8, <4>1
        <4>3. step[o][f[next[o]]] = IF ConfigurationAt(file, o) > 0
                                    THEN <<Cut(o)>> \o f[next[o]] ELSE f[next[o]]
          BY <1>4, <3>3, <4>2
        <4> QED BY <1>9, <3>1, <3>3, <4>3
      <3> QED BY <3>2, <3>3
    <2> HIDE DEF Value
    <2>2. f = [o \in 0..N |-> f[o]]
      BY <1>8
    <2> QED BY <1>1, <2>1, <2>2
  <1>11. PICK c : c = CHOOSE g : Is(g)
    OBVIOUS
  <1>12. Is(c)
    BY <1>10, <1>11
  <1>13. extract_configuration_descriptors(file) = c[0]
    BY <1>11 DEF extract_configuration_descriptors
  <1>14. \A o \in 0..N : c[o] = Value(c, o)
    <2> HIDE DEF Value
    <2> QED BY <1>1, <1>12
  <1>15. ASSUME NEW o \in 0..N, o \notin stop => c[next[o]] \in Seq(Raw)
         PROVE  c[o] \in Seq(Raw)
    <2> HIDE DEF Value
    <2>1. c[o] = IF o \in stop THEN <<>>
                 ELSE IF ConfigurationAt(file, o) > 0
                 THEN <<Cut(o)>> \o c[next[o]] ELSE c[next[o]]
      BY <1>9, <1>14
    <2>2. CASE o \in stop
      BY <2>1, <2>2
    <2>3. CASE o \notin stop
      <3>1. PICK x \in Seq(Raw) : x = c[next[o]]
        BY <1>15, <2>3
      <3>2. ConfigurationAt(file, o) > 0 => <<Cut(o)>> \o x \in Seq(Raw)
        BY <1>6, <2>3
      <3> QED BY <2>1, <2>3, <3>1, <3>2
    <2> QED BY <2>2, <2>3
  <1> DEFINE good == {k \in 0..N : \A o \in (N - k)..N : c[o] \in Seq(Raw)}
  <1>16. 0 \in good
    <2>1. ASSUME NEW o \in (N - 0)..N PROVE c[o] \in Seq(Raw)
      <3>1. o \in 0..N /\ o = N
        OBVIOUS
      <3>2. o \in stop
        BY <1>5, <3>1
      <3> QED BY <1>15, <3>1, <3>2
    <2> QED BY <2>1
  <1>17. ASSUME NEW k \in 0..N, k \in good, k < N PROVE k + 1 \in good
    <2>1. ASSUME NEW o \in (N - (k + 1))..N PROVE c[o] \in Seq(Raw)
      <3>1. o \in 0..N /\ \A p \in 0..N : o < p => p \in (N - k)..N
        BY <1>17
      <3>2. \A p \in (N - k)..N : c[p] \in Seq(Raw)
        BY <1>17
      <3>3. o \notin stop => next[o] \in 0..N /\ o < next[o]
        BY <1>5, <3>1
      <3>4. o \notin stop => c[next[o]] \in Seq(Raw)
        BY <3>1, <3>2, <3>3
      <3> QED BY <1>15, <3>1, <3>4
    <2>2. k + 1 \in 0..N
      BY <1>17
    <2> QED BY <2>1, <2>2
  <1>18. N \in good
    <2> HIDE DEF good
    <2> QED BY <1>16, <1>17, UpTo
  <1>19. 0 \in (N - N)..N
    OBVIOUS
  <1> QED BY <1>13, <1>18, <1>19

(* A device but for its strings.                                           *)
Body(d) == <<d.interfaces, d.raw, d.super, d.cp210x, d.configuration_value, d.handler>>

(* Setting and unsetting a string touch nothing else.                      *)
LEMMA BodyKept ==
  ASSUME NEW d, Shaped(d), NEW f \in Fields
  PROVE  /\ \A name : Body(Renamed(d, f, name)) = Body(d) /\ Shaped(Renamed(d, f, name))
         /\ Body(Unnamed(d, f)) = Body(d) /\ Shaped(Unnamed(d, f))
  <1>1. ASSUME NEW e, NEW pool, NEW index,
               e = [interfaces |-> d.interfaces, raw |-> d.raw, super |-> d.super,
                    cp210x |-> d.cp210x, configuration_value |-> d.configuration_value,
                    handler |-> d.handler, pool |-> pool, index |-> index]
        PROVE  Body(e) = Body(d) /\ Shaped(e)
    BY <1>1 DEF Body, Shaped
  <1>2. ASSUME NEW name
        PROVE  Body(Renamed(d, f, name)) = Body(d) /\ Shaped(Renamed(d, f, name))
    <2>1. PICK p, i : p = With(d.pool, i, name) /\ i = new_string(d.pool)
      OBVIOUS
    <2>2. PICK r : r = [d EXCEPT !.pool = p, !.index[f] = i]
      OBVIOUS
    <2>3. r = Renamed(d, f, name)
      BY <2>1, <2>2 DEF Renamed
    <2>4. r = [interfaces |-> d.interfaces, raw |-> d.raw, super |-> d.super,
               cp210x |-> d.cp210x, configuration_value |-> d.configuration_value,
               handler |-> d.handler, pool |-> p, index |-> [d.index EXCEPT ![f] = i]]
      BY <2>2 DEF Shaped
    <2> QED BY <1>1, <2>3, <2>4
  <1>3. Body(Unnamed(d, f)) = Body(d) /\ Shaped(Unnamed(d, f))
    <2>1. PICK p : p = IF d.index[f] # 0 THEN Drop(d.pool, d.index[f]) ELSE d.pool
      OBVIOUS
    <2>2. PICK r : r = [d EXCEPT !.pool = p, !.index[f] = 0]
      OBVIOUS
    <2>3. r = Unnamed(d, f)
      BY <2>1, <2>2 DEF Unnamed
    <2>4. r = [interfaces |-> d.interfaces, raw |-> d.raw, super |-> d.super,
               cp210x |-> d.cp210x, configuration_value |-> d.configuration_value,
               handler |-> d.handler, pool |-> p, index |-> [d.index EXCEPT ![f] = 0]]
      BY <2>2 DEF Shaped
    <2> QED BY <1>1, <2>3, <2>4
  <1> QED BY <1>2, <1>3

(* What UsbDevice::new makes.                                              *)
LEMMA DefaultBody ==
  Body(Default) = <<<<>>, <<>>, FALSE, FALSE, 1, FALSE>> /\ Shaped(Default)
  <1>1. PICK d0 : d0 = [interfaces |-> <<>>, raw |-> <<>>, super |-> FALSE, cp210x |-> FALSE,
                        configuration_value |-> 1, handler |-> FALSE,
                        pool |-> NoStrings, index |-> [f \in Fields |-> 0]]
    OBVIOUS
  <1>2. Shaped(d0) /\ Body(d0) = <<<<>>, <<>>, FALSE, FALSE, 1, FALSE>>
    BY <1>1 DEF Shaped, Body
  <1>3. PICK d1 : d1 = Renamed(d0, "configuration", "configuration")
    OBVIOUS
  <1>4. Shaped(d1) /\ Body(d1) = Body(d0)
    BY <1>2, <1>3, BodyKept DEF Fields
  <1>5. PICK d2 : d2 = Renamed(d1, "manufacturer", "manufacturer")
    OBVIOUS
  <1>6. Shaped(d2) /\ Body(d2) = Body(d1)
    BY <1>4, <1>5, BodyKept DEF Fields
  <1>7. PICK d3 : d3 = Renamed(d2, "product", "product")
    OBVIOUS
  <1>8. Shaped(d3) /\ Body(d3) = Body(d2)
    BY <1>6, <1>7, BodyKept DEF Fields
  <1>9. PICK d4 : d4 = Renamed(d3, "serial", "serial")
    OBVIOUS
  <1>10. Shaped(d4) /\ Body(d4) = Body(d3)
    BY <1>8, <1>9, BodyKept DEF Fields
  <1>11. Default = d4
    BY <1>1, <1>3, <1>5, <1>7, <1>9 DEF Default
  <1> QED BY <1>2, <1>4, <1>6, <1>8, <1>10, <1>11

(* What with_nusb_devices makes.                                           *)
LEMMA OpenedBody ==
  ASSUME NEW h, NEW claimed, NEW readable
  PROVE  LET d == Opened(h, claimed, readable) IN
         /\ Shaped(d)
         /\ Body(d) = <<Retain(h.interfaces, claimed),
                        IF readable THEN extract_configuration_descriptors(h.descriptors)
                        ELSE <<>>, h.super, h.cp210x, h.configuration, TRUE>>
  <1>0. PICK intfs, raw : /\ intfs = Retain(h.interfaces, claimed)
                          /\ raw = IF readable
                                   THEN extract_configuration_descriptors(h.descriptors)
                                   ELSE <<>>
    OBVIOUS
  <1>1. PICK d0 : d0 = [interfaces |-> intfs, raw |-> raw, super |-> h.super,
                        cp210x |-> h.cp210x, configuration_value |-> h.configuration,
                        handler |-> TRUE, pool |-> NoStrings, index |-> [f \in Fields |-> 0]]
    OBVIOUS
  <1>2. Shaped(d0) /\ Body(d0) = <<intfs, raw, h.super, h.cp210x, h.configuration, TRUE>>
    BY <1>1 DEF Shaped, Body
  <1> DEFINE Known(e, f) == IF f \in h.strings THEN Renamed(e, f, f) ELSE e
  <1>3. PICK d1 : d1 = Known(d0, "manufacturer")
    OBVIOUS
  <1>4. Shaped(d1) /\ Body(d1) = Body(d0)
    BY <1>2, <1>3, BodyKept DEF Fields
  <1>5. PICK d2 : d2 = Known(d1, "product")
    OBVIOUS
  <1>6. Shaped(d2) /\ Body(d2) = Body(d1)
    BY <1>4, <1>5, BodyKept DEF Fields
  <1>7. PICK d3 : d3 = Known(d2, "serial")
    OBVIOUS
  <1>8. Shaped(d3) /\ Body(d3) = Body(d2)
    BY <1>6, <1>7, BodyKept DEF Fields
  <1>9. Opened(h, claimed, readable) = d3
    BY <1>0, <1>1, <1>3, <1>5, <1>7 DEF Opened
  <1> QED BY <1>0, <1>2, <1>4, <1>6, <1>8, <1>9

(* The length of a synthesized configuration, by induction on the number of *)
(* interfaces.                                                              *)
LEMMA SynthesizedOK ==
  ASSUME NEW d, d.interfaces \in Seq(Interface)
  PROVE  /\ SynthesizedLength(d) \in Nat
         /\ (\A i \in 1..Len(d.interfaces) : d.interfaces[i].endpoints = <<>>) =>
              SynthesizedLength(d) = 9 + (9 * Len(d.interfaces))
  <1>1. PICK N \in Nat : N = Len(d.interfaces)
    OBVIOUS
  <1>2. PICK endpoint \in Nat : endpoint = IF d.super THEN 7 + 6 ELSE 7
    OBVIOUS
  <1>3. PICK more : more = [n \in 1..N |-> endpoint * Len(d.interfaces[n].endpoints)]
    OBVIOUS
  <1>4. more \in [1..N -> Nat]
    <2>1. ASSUME NEW n \in 1..N PROVE endpoint * Len(d.interfaces[n].endpoints) \in Nat
      <3>1. d.interfaces[n] \in Interface
        BY <1>1
      <3>2. d.interfaces[n].endpoints \in Seq(Endpoint)
        BY <3>1 DEF Interface
      <3>3. PICK k \in Nat : k = Len(d.interfaces[n].endpoints)
        BY <3>2
      <3>4. endpoint * k \in Nat
        OBVIOUS
      <3> QED BY <3>3, <3>4
    <2> QED BY <1>3, <2>1
  <1> DEFINE Step(n) == [x \in Nat |-> x + 9 + more[n]]
  <1>5. PICK step : step = [n \in 1..N |-> Step(n)]
    OBVIOUS
  <1>6. step \in [1..N -> [Nat -> Nat]]
    <2>1. ASSUME NEW n \in 1..N PROVE Step(n) \in [Nat -> Nat]
      <3>1. more[n] \in Nat
        BY <1>4
      <3> QED BY <3>1
    <2> QED BY <1>5, <2>1
  <1>7. PICK f \in [0..N -> Nat] : Iterates(f, N, 9, step)
    <2> HIDE DEF Step
    <2> QED BY <1>6, IterationExists
  <1> DEFINE Is(g) == g = [n \in 0..Len(d.interfaces) |->
                             IF n = 0 THEN 9
                             ELSE g[n - 1] + 9 + (endpoint * Len(d.interfaces[n].endpoints))]
  <1>8. Is(f)
    <2>1. ASSUME NEW n \in 0..N
          PROVE  f[n] = IF n = 0 THEN 9
                        ELSE f[n - 1] + 9 + (endpoint * Len(d.interfaces[n].endpoints))
      <3>1. CASE n = 0
        BY <1>7, <3>1 DEF Iterates
      <3>2. CASE n # 0
        <4>1. n \in 1..N /\ n - 1 \in 0..N
          BY <3>2
        <4>2. f[n] = step[n][f[n - 1]]
          BY <1>7, <3>2, <4>1 DEF Iterates
        <4>3. f[n - 1] \in Nat
          BY <1>7, <4>1
        <4>4. step[n][f[n - 1]] = f[n - 1] + 9 + more[n]
          BY <1>5, <4>1, <4>3
        <4>5. more[n] = endpoint * Len(d.interfaces[n].endpoints)
          BY <1>3, <4>1
        <4> QED BY <3>2, <4>2, <4>4, <4>5
      <3> QED BY <3>1, <3>2
    <2>2. f = [n \in 0..N |-> f[n]]
      BY <1>7
    <2> QED BY <1>1, <2>1, <2>2
  <1>9. PICK c : c = CHOOSE g : Is(g)
    OBVIOUS
  <1>10. Is(c)
    BY <1>8, <1>9
  <1>11. SynthesizedLength(d) = c[N]
    BY <1>1, <1>2, <1>9 DEF SynthesizedLength
  <1>12. c[0] = 9 /\ \A n \in 1..N : c[n] = c[n - 1] + 9 + more[n]
    <2>1. \A n \in 0..N : c[n] = IF n = 0 THEN 9
                 ELSE c[n - 1] + 9 + (endpoint * Len(d.interfaces[n].endpoints))
      BY <1>1, <1>10
    <2> HIDE DEF Is
    <2>2. 0 \in 0..N /\ \A n \in 1..N : n \in 0..N /\ n # 0
      OBVIOUS
    <2>3. \A n \in 1..N : more[n] = endpoint * Len(d.interfaces[n].endpoints)
      BY <1>3
    <2> QED BY <2>1, <2>2, <2>3
  <1> HIDE DEF Is
  <1>13. c[N] \in Nat
    <2> DEFINE ok == {n \in 0..N : c[n] \in Nat}
    <2>1. 0 \in ok
      BY <1>12
    <2>2. ASSUME NEW n \in 0..N, n \in ok, n < N PROVE n + 1 \in ok
      <3>1. n + 1 \in 1..N /\ (n + 1) - 1 = n
        BY <2>2
      <3>2. c[n + 1] = c[n] + 9 + more[n + 1]
        BY <1>12, <3>1
      <3>3. c[n] \in Nat /\ more[n + 1] \in Nat
        BY <1>4, <2>2, <3>1
      <3> QED BY <3>1, <3>2, <3>3, SMTT(30)
    <2>3. N \in ok
      <3> HIDE DEF ok
      <3> QED BY <2>1, <2>2, UpTo
    <2> QED BY <2>3
  <1>14. ASSUME \A i \in 1..Len(d.interfaces) : d.interfaces[i].endpoints = <<>>
         PROVE  c[N] = 9 + (9 * N)
    <2>1. ASSUME NEW n \in 1..N PROVE more[n] = 0
      <3>1. d.interfaces[n].endpoints = <<>>
        BY <1>1, <1>14
      <3> QED BY <1>3, <3>1
    <2> DEFINE ok == {n \in 0..N : c[n] = 9 + (9 * n)}
    <2>2. 0 \in ok
      BY <1>12
    <2>3. ASSUME NEW n \in 0..N, n \in ok, n < N PROVE n + 1 \in ok
      <3>1. n + 1 \in 1..N /\ (n + 1) - 1 = n
        BY <2>3
      <3>2. c[n + 1] = c[n] + 9 + more[n + 1]
        BY <1>12, <3>1
      <3>3. c[n] = 9 + (9 * n) /\ more[n + 1] = 0
        BY <2>1, <2>3, <3>1
      <3>4. c[n + 1] = 9 + (9 * n) + 9
        BY <3>2, <3>3
      <3> QED BY <3>1, <3>4
    <2>4. N \in ok
      <3> HIDE DEF ok
      <3> QED BY <2>2, <2>3, UpTo
    <2> QED BY <2>4
  <1> QED BY <1>1, <1>11, <1>13, <1>14

(* Every interface of a simulated device has a string, which no field's     *)
(* setter gives up: so there are at most as many as there are numbers.      *)
Own(d) ==
  \E at \in [1..Len(d.interfaces) -> DOMAIN d.pool] :
    /\ \A i, j \in 1..Len(d.interfaces) : at[i] = at[j] => i = j
    /\ \A i \in 1..Len(d.interfaces), f \in Fields : at[i] # d.index[f]

(* 0 stands for no string.                                                  *)
LEMMA ZeroIsNoNumber == \A x \in StringIndexes : x # 0
  BY DEF StringIndexes

(* Different numbers from 1 to 255: so they are no more than 255.           *)
LEMMA OwnIsFew ==
  ASSUME NEW d, d.interfaces \in Seq(Interface), DOMAIN d.pool \subseteq StringIndexes, Own(d)
  PROVE  Len(d.interfaces) <= 255
  <1>1. PICK n \in Nat : n = Len(d.interfaces)
    OBVIOUS
  <1>2. PICK at \in [1..n -> DOMAIN d.pool] : \A i, j \in 1..n : at[i] = at[j] => i = j
    BY <1>1 DEF Own
  <1>3. at \in Injection(1..n, 1..255)
    BY <1>2, ZenonT(30) DEF Injection, StringIndexes, IsInjective
  <1>4. IsFiniteSet(1..255) /\ Cardinality(1..255) = 255
    <2>1. \A m \in Nat : IsFiniteSet(1..m) /\ Cardinality(1..m) = IF 1 > m THEN 0 ELSE m - 1 + 1
      BY FS_Interval
    <2>2. 255 \in Nat /\ (IF 1 > 255 THEN 0 ELSE 255 - 1 + 1) = 255
      OBVIOUS
    <2> QED BY <2>1, <2>2, ZenonT(30)
  <1>5. Cardinality(1..n) = n
    <2>1. Cardinality(1..n) = IF 1 > n THEN 0 ELSE n - 1 + 1
      BY FS_Interval
    <2> QED BY <2>1
  <1>6. Cardinality(1..n) <= Cardinality(1..255)
    BY <1>3, <1>4, FS_Injection
  <1> QED BY <1>1, <1>4, <1>5, <1>6

(* The strings of a device after a change of one field.                     *)
LEMMA RenamedPool ==
  ASSUME NEW d, Shaped(d), PoolTyped(d), NEW f \in Fields, NEW name
  PROVE  LET r == Renamed(d, f, name) IN
         /\ r.pool = With(d.pool, new_string(d.pool), name)
         /\ r.index = [d.index EXCEPT ![f] = new_string(d.pool)]
  <1>1. PICK p, i : p = With(d.pool, i, name) /\ i = new_string(d.pool)
    OBVIOUS
  <1>2. PICK r : r = [d EXCEPT !.pool = p, !.index[f] = i]
    OBVIOUS
  <1>3. r = Renamed(d, f, name)
    BY <1>1, <1>2 DEF Renamed
  <1>4. r = [interfaces |-> d.interfaces, raw |-> d.raw, super |-> d.super,
             cp210x |-> d.cp210x, configuration_value |-> d.configuration_value,
             handler |-> d.handler, pool |-> p, index |-> [d.index EXCEPT ![f] = i]]
    BY <1>2 DEF Shaped
  <1> QED BY <1>1, <1>3, <1>4

(* A field that gives up its number leaves the other strings.               *)
LEMMA UnnamedPool ==
  ASSUME NEW d, Shaped(d), PoolTyped(d), NEW f \in Fields
  PROVE  LET u == Unnamed(d, f) IN
         /\ \A j \in DOMAIN d.pool : j # d.index[f] => j \in DOMAIN u.pool
         /\ u.index = [d.index EXCEPT ![f] = 0]
  <1>1. PICK p : p = IF d.index[f] # 0 THEN Drop(d.pool, d.index[f]) ELSE d.pool
    OBVIOUS
  <1>2. PICK r : r = [d EXCEPT !.pool = p, !.index[f] = 0]
    OBVIOUS
  <1>3. r = Unnamed(d, f)
    BY <1>1, <1>2 DEF Unnamed
  <1>4. r = [interfaces |-> d.interfaces, raw |-> d.raw, super |-> d.super,
             cp210x |-> d.cp210x, configuration_value |-> d.configuration_value,
             handler |-> d.handler, pool |-> p, index |-> [d.index EXCEPT ![f] = 0]]
    BY <1>2 DEF Shaped
  <1>5. r.pool = p /\ r.index = [d.index EXCEPT ![f] = 0]
    BY <1>4
  <1>6. \A j \in DOMAIN d.pool : j # d.index[f] => j \in DOMAIN p
    BY <1>1 DEF Drop
  <1> QED BY <1>3, <1>5, <1>6

(* The setters leave the strings of the interfaces alone...                 *)
LEMMA OwnRenamed ==
  ASSUME NEW d, Shaped(d), PoolTyped(d), Own(d), NEW f \in Fields, NEW name, Free(d.pool) # {}
  PROVE  Own(Renamed(d, f, name))
  <1>1. PICK r, i : r = Renamed(d, f, name) /\ i = new_string(d.pool)
    OBVIOUS
  <1>2. r.pool = With(d.pool, i, name) /\ r.index = [d.index EXCEPT ![f] = i]
    BY <1>1, RenamedPool
  <1>3. r.interfaces = d.interfaces
    BY <1>1, BodyKept DEF Body
  <1>4. i \notin DOMAIN d.pool
    BY <1>1, NewStringFree DEF Free
  <1>5. DOMAIN r.pool = DOMAIN d.pool \cup {i}
    BY <1>2 DEF With
  <1>6. PICK at \in [1..Len(d.interfaces) -> DOMAIN d.pool] :
          /\ \A j, k \in 1..Len(d.interfaces) : at[j] = at[k] => j = k
          /\ \A j \in 1..Len(d.interfaces), g \in Fields : at[j] # d.index[g]
    BY DEF Own
  <1>7. \A j \in 1..Len(d.interfaces), g \in Fields : at[j] # r.index[g]
    BY <1>2, <1>4, <1>6 DEF PoolTyped
  <1>8. at \in [1..Len(d.interfaces) -> DOMAIN r.pool]
    BY <1>5, <1>6
  <1> QED BY <1>1, <1>3, <1>6, <1>7, <1>8 DEF Own

(* ... both of them ...                                                     *)
LEMMA OwnUnnamed ==
  ASSUME NEW d, Shaped(d), PoolTyped(d), Own(d), NEW f \in Fields
  PROVE  Own(Unnamed(d, f))
  <1>1. PICK u : u = Unnamed(d, f)
    OBVIOUS
  <1>2. /\ \A j \in DOMAIN d.pool : j # d.index[f] => j \in DOMAIN u.pool
        /\ u.index = [d.index EXCEPT ![f] = 0]
    BY <1>1, UnnamedPool
  <1>3. u.interfaces = d.interfaces
    BY <1>1, BodyKept DEF Body
  <1>4. PICK at \in [1..Len(d.interfaces) -> DOMAIN d.pool] :
          /\ \A j, k \in 1..Len(d.interfaces) : at[j] = at[k] => j = k
          /\ \A j \in 1..Len(d.interfaces), g \in Fields : at[j] # d.index[g]
    BY DEF Own
  <1>5. \A j \in 1..Len(d.interfaces) : at[j] \in DOMAIN u.pool /\ at[j] \in StringIndexes
    BY <1>2, <1>4 DEF PoolTyped
  <1>6. \A j \in 1..Len(d.interfaces), g \in Fields : at[j] # u.index[g]
    <2> TAKE j \in 1..Len(d.interfaces), g \in Fields
    <2>1. u.index[g] = IF g = f THEN 0 ELSE d.index[g]
      BY <1>2 DEF PoolTyped
    <2>2. at[j] # 0 /\ at[j] # d.index[g]
      BY <1>4, <1>5, ZeroIsNoNumber
    <2> QED BY <2>1, <2>2
  <1>7. at \in [1..Len(d.interfaces) -> DOMAIN u.pool]
    BY <1>4, <1>5
  <1> QED BY <1>1, <1>3, <1>4, <1>6, <1>7 DEF Own

(* ... and a new interface gets a string of its own.                        *)
LEMMA OwnAppended ==
  ASSUME NEW d, NEW nm, StringsOK(d, nm), Own(d), d.interfaces \in Seq(Interface),
         Free(d.pool) # {}, NEW name, NEW intf \in Interface, NEW r,
         r.pool = With(d.pool, new_string(d.pool), name), r.index = d.index,
         r.interfaces = Append(d.interfaces, intf)
  PROVE  Own(r)
  <1>1. PICK i : i = new_string(d.pool)
    OBVIOUS
  <1>2. PICK n \in Nat : n = Len(d.interfaces)
    OBVIOUS
  <1>3. Len(r.interfaces) = n + 1
    BY <1>2
  <1>4. i \notin DOMAIN d.pool /\ i # 0
    <2>1. i \in Free(d.pool)
      BY <1>1, NewStringFree
    <2> QED BY <2>1, ZeroIsNoNumber DEF Free
  <1>5. DOMAIN r.pool = DOMAIN d.pool \cup {i}
    BY <1>1 DEF With
  <1>6. PICK at \in [1..n -> DOMAIN d.pool] :
          /\ \A j, k \in 1..n : at[j] = at[k] => j = k
          /\ \A j \in 1..n, g \in Fields : at[j] # d.index[g]
    BY <1>2 DEF Own
  <1>7. PICK new : new = [j \in 1..(n + 1) |-> IF j <= n THEN at[j] ELSE i]
    OBVIOUS
  <1>8. \A j \in 1..(n + 1) : \/ j \in 1..n /\ new[j] = at[j] /\ at[j] \in DOMAIN d.pool
                              \/ j = n + 1 /\ new[j] = i
    <2> TAKE j \in 1..(n + 1)
    <2>1. CASE j <= n
      <3>1. j \in 1..n
        BY <2>1
      <3> QED BY <1>6, <1>7, <2>1, <3>1
    <2>2. CASE ~(j <= n)
      <3>1. j = n + 1
        BY <2>2
      <3> QED BY <1>7, <2>2, <3>1
    <2> QED BY <2>1, <2>2
  <1>9. new \in [1..(n + 1) -> DOMAIN r.pool]
    BY <1>5, <1>7, <1>8
  <1>10. \A j, k \in 1..(n + 1) : new[j] = new[k] => j = k
    <2> TAKE j, k \in 1..(n + 1)
    <2>1. CASE j \in 1..n /\ k \in 1..n
      <3>1. new[j] = at[j] /\ new[k] = at[k]
        BY <1>7, <1>8, <2>1
      <3> QED BY <1>6, <2>1, <3>1
    <2>2. CASE ~(j \in 1..n /\ k \in 1..n)
      BY <1>4, <1>8, <2>2
    <2> QED BY <2>1, <2>2
  <1>11. \A g \in Fields : d.index[g] = 0 \/ d.index[g] \in DOMAIN d.pool
    BY DEF StringsOK, Named
  <1>12. \A j \in 1..(n + 1), g \in Fields : new[j] # r.index[g]
    BY <1>4, <1>6, <1>8, <1>11
  <1> QED BY <1>3, <1>9, <1>10, <1>12 DEF Own

(* No interface has endpoints.                                              *)
Plain(d) == \A i \in 1..Len(d.interfaces) : d.interfaces[i].endpoints = <<>>

(* The configuration of a host device, with any of its interfaces, can be   *)
(* announced in 16 bits, as the hardware's own descriptor announces it.     *)
Describable ==
  \A h \in Hosts : \A claimed \in SUBSET ToSet(h.interfaces), readable \in BOOLEAN :
    SynthesizedLength(Opened(h, claimed, readable)) < 65536

(* The device: typed, with a handler just if there is hardware; plain and   *)
(* with a string for every interface if it is simulated, and describable.   *)
DeviceOK ==
  /\ device.interfaces \in Seq(Interface) /\ device.raw \in Seq(Raw)
  /\ device.handler <=> host # None
  /\ phase \in {"off", "build"} => host = None
  /\ host = None => Own(device) /\ Plain(device)
  /\ host # None /\ Describable => SynthesizedLength(device) < 65536

(* What an answer has to do with the request and the device.  The device    *)
(* does not change while it serves, so an answer that waits to be written   *)
(* is one that the device as it is gives.                                   *)
Reply(ask, o) ==
  /\ reply = <<[ask |-> ask, outcome |-> o]>>
  /\ phase = IF o.res = "panic" THEN "dead" ELSE "serve"

Answers(s) == IF s.dir = "in" THEN ControlIn(device, s) ELSE ControlOut(device, s)
ControlReply(s) ==
  \E o \in Answers(s) :
    Reply(s, o) /\ (s.request = "set_configuration" /\ o.did = "done" => config = s.value)

TransferAsk(address, room) ==
  [dir |-> IF address >= 128 THEN "in" ELSE "out", request |-> "transfer",
   to |-> EndpointsAt(device, address), length |-> room]
TransferReply(address, room) ==
  \E o \in TransferOutcomes(EndpointsAt(device, address), room) :
    Reply(TransferAsk(address, room), o)

Replied ==
  reply # <<>> =>
    \/ \E s \in Setups : ControlReply(s)
    \/ \E address \in Addresses, room \in Buffers : TransferReply(address, room)

ReplyInv == DeviceOK /\ Replied

(* Nothing is answered before the device is served.                         *)
LEMMA RepliedServes == Replied /\ reply # <<>> => phase \in {"serve", "dead"}
  BY DEF Replied, ControlReply, TransferReply, Reply

(* What is assumed of a host device.                                        *)
LEMMA HostFacts ==
  ASSUME NEW h \in Hosts
  PROVE  /\ h.interfaces \in Seq(Interface) /\ h.descriptors \in Seq(0..255) /\ h # None
  <1>1. h \in Host
    BY NamesOK
  <1>2. h.interfaces \in Seq(HostInterface) /\ h.descriptors \in Seq(0..255)
    BY <1>1 DEF Host
  <1>3. HostInterface \subseteq Interface
    <2>1. 0..255 \subseteq Nat
      OBVIOUS
    <2> QED BY <2>1 DEF HostInterface, Interface
  <1>4. ASSUME NEW A, NEW B, A \subseteq B, NEW s \in Seq(A) PROVE s \in Seq(B)
    <2>1. \A i \in 1..Len(s) : s[i] \in B
      BY <1>4
    <2> QED BY <2>1
  <1>5. h # None
    BY RequestAssumption
  <1> QED BY <1>2, <1>3, <1>4, <1>5

(* The invariant of the device and its answer holds at first ...            *)
LEMMA InitReply == Init => ReplyInv
  <1> SUFFICES ASSUME Init PROVE DeviceOK /\ Replied
    BY DEF ReplyInv
  <1>1. Body(device) = <<<<>>, <<>>, FALSE, FALSE, 1, FALSE>>
    BY DefaultBody DEF Init
  <1>2. device.interfaces = <<>> /\ device.raw = <<>> /\ device.handler = FALSE
    BY <1>1 DEF Body
  <1>3. Own(device) /\ Plain(device)
    <2>1. PICK at : at = [i \in 1..0 |-> 0]
      OBVIOUS
    <2>2. Len(device.interfaces) = 0 /\ 1..0 = {}
      BY <1>2
    <2>3. at \in [1..0 -> DOMAIN device.pool]
      BY <2>1, <2>2
    <2> QED BY <2>2, <2>3 DEF Own, Plain
  <1>4. DeviceOK
    BY <1>2, <1>3 DEF DeviceOK, Init
  <1>5. Replied
    BY DEF Replied, Init
  <1> QED BY <1>4, <1>5

(* ... and every step keeps it.                                             *)
LEMMA NextReply == IInv /\ ReplyInv /\ [Next]_vars => ReplyInv'
  <1> SUFFICES ASSUME IInv, ReplyInv, [Next]_vars PROVE ReplyInv'
    OBVIOUS
  <1>0. StringsOK(device, names) /\ Shaped(device) /\ PoolTyped(device) /\ DeviceOK /\ Replied
    BY DEF IInv, ReplyInv, StringsOK
  <1>1. phase \notin {"serve", "dead"} => reply = <<>>
    BY <1>0, RepliedServes
  <1>2. ASSUME reply' = <<>> PROVE Replied'
    BY <1>2 DEF Replied
  <1>3. ASSUME NEW h \in Hosts, Open(h) PROVE ReplyInv'
    <2>1. PICK claimed \in SUBSET ToSet(h.interfaces), readable \in BOOLEAN :
            device' = Opened(h, claimed, readable)
      BY <1>3 DEF Open
    <2>2. Body(device') = <<Retain(h.interfaces, claimed),
                            IF readable THEN extract_configuration_descriptors(h.descriptors)
                            ELSE <<>>, h.super, h.cp210x, h.configuration, TRUE>>
      BY <2>1, OpenedBody
    <2>3. /\ device'.interfaces = Retain(h.interfaces, claimed)
          /\ device'.raw = IF readable THEN extract_configuration_descriptors(h.descriptors)
                           ELSE <<>>
          /\ device'.handler = TRUE
      BY <2>2 DEF Body
    <2>4. device'.interfaces \in Seq(Interface)
      <3>1. Retain(h.interfaces, claimed) \in Seq(Interface)
        BY HostFacts, RetainSelects
      <3> QED BY <2>3, <3>1
    <2>5. device'.raw \in Seq(Raw)
      <3>1. extract_configuration_descriptors(h.descriptors) \in Seq(Raw)
        BY HostFacts, ExtractOK
      <3>2. <<>> \in Seq(Raw)
        OBVIOUS
      <3> QED BY <2>3, <3>1, <3>2
    <2>6. Describable => SynthesizedLength(device') < 65536
      BY <2>1 DEF Describable
    <2>7. host' = h /\ host' # None /\ phase' = "serve" /\ reply' = <<>>
      BY <1>1, <1>3, HostFacts DEF Open
    <2>8. DeviceOK'
      BY <2>3, <2>4, <2>5, <2>6, <2>7 DEF DeviceOK, Describable
    <2> QED BY <1>2, <2>7, <2>8 DEF ReplyInv
  <1>4. CASE New
    <2>1. Body(device') = <<<<>>, <<>>, FALSE, FALSE, 1, FALSE>>
      BY <1>4, DefaultBody DEF New
    <2>2. device'.interfaces = <<>> /\ device'.raw = <<>> /\ device'.handler = FALSE
      BY <2>1 DEF Body
    <2>3. Own(device') /\ Plain(device')
      <3>1. PICK at : at = [i \in 1..0 |-> 0]
        OBVIOUS
      <3>2. Len(device'.interfaces) = 0 /\ 1..0 = {}
        BY <2>2
      <3>3. at \in [1..0 -> DOMAIN device'.pool]
        BY <3>1, <3>2
      <3> QED BY <3>2, <3>3 DEF Own, Plain
    <2>4. host' = None /\ reply' = <<>>
      BY <1>0, <1>1, <1>4 DEF New, DeviceOK
    <2>5. DeviceOK'
      BY <2>2, <2>3, <2>4 DEF DeviceOK
    <2> QED BY <1>2, <2>4, <2>5 DEF ReplyInv
  <1>5. CASE Export
    <2>1. DeviceOK'
      BY <1>0, <1>5 DEF Export, DeviceOK
    <2>2. reply' = <<>>
      BY <1>1, <1>5 DEF Export
    <2> QED BY <1>2, <2>1, <2>2 DEF ReplyInv
  <1>6. CASE Respond
    <2>1. DeviceOK'
      BY <1>0, <1>6 DEF Respond, DeviceOK
    <2> QED BY <1>2, <1>6, <2>1 DEF Respond, ReplyInv
  <1>7. ASSUME Change, device'.interfaces \in Seq(Interface), device'.raw = device.raw,
               device'.handler = device.handler, Own(device'), Plain(device')
        PROVE  ReplyInv'
    <2>1. host = None /\ host' = None /\ reply' = <<>> /\ phase' = phase
      BY <1>0, <1>1, <1>7 DEF Change, DeviceOK
    <2>2. DeviceOK'
      BY <1>0, <1>7, <2>1 DEF DeviceOK
    <2> QED BY <1>2, <2>1, <2>2 DEF ReplyInv
  <1>8. ASSUME Change PROVE Own(device) /\ Plain(device) /\ device.interfaces \in Seq(Interface)
    BY <1>0, <1>8 DEF Change, DeviceOK
  <1>9. ASSUME Change, Body(device') = Body(device), Own(device') PROVE ReplyInv'
    <2>1. /\ device'.interfaces = device.interfaces /\ device'.raw = device.raw
          /\ device'.handler = device.handler
      BY <1>9 DEF Body
    <2>2. Plain(device')
      BY <1>8, <1>9, <2>1 DEF Plain
    <2> QED BY <1>7, <1>8, <1>9, <2>1, <2>2
  <1>10. ASSUME NEW f \in Fields, NEW name \in NewNames, SetName(f, name) PROVE ReplyInv'
    <2>1. PICK u : u = Unnamed(device, f)
      OBVIOUS
    <2>2. Change /\ device' = Renamed(u, f, name) /\ Free(u.pool) # {}
      BY <1>10, <2>1 DEF SetName
    <2>3. Shaped(u) /\ Body(u) = Body(device)
      BY <1>0, <2>1, BodyKept
    <2>4. Own(u)
      BY <1>0, <1>8, <2>1, <2>2, OwnUnnamed
    <2>5. PoolTyped(u)
      BY <1>0, <2>1, UnnamedOK DEF StringsOK
    <2>6. Own(device')
      BY <2>2, <2>3, <2>4, <2>5, OwnRenamed
    <2>7. Body(device') = Body(u)
      BY <2>2, <2>3, BodyKept
    <2> QED BY <1>9, <2>2, <2>3, <2>6, <2>7
  <1>11. ASSUME NEW f \in Fields, UnsetName(f) PROVE ReplyInv'
    <2>1. Change /\ device' = Unnamed(device, f)
      BY <1>11 DEF UnsetName
    <2>2. Body(device') = Body(device)
      BY <1>0, <2>1, BodyKept
    <2>3. Own(device')
      BY <1>0, <1>8, <2>1, OwnUnnamed
    <2> QED BY <1>9, <2>1, <2>2, <2>3
  <1>12. ASSUME NEW name \in NewNames, WithInterface(name) PROVE ReplyInv'
    <2>1. PICK x, intfs, p :
            /\ x = [number |-> Len(device.interfaces), bulk_only |-> FALSE, endpoints |-> <<>>]
            /\ intfs = Append(device.interfaces, x)
            /\ p = With(device.pool, new_string(device.pool), name)
      OBVIOUS
    <2>2. Change /\ Free(device.pool) # {}
          /\ device' = [device EXCEPT !.pool = p, !.interfaces = intfs]
      BY <1>12, <2>1 DEF WithInterface
    <2>3. device.interfaces \in Seq(Interface) /\ Own(device) /\ Plain(device)
      BY <1>8, <2>2
    <2>4. device' = [interfaces |-> intfs, raw |-> device.raw, super |-> device.super,
                     cp210x |-> device.cp210x,
                     configuration_value |-> device.configuration_value,
                     handler |-> device.handler, pool |-> p, index |-> device.index]
      BY <1>0, <2>2 DEF Shaped
    <2>5. /\ device'.interfaces = intfs /\ device'.raw = device.raw
          /\ device'.handler = device.handler
          /\ device'.pool = p /\ device'.index = device.index
      BY <2>4
    <2>6. x \in Interface
      <3>1. Len(device.interfaces) \in Nat /\ <<>> \in Seq(Endpoint)
        BY <2>3
      <3> QED BY <2>1, <3>1 DEF Interface
    <2>7. intfs \in Seq(Interface)
      BY <2>1, <2>3, <2>6
    <2>8. Own(device')
      <3>1. PICK r : r = device'
        OBVIOUS
      <3>2. Own(r)
        BY <1>0, <2>1, <2>2, <2>3, <2>5, <2>6, <3>1, OwnAppended
      <3> QED BY <3>1, <3>2
    <2>9. Plain(device')
      <3>1. PICK n \in Nat : n = Len(device.interfaces)
        BY <2>3
      <3>2. Len(intfs) = n + 1 /\ \A i \in 1..n : intfs[i] = device.interfaces[i]
        BY <2>1, <2>3, <3>1
      <3>3. intfs[n + 1] = x
        BY <2>1, <2>3, <3>1
      <3>4. x.endpoints = <<>>
        BY <2>1
      <3>5. ASSUME NEW i \in 1..(n + 1) PROVE intfs[i].endpoints = <<>>
        <4>1. i \in 1..n \/ i = n + 1
          OBVIOUS
        <4>2. \A k \in 1..n : device.interfaces[k].endpoints = <<>>
          BY <2>3, <3>1 DEF Plain
        <4> QED BY <3>2, <3>3, <3>4, <4>1, <4>2
      <3> QED BY <2>5, <3>2, <3>5 DEF Plain
    <2> QED BY <1>7, <2>2, <2>5, <2>7, <2>8, <2>9
  <1>13. ASSUME NEW s \in Setups, Control(s) PROVE ReplyInv'
    <2>1. DeviceOK'
      BY <1>0, <1>13 DEF Control, DeviceOK
    <2>2. PICK o \in Answers(s) :
            /\ reply' = <<[ask |-> s, outcome |-> o]>>
            /\ phase' = IF o.res = "panic" THEN "dead" ELSE "serve"
            /\ config' = IF s.request = "set_configuration" /\ o.did = "done"
                         THEN s.value ELSE config
      BY <1>13, Zenon DEF Control, Answers
    <2>3. device' = device
      BY <1>13 DEF Control
    <2>4. o \in Answers(s)'
      BY <2>3 DEF Answers
    <2>5. Reply(s, o)'
      BY <2>2 DEF Reply
    <2>6. s.request = "set_configuration" /\ o.did = "done" => config' = s.value
      BY <2>2
    <2>7. ControlReply(s)'
      BY <2>4, <2>5, <2>6 DEF ControlReply
    <2> QED BY <2>1, <2>7 DEF ReplyInv, Replied
  <1>14. ASSUME NEW address \in Addresses, NEW room \in Buffers, Transfer(address, room)
         PROVE  ReplyInv'
    <2>1. DeviceOK'
      BY <1>0, <1>14 DEF Transfer, DeviceOK
    <2>2. PICK o \in TransferOutcomes(EndpointsAt(device, address), room) :
            /\ reply' = <<[ask |-> TransferAsk(address, room), outcome |-> o]>>
            /\ phase' = IF o.res = "panic" THEN "dead" ELSE "serve"
      BY <1>14, Zenon DEF Transfer, TransferAsk
    <2>3. device' = device
      BY <1>14 DEF Transfer
    <2>4. o \in TransferOutcomes(EndpointsAt(device, address), room)'
      BY <2>2, <2>3
    <2>5. TransferAsk(address, room)' = TransferAsk(address, room)
      BY <2>3 DEF TransferAsk
    <2>6. Reply(TransferAsk(address, room), o)'
      BY <2>2, <2>5 DEF Reply
    <2>7. TransferReply(address, room)'
      BY <2>4, <2>6 DEF TransferReply
    <2> QED BY <2>1, <2>7 DEF ReplyInv, Replied
  <1>15. CASE UNCHANGED vars
    <2>1. device' = device /\ host' = host /\ phase' = phase /\ reply' = reply /\ config' = config
      BY <1>15 DEF vars
    <2>2. DeviceOK'
      BY <1>0, <2>1 DEF DeviceOK
    <2>3. ASSUME NEW s \in Setups, ControlReply(s) PROVE ControlReply(s)'
      BY <2>1, <2>3 DEF ControlReply, Answers, Reply
    <2>4. ASSUME NEW address \in Addresses, NEW room \in Buffers, TransferReply(address, room)
          PROVE  TransferReply(address, room)'
      BY <2>1, <2>4 DEF TransferReply, TransferAsk, Reply
    <2>5. Replied'
      BY <1>0, <2>1, <2>3, <2>4 DEF Replied
    <2> QED BY <2>2, <2>5 DEF ReplyInv
  <1> QED
    BY <1>3, <1>4, <1>5, <1>6, <1>10, <1>11, <1>12, <1>13, <1>14, <1>15 DEF Next

(* So it always holds.                                                      *)
LEMMA ReplyHolds == Spec => [](IInv /\ ReplyInv)
  <1> QED BY InitOK, NextOK, InitReply, NextReply, PTL DEF Spec

(* The three kinds of request, and the range of what they ask.              *)
LEMMA SetupFacts ==
  ASSUME NEW s \in Setups
  PROVE  /\ s.index \in Nat /\ s.length \in Nat /\ s.value \in 0..255 /\ s.to \in {0, 1, 2, 17}
         /\ \/ /\ s.request = "get_descriptor" /\ s.dir = "in" /\ s.type = "standard"
               /\ s.to \in {0, 1} /\ s.about \in Descriptors
            \/ /\ s.request = "set_configuration" /\ s.dir = "out" /\ s.type = "standard"
               /\ s.to = 0 /\ s.about = "none"
            \/ /\ s.request \in {"max_lun", "superspeed", "other"} /\ s.dir \in {"in", "out"}
               /\ s.about = "none"
  <1>1. /\ Indexes \subseteq Nat /\ Lengths \subseteq Nat /\ Values \subseteq 0..255
    BY RequestAssumption
  <1>2. CASE s \in Setup({"in"}, {"standard"}, {0, 1}, {"get_descriptor"}, Descriptors, Values)
    BY <1>1, <1>2 DEF Setup
  <1>3. CASE s \in Setup({"out"}, {"standard"}, {0}, {"set_configuration"}, {"none"}, Values)
    BY <1>1, <1>3 DEF Setup
  <1>4. CASE s \in Setup({"in", "out"}, {"standard", "class", "vendor", "reserved"},
                         {0, 1, 2, 17}, {"max_lun", "superspeed", "other"}, {"none"}, {0})
    <2>1. /\ s.index \in Indexes /\ s.length \in Lengths /\ s.value \in {0}
          /\ s.to \in {0, 1, 2, 17} /\ s.request \in {"max_lun", "superspeed", "other"}
          /\ s.dir \in {"in", "out"} /\ s.about \in {"none"}
      BY <1>4 DEF Setup
    <2>2. s.index \in Nat /\ s.length \in Nat
      BY <1>1, <2>1
    <2>3. s.value = 0 /\ s.about = "none"
      BY <2>1
    <2>4. s.value \in 0..255
      BY <2>3
    <2> QED BY <2>1, <2>2, <2>3, <2>4, Zenon
  <1> QED BY <1>2, <1>3, <1>4 DEF Setups

(* Outcomes, field by field.                                                *)
LEMMA OutcomeFields ==
  /\ \A n : Ok(n) = [res |-> "ok", len |-> n, total |-> 0, did |-> "nothing", at |-> None]
  /\ \A w, n : Did(w, n) = [res |-> "ok", len |-> n, total |-> 0, did |-> w, at |-> None]
  /\ Fails = [res |-> "error", len |-> 0, total |-> 0, did |-> "nothing", at |-> None]
  /\ Panics = [res |-> "panic", len |-> 0, total |-> 0, did |-> "nothing", at |-> None]
  /\ \A full, announced, s :
       Descriptor(full, announced, s) =
         [res |-> "ok", len |-> least(full, s.length), total |-> announced,
          did |-> "nothing", at |-> None]
  BY DEF Ok, Did, Fails, Panics, Descriptor

(* What comes of a control transfer at the hardware.                        *)
LEMMA TransportOK ==
  ASSUME NEW s, s.to \in Nat, NEW at, NEW o \in Transport(s, at)
  PROVE  /\ o.res = "panic" => s.type = "reserved" \/ s.to > 3
         /\ o.at \in {at, None} /\ o.total = 0
         /\ o.res = "ok" /\ s.dir = "in" => o.len \in {0, s.length}
         /\ o.res = "ok" /\ s.dir = "out" => o.did = "done" /\ o.len = 0
  <1>1. CASE s.type = "reserved" \/ s.to > 3
    <2>1. o = Panics
      BY <1>1 DEF Transport
    <2> QED BY <1>1, <2>1, OutcomeFields
  <1>2. CASE ~(s.type = "reserved" \/ s.to > 3) /\ s.dir = "in"
    <2>1. PICK p \in {Ok(0), Did("done", 0), Did("done", s.length)} : o = [p EXCEPT !.at = at]
      BY <1>2 DEF Transport
    <2>2. PICK w, n : /\ n \in {0, s.length}
                      /\ p = [res |-> "ok", len |-> n, total |-> 0, did |-> w, at |-> None]
      BY <2>1, OutcomeFields
    <2>3. o = [res |-> "ok", len |-> n, total |-> 0, did |-> w, at |-> at]
      BY <2>1, <2>2
    <2> QED BY <1>2, <2>2, <2>3
  <1>3. CASE ~(s.type = "reserved" \/ s.to > 3) /\ s.dir # "in"
    <2>1. o = [Did("done", 0) EXCEPT !.at = at] \/ o = Fails
      BY <1>3 DEF Transport
    <2>2. [Did("done", 0) EXCEPT !.at = at]
            = [res |-> "ok", len |-> 0, total |-> 0, did |-> "done", at |-> at]
      BY OutcomeFields
    <2> QED BY <1>3, <2>1, <2>2, OutcomeFields
  <1> QED BY <1>1, <1>2, <1>3

(* Who answers a request: the server itself, or the hardware, through one   *)
(* interface or through the first; else there is nobody, and it panics.     *)
ByServer(s, o) ==
  /\ o.res = "ok" /\ o.total = 0 /\ o.at = None
  /\ s.dir = "in" => o.len <= s.length
  /\ s.dir = "out" => /\ o.len = 0
                      /\ handles_superspeed_virtual_request(device, s) \/ ~device.handler
ByDevice(s, o) ==
  /\ should_forward_control_to_device(device, s) \/ (s.to = 0 /\ device.handler)
  /\ o \in handle_urb_for_device(device, s)
ByInterface(s, o) ==
  /\ s.to % 16 = 1 /\ s.index % 256 < Len(device.interfaces)
  /\ o \in Transport(s, device.interfaces[(s.index % 256) + 1].number)
ByNobody(s, o) ==
  /\ o = Panics
  /\ \/ s.to % 16 = 1 /\ ~(s.index % 256 < Len(device.interfaces))
     \/ s.to % 16 # 1 /\ ~(s.to % 16 = 0 /\ device.handler)

(* No request is answered in any other way.                                 *)
LEMMA Routed ==
  ASSUME NEW s \in Setups, NEW o \in Answers(s), s.request # "set_configuration",
         ~(s.request = "get_descriptor" /\ s.to = 0)
  PROVE  ByServer(s, o) \/ ByDevice(s, o) \/ ByInterface(s, o) \/ ByNobody(s, o)
  <1>0. s.index \in Nat /\ s.length \in Nat /\ s.dir \in {"in", "out"}
    BY SetupFacts
  <1>1. ASSUME s.to % 16 = 1, o \in ToInterface(device, s)
        PROVE  ByInterface(s, o) \/ ByNobody(s, o)
    BY <1>1 DEF ToInterface, ByInterface, ByNobody
  <1>2. s.to % 16 = 0 => s.to = 0
    <2>1. s.to \in {0, 1, 2, 17}
      BY SetupFacts
    <2> QED BY <2>1
  <1>3. CASE s.dir = "in"
    <2>1. o \in ControlIn(device, s)
      BY <1>3 DEF Answers
    <2>2. CASE handles_mass_storage_get_max_lun(device, s)
      <3>1. s.length = 1
        BY <2>2 DEF handles_mass_storage_get_max_lun
      <3>2. o = Ok(1)
        BY <2>1, <2>2 DEF ControlIn
      <3> QED BY <1>3, <3>1, <3>2, OutcomeFields DEF ByServer
    <2>3. CASE /\ ~handles_mass_storage_get_max_lun(device, s)
               /\ should_forward_control_to_device(device, s)
      <3>1. o \in handle_urb_for_device(device, s)
        BY <2>1, <2>3 DEF ControlIn
      <3> QED BY <2>3, <3>1 DEF ByDevice
    <2>4. CASE /\ ~handles_mass_storage_get_max_lun(device, s)
               /\ ~should_forward_control_to_device(device, s) /\ s.to % 16 = 1
      <3>1. o \in ToInterface(device, s)
        BY <2>1, <2>4 DEF ControlIn
      <3> QED BY <1>1, <2>4, <3>1
    <2>5. CASE /\ ~handles_mass_storage_get_max_lun(device, s)
               /\ ~should_forward_control_to_device(device, s)
               /\ s.to % 16 # 1 /\ s.to % 16 = 0 /\ device.handler
      <3>1. o \in handle_urb_for_device(device, s)
        BY <2>1, <2>5 DEF ControlIn
      <3> QED BY <1>2, <2>5, <3>1 DEF ByDevice
    <2>6. CASE /\ ~handles_mass_storage_get_max_lun(device, s)
               /\ ~should_forward_control_to_device(device, s)
               /\ s.to % 16 # 1 /\ ~(s.to % 16 = 0 /\ device.handler)
      <3>1. o = Panics
        BY <2>1, <2>6 DEF ControlIn
      <3> QED BY <2>6, <3>1 DEF ByNobody
    <2> QED BY <2>2, <2>3, <2>4, <2>5, <2>6
  <1>4. CASE s.dir # "in"
    <2>0. s.dir = "out" /\ o \in ControlOut(device, s)
      BY <1>0, <1>4 DEF Answers
    <2>1. CASE handles_superspeed_virtual_request(device, s)
      <3>1. o = Ok(0)
        BY <2>0, <2>1 DEF ControlOut
      <3> QED BY <2>0, <2>1, <3>1, OutcomeFields DEF ByServer
    <2>2. CASE /\ ~handles_superspeed_virtual_request(device, s)
               /\ should_forward_control_to_device(device, s)
      <3>1. o \in handle_urb_for_device(device, s)
        BY <2>0, <2>2 DEF ControlOut
      <3> QED BY <2>2, <3>1 DEF ByDevice
    <2>3. CASE /\ ~handles_superspeed_virtual_request(device, s)
               /\ ~should_forward_control_to_device(device, s) /\ s.to % 16 = 1
      <3>1. o \in ToInterface(device, s)
        BY <2>0, <2>3 DEF ControlOut
      <3> QED BY <1>1, <2>3, <3>1
    <2>4. CASE /\ ~handles_superspeed_virtual_request(device, s)
               /\ ~should_forward_control_to_device(device, s)
               /\ s.to % 16 # 1 /\ s.to % 16 = 0
      <3>1. CASE device.handler
        <4>1. o \in handle_urb_for_device(device, s)
          BY <2>0, <2>4, <3>1 DEF ControlOut
        <4> QED BY <1>2, <2>4, <3>1, <4>1 DEF ByDevice
      <3>2. CASE ~device.handler
        <4>1. o = Ok(0)
          BY <2>0, <2>4, <3>2 DEF ControlOut
        <4> QED BY <2>0, <3>2, <4>1, OutcomeFields DEF ByServer
      <3> QED BY <3>1, <3>2
    <2>5. CASE /\ ~handles_superspeed_virtual_request(device, s)
               /\ ~should_forward_control_to_device(device, s)
               /\ s.to % 16 # 1 /\ s.to % 16 # 0
      <3>1. o = Panics
        BY <2>0, <2>5 DEF ControlOut
      <3> QED BY <2>5, <3>1 DEF ByNobody
    <2> QED BY <2>1, <2>2, <2>3, <2>4, <2>5
  <1> QED BY <1>3, <1>4

(* The answer to SET_CONFIGURATION, and to a request for a descriptor.      *)
LEMMA SetConfigurationOK ==
  ASSUME NEW s \in Setups, s.request = "set_configuration", NEW o \in Answers(s)
  PROVE  /\ o.res = "ok" /\ o.total = 0 /\ o.at = None /\ o.len = least(1, s.length)
         /\ device.handler /\ s.value # device.configuration_value => o.did \in {"done", "refused"}
  <1>1. s.dir = "out"
    BY SetupFacts
  <1>2. o \in SetConfiguration(device, s)
    BY <1>1 DEF Answers, ControlOut
  <1>3. PICK w : /\ o = [res |-> "ok", len |-> least(1, s.length), total |-> 0,
                         did |-> w, at |-> None]
                 /\ device.handler /\ s.value # device.configuration_value
                      => w \in {"done", "refused"}
    BY <1>2, OutcomeFields DEF SetConfiguration
  <1> QED BY <1>3

(* A descriptor with what it announces, or none.                            *)
GivesDescriptor(s, o) ==
  \/ o = Ok(0)
  \/ \E full \in Nat : \E announced :
       /\ o = Descriptor(full, announced, s)
       /\ \/ announced = full
          \/ s.about = "configuration" /\ host # None /\ ~Describable
          \/ s.about = "string" /\ TooLong(device.pool[s.value])

(* A string is given whole unless it is too long.                           *)
LEMMA StringOK ==
  ASSUME PoolTyped(device), NEW s \in Setups, s.about = "string",
         NEW o \in StringDescriptor(device, s)
  PROVE  \/ o = Panics /\ s.value \in DOMAIN device.pool /\ TooLong(device.pool[s.value])
         \/ GivesDescriptor(s, o)
  <1>1. CASE s.value = 0
    BY <1>1 DEF StringDescriptor, GivesDescriptor
  <1>2. CASE s.value # 0 /\ s.value \notin DOMAIN device.pool
    BY <1>2 DEF StringDescriptor, GivesDescriptor
  <1>3. CASE s.value # 0 /\ s.value \in DOMAIN device.pool
    <2>1. PICK units : units = Units[device.pool[s.value]]
      OBVIOUS
    <2>2. units \in Nat
      BY <1>3, <2>1, RequestAssumption DEF PoolTyped
    <2>3. TooLong(device.pool[s.value]) <=> units > 126
      BY <2>1 DEF TooLong
    <2>4. PICK full \in Nat : full = 2 + (2 * units)
      BY <2>2
    <2>5. o = Descriptor(full, full % 256, s)
          \/ (o = Panics /\ 2 + (2 * (units % 256)) > 255)
      BY <1>3, <2>1, <2>4 DEF StringDescriptor
    <2>6. CASE units > 126
      BY <1>3, <2>3, <2>4, <2>5, <2>6 DEF GivesDescriptor
    <2>7. CASE ~(units > 126)
      <3>1. units \in 0..126
        BY <2>2, <2>7
      <3>2. units % 256 = units /\ full \in 2..254
        BY <2>4, <3>1
      <3>3. full % 256 = full
        BY <3>2
      <3> QED BY <2>4, <2>5, <3>1, <3>2, <3>3 DEF GivesDescriptor
    <2> QED BY <2>6, <2>7
  <1> QED BY <1>1, <1>2, <1>3

(* A configuration announces its length, stored or synthesized.             *)
LEMMA ConfigurationOK ==
  ASSUME IInv, ReplyInv, phase \in {"serve", "dead"}, NEW s \in Setups, s.about = "configuration"
  PROVE  GivesDescriptor(s, ConfigurationDescriptor(device, s))
  <1>1. DeviceOK /\ PoolTyped(device) /\ s.value \in 0..255
    BY SetupFacts DEF ReplyInv, IInv, StringsOK
  <1>2. CASE s.value < Len(device.raw)
    <2>1. PICK raw : raw = device.raw[s.value + 1]
      OBVIOUS
    <2>2. raw \in Raw
      <3>1. PICK n \in Nat : n = Len(device.raw) /\ \A i \in 1..n : device.raw[i] \in Raw
        BY <1>1 DEF DeviceOK
      <3>2. s.value + 1 \in 1..n
        <4>1. PICK v \in 0..255 : v = s.value
          BY <1>1
        <4>2. v < n
          BY <1>2, <3>1, <4>1
        <4>3. v + 1 \in 1..n
          BY <4>2
        <4> QED BY <4>1, <4>3
      <3> QED BY <2>1, <3>1, <3>2
    <2>3. Len(raw) \in Nat /\ Announced(raw) = Len(raw)
      BY <2>2 DEF Raw
    <2>4. ConfigurationDescriptor(device, s) = Descriptor(Len(raw), Announced(raw), s)
      BY <1>2, <2>1 DEF ConfigurationDescriptor, RawConfiguration
    <2> QED BY <2>3, <2>4 DEF GivesDescriptor
  <1>3. CASE ~(s.value < Len(device.raw))
    <2>1. PICK full \in Nat : full = SynthesizedLength(device)
      BY <1>1, SynthesizedOK DEF DeviceOK
    <2>2. ConfigurationDescriptor(device, s) = Descriptor(full, full % 65536, s)
      BY <1>3, <2>1 DEF ConfigurationDescriptor
    <2>3. CASE host # None /\ ~Describable
      BY <2>2, <2>3 DEF GivesDescriptor
    <2>4. CASE ~(host # None /\ ~Describable)
      <3>1. full < 65536
        <4>1. CASE host # None
          BY <1>1, <2>1, <2>4, <4>1 DEF DeviceOK
        <4>2. CASE host = None
          <5>1. device.interfaces \in Seq(Interface) /\ Own(device) /\ Plain(device)
            BY <1>1, <4>2 DEF DeviceOK
          <5>2. PICK n \in Nat : n = Len(device.interfaces)
            BY <5>1
          <5>3. n <= 255
            BY <1>1, <5>1, <5>2, OwnIsFew DEF PoolTyped
          <5>4. full = 9 + (9 * n)
            BY <2>1, <5>1, <5>2, SynthesizedOK DEF Plain
          <5> QED BY <5>3, <5>4
        <4> QED BY <4>1, <4>2
      <3>2. full % 65536 = full
        BY <3>1
      <3> QED BY <2>2, <3>2 DEF GivesDescriptor
    <2> QED BY <2>3, <2>4
  <1> QED BY <1>2, <1>3

(* So does every descriptor.                                                *)
LEMMA GetDescriptorOK ==
  ASSUME IInv, ReplyInv, phase \in {"serve", "dead"}, NEW s \in Setups,
         s.request = "get_descriptor", s.to = 0, NEW o \in Answers(s)
  PROVE  \/ /\ o = Panics /\ s.about = "string"
            /\ s.value \in DOMAIN device.pool /\ TooLong(device.pool[s.value])
         \/ GivesDescriptor(s, o)
  <1>1. s.dir = "in" /\ s.type = "standard" /\ s.about \in Descriptors
    BY SetupFacts
  <1>2. o \in GetDescriptor(device, s)
    BY <1>1 DEF Answers, ControlIn
  <1>3. PoolTyped(device)
    BY DEF IInv, StringsOK
  <1>4. CASE s.about = "string"
    <2>1. o \in StringDescriptor(device, s)
      BY <1>2, <1>4 DEF GetDescriptor
    <2> QED BY <1>3, <1>4, <2>1, StringOK
  <1>5. CASE s.about = "configuration"
    <2>1. o = ConfigurationDescriptor(device, s)
      BY <1>2, <1>5 DEF GetDescriptor
    <2> QED BY <1>5, <2>1, ConfigurationOK
  <1>6. CASE s.about = "bos"
    <2>1. o = BosDescriptor(device, s)
      BY <1>2, <1>6 DEF GetDescriptor
    <2> QED BY <2>1 DEF BosDescriptor, GivesDescriptor
  <1>7. CASE s.about = "device"
    <2>1. o = Descriptor(18, 18, s)
      BY <1>2, <1>7 DEF GetDescriptor
    <2> QED BY <2>1 DEF GivesDescriptor
  <1>8. CASE s.about = "qualifier"
    <2>1. o = Descriptor(10, 10, s)
      BY <1>2, <1>8 DEF GetDescriptor
    <2> QED BY <2>1 DEF GivesDescriptor
  <1>9. CASE s.about = "unknown"
    <2>1. o = Ok(0)
      BY <1>2, <1>9 DEF GetDescriptor
    <2> QED BY <2>1 DEF GivesDescriptor
  <1> QED BY <1>1, <1>4, <1>5, <1>6, <1>7, <1>8, <1>9 DEF Descriptors

(* What an answer to a request of the control endpoint is.                  *)
LEMMA ControlAnswer ==
  ASSUME IInv, ReplyInv, NEW s \in Setups, ControlReply(s)
  PROVE  \E o \in Answers(s) :
           /\ reply # <<>> /\ reply[1].ask = s /\ reply[1].outcome = o
           /\ phase \in {"serve", "dead"}
           /\ s.request = "set_configuration" /\ o.did = "done" => config = s.value
  <1>1. PICK o \in Answers(s) :
          Reply(s, o) /\ (s.request = "set_configuration" /\ o.did = "done" => config = s.value)
    BY DEF ControlReply
  <1>2. reply # <<>> /\ reply[1].ask = s /\ reply[1].outcome = o /\ phase \in {"serve", "dead"}
    BY <1>1 DEF Reply
  <1> QED BY <1>1, <1>2

(* find_ep: the entry has the address that was asked for.                   *)
LEMMA EndpointsOK ==
  ASSUME NEW d, d.interfaces \in Seq(Interface), NEW address
  PROVE  \/ EndpointsAt(d, address) = <<>>
         \/ \E ep \in Endpoint : EndpointsAt(d, address) = <<ep>> /\ ep.address = address
  <1>1. ASSUME NEW S, S \subseteq Nat, S # {} PROVE Min(S) \in S
    <2>1. \E n \in S : \A m \in S : n <= m
      BY <1>1, LeastNat
    <2> QED BY <2>1 DEF Min
  <1>2. PICK having : having = {i \in 1..Len(d.interfaces) :
                                  PlacesOf(d.interfaces[i].endpoints, address) # {}}
    OBVIOUS
  <1>3. CASE having = {}
    BY <1>2, <1>3 DEF EndpointsAt
  <1>4. CASE having # {}
    <2>1. Min(having) \in having
      <3>1. having \subseteq Nat
        BY <1>2
      <3> QED BY <1>1, <1>4, <3>1
    <2>2. PICK i : i = Min(having)
      OBVIOUS
    <2>3. PICK eps : eps = d.interfaces[i].endpoints
      OBVIOUS
    <2>4. eps \in Seq(Endpoint) /\ PlacesOf(eps, address) # {}
      <3>1. i \in 1..Len(d.interfaces) /\ PlacesOf(eps, address) # {}
        BY <1>2, <2>1, <2>2, <2>3
      <3>2. d.interfaces[i] \in Interface
        BY <3>1
      <3> QED BY <2>3, <3>1, <3>2 DEF Interface
    <2>5. Min(PlacesOf(eps, address)) \in PlacesOf(eps, address)
      <3>1. PlacesOf(eps, address) \subseteq Nat
        BY DEF PlacesOf
      <3> QED BY <1>1, <2>4, <3>1
    <2>6. PICK ep : ep = eps[Min(PlacesOf(eps, address))]
      OBVIOUS
    <2>7. ep \in Endpoint /\ ep.address = address
      BY <2>4, <2>5, <2>6 DEF PlacesOf
    <2>8. EndpointsAt(d, address) = <<ep>>
      BY <1>2, <1>4, <2>2, <2>3, <2>6 DEF EndpointsAt
    <2> QED BY <2>7, <2>8
  <1> QED BY <1>3, <1>4

(* Whole packets that fill the room are as long as the room.                *)
LEMMA WholePackets ==
  ASSUME NEW room \in Nat, NEW size \in Nat \ {0}, room # 0, room % size = 0
  PROVE  Packets(room, size) * size = room
  <1>1. PICK k \in Nat : room = k * size
    <2>1. room = ((room \div size) * size) + (room % size) /\ room \div size \in Nat
      OBVIOUS
    <2>2. PICK q \in Nat : q = room \div size
      BY <2>1
    <2>3. room = (q * size) + (room % size)
      BY <2>1, <2>2
    <2>4. q * size \in Nat
      OBVIOUS
    <2>5. room = q * size
      BY <2>3, <2>4
    <2> QED BY <2>5
  <1>2. k # 0
    BY <1>1
  <1>3. PICK j \in Nat : k = j + 1
    BY <1>2
  <1>4. room - 1 = (j * size) + (size - 1)
    BY <1>1, <1>3
  <1>5. (room - 1) \div size = j
    BY <1>4
  <1> QED BY <1>1, <1>3, <1>5 DEF Packets

(* What an answer to another transfer is.                                   *)
LEMMA TransferAnswer ==
  ASSUME ReplyInv, NEW address, NEW room \in Nat, TransferReply(address, room)
  PROVE  LET s == reply[1].ask
             o == reply[1].outcome IN
         /\ reply # <<>> /\ s.request = "transfer" /\ s.length = room
         /\ s.dir = IF address >= 128 THEN "in" ELSE "out"
         /\ o.total = 0
         /\ o.res = "ok" =>
              \E ep \in Endpoint :
                /\ s.to = <<ep>> /\ ep.address = address
                /\ s.dir = "in" => \/ o.len \in {0, room}
                                   \/ /\ ep.attributes = "bulk"
                                      /\ o.len = Packets(room, ep.max_packet_size) * ep.max_packet_size
                /\ s.dir = "out" => /\ o.len = 0
                                    /\ ep.attributes = "isochronous" \/ o.did \in {"done", "repeated"}
  <1>1. PICK eps : eps = EndpointsAt(device, address)
    OBVIOUS
  <1>2. PICK o \in TransferOutcomes(eps, room) : Reply(TransferAsk(address, room), o)
    BY <1>1 DEF TransferReply
  <1>3. PICK s : s = TransferAsk(address, room)
    OBVIOUS
  <1>4. /\ s.request = "transfer" /\ s.length = room /\ s.to = eps
        /\ s.dir = IF address >= 128 THEN "in" ELSE "out"
    BY <1>1, <1>3 DEF TransferAsk
  <1>5. reply # <<>> /\ reply[1].ask = s /\ reply[1].outcome = o
    BY <1>2, <1>3 DEF Reply
  <1>6. CASE eps = <<>>
    <2>1. o = Fails
      BY <1>2, <1>6 DEF TransferOutcomes
    <2> QED BY <1>4, <1>5, <2>1, OutcomeFields
  <1>7. CASE eps # <<>>
    <2>1. PICK ep \in Endpoint : eps = <<ep>> /\ ep.address = address
      BY <1>1, <1>7, EndpointsOK DEF ReplyInv, DeviceOK
    <2>2. Head(eps) = ep
      BY <2>1
    <2>3. ep.attributes \in {"bulk", "interrupt", "isochronous"}
      BY DEF Endpoint
    <2>4. PICK more : more = Packets(room, ep.max_packet_size) * ep.max_packet_size
      OBVIOUS
    <2>5. SUFFICES /\ o.total = 0
                   /\ o.res = "ok" =>
                        /\ s.dir = "in" => \/ o.len \in {0, room}
                                           \/ ep.attributes = "bulk" /\ o.len = more
                        /\ s.dir = "out" =>
                             /\ o.len = 0
                             /\ \/ ep.attributes = "isochronous"
                                \/ o.did \in {"done", "repeated"}
      BY <1>4, <1>5, <2>1, <2>4
    <2>6. CASE ep.attributes = "interrupt"
      <3>1. o \in IF ep.address >= 128 THEN InterruptIn(room) ELSE InterruptOut
        BY <1>2, <1>7, <2>2, <2>6 DEF TransferOutcomes
      <3>2. CASE address >= 128
        <4>1. o \in {Did("done", room), Ok(0), Fails}
          BY <2>1, <3>1, <3>2 DEF InterruptIn
        <4> QED BY <1>4, <3>2, <4>1, OutcomeFields
      <3>3. CASE ~(address >= 128)
        <4>1. o \in {Did("done", 0), Fails}
          BY <2>1, <3>1, <3>3 DEF InterruptOut
        <4> QED BY <1>4, <3>3, <4>1, OutcomeFields
      <3> QED BY <3>2, <3>3
    <2>7. CASE ep.attributes = "bulk"
      <3>1. o \in IF ep.address >= 128 THEN BulkIn(room, ep.max_packet_size) ELSE BulkOut
        BY <1>2, <1>7, <2>2, <2>7 DEF TransferOutcomes
      <3>2. CASE address >= 128
        <4>1. o \in BulkIn(room, ep.max_packet_size)
          BY <2>1, <3>1, <3>2
        <4>2. o \in {Did("done", 0), Did("done", room), Did("done", more), Ok(0), Fails, Panics}
          BY <2>4, <4>1 DEF BulkIn
        <4> QED BY <1>4, <2>7, <3>2, <4>2, OutcomeFields
      <3>3. CASE ~(address >= 128)
        <4>1. o \in {Did("done", 0), Did("repeated", 0), Fails}
          BY <2>1, <3>1, <3>3 DEF BulkOut
        <4> QED BY <1>4, <3>3, <4>1, OutcomeFields
      <3> QED BY <3>2, <3>3
    <2>8. CASE ep.attributes = "isochronous"
      <3>1. o = Ok(0)
        BY <1>2, <1>7, <2>2, <2>8 DEF TransferOutcomes
      <3> QED BY <1>4, <2>8, <3>1, OutcomeFields
    <2> QED BY <2>3, <2>6, <2>7, <2>8
  <1> QED BY <1>6, <1>7

(* A waiting answer is one to a request of either kind.                     *)
LEMMA AnswerKinds ==
  ASSUME ReplyInv, reply # <<>>
  PROVE  \/ \E s \in Setups : ControlReply(s)
         \/ \E address, room \in Nat : TransferReply(address, room)
  <1>1. ASSUME NEW address \in Addresses, NEW room \in Buffers, TransferReply(address, room)
        PROVE  \E a, r \in Nat : TransferReply(a, r)
    <2>1. room \in Nat
      BY RequestAssumption
    <2>2. address \in Nat
      <3>1. CASE address = 3
        BY <3>1
      <3>2. CASE address # 3
        <4>1. PICK h \in Hosts : \E intf \in ToSet(h.interfaces) :
                                   \E ep \in ToSet(intf.endpoints) : address = ep.address
          BY <3>2 DEF Addresses
        <4>2. PICK intf \in ToSet(h.interfaces) :
                \E ep \in ToSet(intf.endpoints) : address = ep.address
          BY <4>1
        <4>3. intf \in Interface
          BY HostFacts, <4>2 DEF ToSet
        <4>4. PICK ep \in ToSet(intf.endpoints) : address = ep.address
          BY <4>2
        <4>5. intf.endpoints \in Seq(Endpoint)
          BY <4>3 DEF Interface
        <4>6. ep \in Endpoint
          BY <4>4, <4>5 DEF ToSet
        <4>7. ep.address \in 0..255
          BY <4>6 DEF Endpoint
        <4>8. 0..255 \subseteq Nat
          OBVIOUS
        <4> QED BY <4>4, <4>7, <4>8
      <3> QED BY <3>1, <3>2
    <2> QED BY <1>1, <2>1, <2>2
  <1> QED BY <1>1 DEF ReplyInv, Replied

(* RequestsServed, from who answers a request.                              *)
LEMMA ServedImplied ==
  ASSUME IInv, ReplyInv
  PROVE  RequestsServed
  <1> SUFFICES ASSUME reply # <<>>
               PROVE  LET s == reply[1].ask IN
                      /\ Enumeration(s) => ~Answered("panic")
                      /\ Complete /\ Regular(s) /\ s.request # "get_descriptor" =>
                           /\ ~Answered("panic")
                           /\ s.to = 1 /\ reply[1].outcome.at # None
                                /\ ~should_forward_control_to_device(device, s)
                              => reply[1].outcome.at = s.index % 256
    BY DEF RequestsServed
  <1>1. CASE \E address, room \in Nat : TransferReply(address, room)
    <2>1. reply[1].ask.request = "transfer"
      BY <1>1, TransferAnswer
    <2> QED BY <2>1 DEF Enumeration, Regular
  <1>2. CASE \E s \in Setups : ControlReply(s)
    <2>1. PICK s \in Setups : ControlReply(s)
      BY <1>2
    <2>2. PICK o \in Answers(s) : /\ reply[1].ask = s /\ reply[1].outcome = o
                                  /\ phase \in {"serve", "dead"}
      BY <2>1, ControlAnswer
    <2>3. Answered("panic") <=> o.res = "panic"
      BY <2>2 DEF Answered
    <2>4. Enumeration(s) => o.res # "panic"
      <3>1. CASE s.request = "set_configuration"
        BY <3>1, SetConfigurationOK
      <3>2. CASE s.request = "get_descriptor" /\ s.to = 0
        <4>1. \/ /\ o = Panics /\ s.about = "string"
                 /\ s.value \in DOMAIN device.pool /\ TooLong(device.pool[s.value])
              \/ GivesDescriptor(s, o)
          BY <2>2, <3>2, GetDescriptorOK
        <4>2. GivesDescriptor(s, o) => o.res = "ok"
          BY OutcomeFields DEF GivesDescriptor
        <4> QED BY <4>1, <4>2 DEF Enumeration
      <3> QED BY <3>1, <3>2 DEF Enumeration
    <2>5. ASSUME Complete, Regular(s), s.request # "get_descriptor"
          PROVE  /\ o.res # "panic"
                 /\ s.to = 1 /\ o.at # None /\ ~should_forward_control_to_device(device, s)
                      => o.at = s.index % 256
      <3>1. /\ host \in Hosts /\ host # None /\ device.handler
            /\ device.interfaces = host.interfaces
            /\ \A i \in 1..Len(device.interfaces) : device.interfaces[i].number = i - 1
        BY <2>5 DEF Complete, ReplyInv, DeviceOK, IInv, RestOK
      <3>2. s.to \in {0, 1} /\ s.type # "reserved"
            /\ (s.to = 1 => s.index % 256 < Len(device.interfaces))
        BY <2>5, <3>1 DEF Regular
      <3>3. CASE s.request = "set_configuration"
        BY <3>3, SetConfigurationOK
      <3>4. CASE s.request # "set_configuration"
        <4>1. ByServer(s, o) \/ ByDevice(s, o) \/ ByInterface(s, o) \/ ByNobody(s, o)
          BY <2>5, <3>4, Routed
        <4>2. CASE ByServer(s, o)
          BY <4>2 DEF ByServer
        <4>3. CASE ByDevice(s, o)
          <5>1. PICK at : o \in Transport(s, at)
            BY <4>3 DEF ByDevice, handle_urb_for_device
          <5>2. o.res # "panic"
            BY <3>2, <5>1, TransportOK
          <5>3. s.to = 1 => should_forward_control_to_device(device, s)
            BY <4>3 DEF ByDevice
          <5> QED BY <5>2, <5>3
        <4>4. CASE ByInterface(s, o)
          <5>1. PICK i : i = s.index % 256
            OBVIOUS
          <5>2. i \in Nat /\ i < Len(device.interfaces)
            <6>1. s.index \in Nat
              BY SetupFacts
            <6> QED BY <4>4, <5>1, <6>1 DEF ByInterface
          <5>3. PICK n \in Nat : n = Len(device.interfaces)
            BY DEF ReplyInv, DeviceOK
          <5>4. i + 1 \in 1..n
            BY <5>2, <5>3
          <5>5. device.interfaces[i + 1].number = i
            BY <3>1, <5>2, <5>3, <5>4
          <5>6. o \in Transport(s, i)
            BY <4>4, <5>1, <5>5 DEF ByInterface
          <5> QED BY <3>2, <5>1, <5>6, TransportOK
        <4>5. ~ByNobody(s, o)
          <5>1. CASE s.to = 0
            <6>1. s.to % 16 = 0
              BY <5>1
            <6> QED BY <3>1, <6>1 DEF ByNobody
          <5>2. CASE s.to = 1
            <6>1. s.to % 16 = 1
              BY <5>2
            <6> QED BY <3>2, <5>2, <6>1 DEF ByNobody
          <5> QED BY <3>2, <5>1, <5>2
        <4> QED BY <4>1, <4>2, <4>3, <4>4, <4>5
      <3> QED BY <3>3, <3>4
    <2> QED BY <2>2, <2>3, <2>4, <2>5
  <1> QED BY <1>1, <1>2, AnswerKinds

(* RepliesFit, from what each of them gives.                                *)
LEMMA FitImplied ==
  ASSUME IInv, ReplyInv, Describable
  PROVE  RepliesFit
  <1> SUFFICES ASSUME Answered("ok")
               PROVE
                 LET s == reply[1].ask
                     o == reply[1].outcome IN
                 /\ s.dir = "in" =>
                      \/ o.len <= s.length
                      \/ /\ s.request = "transfer" /\ Head(s.to).attributes = "bulk"
                         /\ s.length = 0 \/ s.length % Head(s.to).max_packet_size # 0
                 /\ o.total > 0 => \/ o.len = least(o.total, s.length)
                                   \/ s.about = "string" /\ TooLong(device.pool[s.value])
                 /\ s.dir = "out" /\ s.length = 0 => o.len = 0
    BY DEF RepliesFit
  <1>0. reply # <<>> /\ reply[1].outcome.res = "ok"
    BY DEF Answered
  <1>1. CASE \E address, room \in Nat : TransferReply(address, room)
    <2>1. PICK address \in Nat, room \in Nat : TransferReply(address, room)
      BY <1>1
    <2>2. PICK s, o : s = reply[1].ask /\ o = reply[1].outcome
      OBVIOUS
    <2>3. o.total = 0 /\ s.request = "transfer" /\ s.length = room
      BY <2>1, <2>2, TransferAnswer
    <2>4. PICK ep \in Endpoint :
            /\ s.to = <<ep>>
            /\ s.dir = "in" => \/ o.len \in {0, room}
                               \/ /\ ep.attributes = "bulk"
                                  /\ o.len = Packets(room, ep.max_packet_size) * ep.max_packet_size
            /\ s.dir = "out" => o.len = 0
      BY <1>0, <2>1, <2>2, TransferAnswer
    <2>5. Head(s.to) = ep /\ ep.max_packet_size \in Nat \ {0}
      BY <2>4 DEF Endpoint
    <2>6. ASSUME s.dir = "in"
          PROVE  \/ o.len <= room
                 \/ /\ ep.attributes = "bulk"
                    /\ room = 0 \/ room % ep.max_packet_size # 0
      <3>1. CASE o.len \in {0, room}
        BY <3>1
      <3>2. CASE /\ ep.attributes = "bulk" /\ room # 0 /\ room % ep.max_packet_size = 0
                 /\ o.len = Packets(room, ep.max_packet_size) * ep.max_packet_size
        <4>1. o.len = room
          BY <2>5, <3>2, WholePackets
        <4> QED BY <4>1
      <3> QED BY <2>4, <2>6, <3>1, <3>2
    <2> QED BY <2>2, <2>3, <2>4, <2>5, <2>6
  <1>2. CASE \E s \in Setups : ControlReply(s)
    <2>1. PICK s \in Setups : ControlReply(s)
      BY <1>2
    <2>2. PICK o \in Answers(s) : /\ reply[1].ask = s /\ reply[1].outcome = o
                                  /\ phase \in {"serve", "dead"}
      BY <2>1, ControlAnswer
    <2>3. o.res = "ok" /\ s.length \in Nat /\ s.dir \in {"in", "out"}
      BY <1>0, <2>2, SetupFacts
    <2>4. SUFFICES /\ s.dir = "in" => o.len <= s.length
                   /\ o.total > 0 => \/ o.len = least(o.total, s.length)
                                     \/ s.about = "string" /\ TooLong(device.pool[s.value])
                   /\ s.dir = "out" /\ s.length = 0 => o.len = 0
      BY <2>2
    <2>5. CASE s.request = "set_configuration"
      <3>1. s.dir = "out" /\ o.total = 0 /\ o.len = least(1, s.length)
        BY <2>5, SetConfigurationOK, SetupFacts
      <3> QED BY <3>1 DEF least
    <2>6. CASE s.request = "get_descriptor" /\ s.to = 0
      <3>1. s.dir = "in"
        BY <2>6, SetupFacts
      <3>2. GivesDescriptor(s, o)
        <4>1. o # Panics
          BY <2>3, OutcomeFields
        <4> QED BY <2>2, <2>6, <4>1, GetDescriptorOK
      <3>3. CASE o = Ok(0)
        BY <2>3, <3>1, <3>3, OutcomeFields
      <3>4. CASE o # Ok(0)
        <4>1. PICK full \in Nat : \E announced :
                /\ o = Descriptor(full, announced, s)
                /\ announced = full \/ (s.about = "string" /\ TooLong(device.pool[s.value]))
          BY <3>2, <3>4 DEF GivesDescriptor
        <4>2. PICK announced :
                /\ o = Descriptor(full, announced, s)
                /\ announced = full \/ (s.about = "string" /\ TooLong(device.pool[s.value]))
          BY <4>1
        <4>3. o.len = least(full, s.length) /\ o.total = announced
          BY <4>2, OutcomeFields
        <4>4. least(full, s.length) <= s.length
          BY <2>3 DEF least
        <4> QED BY <3>1, <4>2, <4>3, <4>4
      <3> QED BY <3>3, <3>4
    <2>7. CASE s.request # "set_configuration" /\ ~(s.request = "get_descriptor" /\ s.to = 0)
      <3>1. ByServer(s, o) \/ ByDevice(s, o) \/ ByInterface(s, o) \/ ByNobody(s, o)
        BY <2>7, Routed
      <3>2. CASE ByServer(s, o)
        BY <3>2 DEF ByServer
      <3>3. CASE ByDevice(s, o) \/ ByInterface(s, o)
        <4>1. PICK at : o \in Transport(s, at)
          BY <3>3 DEF ByDevice, ByInterface, handle_urb_for_device
        <4>2. s.to \in Nat
          BY SetupFacts
        <4>3. /\ s.dir = "in" => o.len \in {0, s.length}
              /\ s.dir = "out" => o.len = 0
          BY <2>3, <4>1, <4>2, TransportOK
        <4>4. o.total = 0
          BY <4>1, <4>2, TransportOK
        <4> QED BY <2>3, <4>3, <4>4
      <3>4. ~ByNobody(s, o)
        BY <2>3, OutcomeFields DEF ByNobody
      <3> QED BY <3>1, <3>2, <3>3, <3>4
    <2> QED BY <2>5, <2>6, <2>7
  <1> QED BY <1>0, <1>1, <1>2, AnswerKinds

(* AcksAreTrue, from the same.                                              *)
LEMMA AcksImplied ==
  ASSUME IInv, ReplyInv
  PROVE  AcksAreTrue
  <1> SUFFICES ASSUME Answered("ok"), reply[1].ask.dir = "out", device.handler,
                      ~(reply[1].ask.request = "superspeed"
                        /\ handles_superspeed_virtual_request(device, reply[1].ask))
               PROVE
                 LET s == reply[1].ask
                     o == reply[1].outcome IN
                 CASE s.request = "set_configuration" ->
                        o.did = "refused" \/ s.value \in {config, device.configuration_value}
                   [] s.request = "transfer" ->
                        \/ Head(s.to).attributes = "isochronous"
                        \/ o.did \in {"done", "repeated"}
                   [] OTHER -> o.did = "done"
    BY DEF AcksAreTrue
  <1>0. reply # <<>> /\ reply[1].outcome.res = "ok"
    BY DEF Answered
  <1>1. CASE \E address, room \in Nat : TransferReply(address, room)
    <2>1. PICK address \in Nat, room \in Nat : TransferReply(address, room)
      BY <1>1
    <2>2. PICK s, o : s = reply[1].ask /\ o = reply[1].outcome
      OBVIOUS
    <2>3. s.request = "transfer"
      BY <2>1, <2>2, TransferAnswer
    <2>4. PICK ep \in Endpoint : /\ s.to = <<ep>>
                                 /\ ep.attributes = "isochronous" \/ o.did \in {"done", "repeated"}
      BY <1>0, <2>1, <2>2, TransferAnswer
    <2>5. Head(s.to) = ep
      BY <2>4
    <2> QED BY <2>2, <2>3, <2>4, <2>5
  <1>2. CASE \E s \in Setups : ControlReply(s)
    <2>1. PICK s \in Setups : ControlReply(s)
      BY <1>2
    <2>2. PICK o \in Answers(s) :
            /\ reply[1].ask = s /\ reply[1].outcome = o
            /\ s.request = "set_configuration" /\ o.did = "done" => config = s.value
      BY <2>1, ControlAnswer
    <2>3. o.res = "ok" /\ s.dir = "out" /\ s.request # "get_descriptor" /\ s.request # "transfer"
      BY <1>0, <2>2, SetupFacts
    <2>4. CASE s.request = "set_configuration"
      <3>1. s.value # device.configuration_value => o.did \in {"done", "refused"}
        BY <2>4, SetConfigurationOK
      <3> QED BY <2>2, <2>4, <3>1
    <2>5. CASE s.request # "set_configuration"
      <3>1. ByServer(s, o) \/ ByDevice(s, o) \/ ByInterface(s, o) \/ ByNobody(s, o)
        BY <2>3, <2>5, Routed
      <3>2. CASE ByServer(s, o)
        <4>1. handles_superspeed_virtual_request(device, s)
          BY <2>3, <3>2 DEF ByServer
        <4> QED BY <2>2, <4>1 DEF handles_superspeed_virtual_request
      <3>3. CASE ByDevice(s, o) \/ ByInterface(s, o)
        <4>1. PICK at : o \in Transport(s, at)
          BY <3>3 DEF ByDevice, ByInterface, handle_urb_for_device
        <4>2. s.to \in Nat
          BY SetupFacts
        <4>3. o.did = "done"
          BY <2>3, <4>1, <4>2, TransportOK
        <4> QED BY <2>2, <2>3, <2>5, <4>3
      <3>4. ~ByNobody(s, o)
        BY <2>3, OutcomeFields DEF ByNobody
      <3> QED BY <3>1, <3>2, <3>3, <3>4
    <2> QED BY <2>4, <2>5
  <1> QED BY <1>0, <1>1, <1>2, AnswerKinds

(* No request of an enumeration ends the connection, and what is asked of   *)
(* the device or of an interface is carried out, through that interface:    *)
(* for every host device and every choice of claimed interfaces.            *)
THEOREM Served == Spec => []RequestsServed
  <1> QED BY ReplyHolds, ServedImplied, PTL

(* Success of an OUT request means that the hardware did it.                *)
THEOREM AcksTrue == Spec => []AcksAreTrue
  <1> QED BY ReplyHolds, AcksImplied, PTL

(* An answer is no longer than was asked for, and a descriptor is cut off   *)
(* there and nowhere else, if the configuration of every host device can be *)
(* announced in the 16 bits that there are for it.                          *)
THEOREM Fits ==
  ASSUME Describable
  PROVE  Spec => []RepliesFit
  <1>1. IInv /\ ReplyInv => RepliesFit
    BY FitImplied
  <1> QED BY <1>1, ReplyHolds, PTL
=============================================================================
