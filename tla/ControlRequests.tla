---------------------------- MODULE ControlRequests ----------------------------
(***************************************************************************)
(* One device of the server and the requests it gets: how it is opened      *)
(* (with_nusb_devices) or built (UsbDevice::new and its setters), what      *)
(* handle_urb does with a control request or with a transfer that no bulk   *)
(* worker takes, and what host.rs makes of it at the hardware.  Descriptors *)
(* are represented by their length and the length they announce.  Build     *)
(* target is Linux.                                                         *)
(***************************************************************************)
EXTENDS Naturals, Sequences, FiniteSets, SequencesExt, Lists

CONSTANTS
  Hosts,         \* USB devices of the host, see Host
  Names, Units,  \* strings, and their length in UTF-16 units
  NewNames,      \* those that the setters are given
  Values, Indexes, Lengths,  \* wValue (low byte), wIndex, wLength asked for
  Buffers,       \* transfer_buffer_length of the other transfers
  None,
  MaxChanges     \* bound: setter calls on one device

Fields == {"configuration", "manufacturer", "product", "serial"}
Endpoint == [address : 0..255, max_packet_size : Nat \ {0},
             attributes : {"bulk", "interrupt", "isochronous"}]
HostInterface == [number : 0..255, bulk_only : BOOLEAN, endpoints : Seq(Endpoint)]
Host == [super : BOOLEAN, cp210x : BOOLEAN, configuration : 0..255,
         interfaces : Seq(HostInterface), descriptors : Seq(0..255),
         strings : SUBSET (Fields \ {"configuration"})]

ASSUME RequestAssumption ==
  /\ Hosts \subseteq Host /\ None \notin Hosts /\ None \notin Names /\ None \notin Nat
  /\ Fields \cup NewNames \subseteq Names /\ Units \in [Names -> Nat]
  /\ Values \subseteq 0..255 /\ Indexes \subseteq Nat
  /\ Lengths \subseteq Nat /\ Buffers \subseteq Nat
  /\ MaxChanges \in Nat

VARIABLES
  phase,   \* "off", "build", "serve", or "dead" after a panic
  host,    \* the hardware behind the device, None for a simulated one
  device,  \* UsbDevice
  config,  \* the configuration the hardware is in
  reply,   \* the request that was handled and its outcome, until it is written
  names,   \* history: what each field was set to last
  changes  \* bounded counter, see MaxChanges

vars == <<phase, host, device, config, reply, names, changes>>

least(i, j) == IF i < j THEN i ELSE j

-----------------------------------------------------------------------------
(* Strings: a pool of numbered strings, and the number of each field. *)

StringIndexes == 1..255
NoStrings == [i \in {} |-> None]
Free(pool) == StringIndexes \ DOMAIN pool
With(pool, i, name) == [j \in DOMAIN pool \cup {i} |-> IF j = i THEN name ELSE pool[j]]
Drop(pool, i) == [j \in DOMAIN pool \ {i} |-> pool[j]]

(* A plausible bug: numbers count from 0.                                   *)
new_string_Zero(pool) == IF 0 \in DOMAIN pool THEN 1 ELSE 0

(* A plausible bug: the number after the last one, whatever was removed.    *)
new_string_Append(pool) == Cardinality(DOMAIN pool) + 1

(* new_string: the lowest number that is free. *)
new_string(pool) == CHOOSE i \in Free(pool) : \A j \in Free(pool) : i <= j

Renamed(d, f, name) ==
  LET i == new_string(d.pool) IN
  [d EXCEPT !.pool = With(@, i, name), !.index[f] = i]

(* A field that has a number gives it up, and its string with it. *)
Unnamed(d, f) ==
  [d EXCEPT !.pool = IF d.index[f] # 0 THEN Drop(@, d.index[f]) ELSE @,
            !.index[f] = 0]

-----------------------------------------------------------------------------
(* Opening a host device. *)

(* extract_configuration_descriptors: walk the file by descriptor lengths   *)
(* and cut out each configuration with all that belongs to it.              *)
ConfigurationAt(file, offset) ==
  LET length == file[offset + 1]
      total == file[offset + 3] + (256 * file[offset + 4])
  IN IF file[offset + 2] = 2 /\ length >= 9 /\ total >= length
          /\ offset + total <= Len(file)
     THEN total ELSE 0

extract_configuration_descriptors(file) ==
  LET from[offset \in 0..Len(file)] ==
        IF offset + 2 > Len(file) THEN <<>>
        ELSE LET length == file[offset + 1] IN
             IF length < 2 \/ offset + length > Len(file) THEN <<>>
             ELSE LET total == ConfigurationAt(file, offset) IN
                  IF total > 0
                  THEN <<SubSeq(file, offset + 1, offset + total)>> \o from[offset + total]
                  ELSE from[offset + length]
  IN from[0]

(* with_nusb_devices: the interfaces that could be claimed and described,   *)
(* in order and without gaps; the strings that the host knows.              *)
Opened(h, claimed, readable) ==
  LET bare ==
        [interfaces |-> Retain(h.interfaces, claimed),
         raw |-> IF readable THEN extract_configuration_descriptors(h.descriptors)
                 ELSE <<>>,
         super |-> h.super, cp210x |-> h.cp210x,
         configuration_value |-> h.configuration, handler |-> TRUE,
         pool |-> NoStrings, index |-> [f \in Fields |-> 0]]
      Known(d, f) == IF f \in h.strings THEN Renamed(d, f, f) ELSE d
  IN Known(Known(Known(bare, "manufacturer"), "product"), "serial")

Open(h) ==
  /\ phase = "off"
  /\ \E claimed \in SUBSET ToSet(h.interfaces) \ {{}}, readable \in BOOLEAN :
       device' = Opened(h, claimed, readable)
  /\ phase' = "serve" /\ host' = h /\ config' = h.configuration
  /\ names' = [f \in Fields |-> IF f \in h.strings THEN f ELSE None]
  /\ UNCHANGED <<reply, changes>>

(* UsbDevice::new: a simulated device, with a default string in each field. *)
Default ==
  LET bare == [interfaces |-> <<>>, raw |-> <<>>, super |-> FALSE, cp210x |-> FALSE,
               configuration_value |-> 1, handler |-> FALSE,
               pool |-> NoStrings, index |-> [f \in Fields |-> 0]]
      Given(d, f) == Renamed(d, f, f)
  IN Given(Given(Given(Given(bare, "configuration"), "manufacturer"), "product"), "serial")

New ==
  /\ phase = "off"
  /\ device' = Default /\ phase' = "build" /\ config' = 1
  /\ names' = [f \in Fields |-> f]
  /\ UNCHANGED <<host, reply, changes>>

Change ==
  /\ phase = "build" /\ changes < MaxChanges /\ changes' = changes + 1
  /\ UNCHANGED <<phase, host, config, reply>>

(* set_configuration_name, set_manufacturer_name, ...: the old string is    *)
(* removed before the new one gets a number.  A full pool is left out.       *)
SetName(f, name) ==
  /\ Change
  /\ Free(Unnamed(device, f).pool) # {}
  /\ device' = Renamed(Unnamed(device, f), f, name)
  /\ names' = [names EXCEPT ![f] = name]

UnsetName(f) ==
  /\ Change
  /\ device' = Unnamed(device, f)
  /\ names' = [names EXCEPT ![f] = None]

(* with_interface, with a name: its string is never removed. *)
WithInterface(name) ==
  /\ Change /\ Free(device.pool) # {}
  /\ device' = [device EXCEPT
       !.pool = With(@, new_string(device.pool), name),
       !.interfaces = Append(@, [number |-> Len(@), bulk_only |-> FALSE,
                                 endpoints |-> <<>>])]
  /\ UNCHANGED names

Export ==
  /\ phase = "build" /\ phase' = "serve"
  /\ UNCHANGED <<host, device, config, reply, names, changes>>

-----------------------------------------------------------------------------
(* Requests.  type, to (the recipient) and dir make up bmRequestType; about *)
(* and value are the high and the low byte of wValue.                       *)

Descriptors == {"device", "bos", "configuration", "string", "qualifier", "unknown"}
Setup(dirs, types, tos, requests, abouts, values) ==
  [dir : dirs, type : types, to : tos, request : requests, about : abouts,
   value : values, index : Indexes, length : Lengths]
Setups ==
  Setup({"in"}, {"standard"}, {0, 1}, {"get_descriptor"}, Descriptors, Values)
  \cup Setup({"out"}, {"standard"}, {0}, {"set_configuration"}, {"none"}, Values)
  \cup Setup({"in", "out"}, {"standard", "class", "vendor", "reserved"},
             {0, 1, 2, 17}, {"max_lun", "superspeed", "other"}, {"none"}, {0})

(* Outcomes.  total: the length that the descriptor announces, 0 if it is   *)
(* none; did: what happened at the hardware; at: through which interface.   *)
Ok(len) == [res |-> "ok", len |-> len, total |-> 0, did |-> "nothing", at |-> None]
Did(what, len) == [Ok(len) EXCEPT !.did = what]
Fails == [Ok(0) EXCEPT !.res = "error"]
Panics == [Ok(0) EXCEPT !.res = "panic"]

(* A descriptor, cut off at wLength. *)
Descriptor(full, announced, s) ==
  [Ok(least(full, s.length)) EXCEPT !.total = announced]

BosDescriptor(d, s) ==
  LET full == IF d.super THEN 22 ELSE 5 IN Descriptor(full, full, s)

(* What each interface and each of its endpoints adds to nine bytes. *)
SynthesizedLength(d) ==
  LET endpoint == IF d.super THEN 7 + 6 ELSE 7
      length[n \in 0..Len(d.interfaces)] ==
        IF n = 0 THEN 9
        ELSE length[n - 1] + 9 + (endpoint * Len(d.interfaces[n].endpoints))
  IN length[Len(d.interfaces)]

Announced(raw) == raw[3] + (256 * raw[4])

(* A plausible bug: the stored descriptor is sent whole. *)
RawConfiguration_Whole(raw, s) == [Ok(Len(raw)) EXCEPT !.total = Announced(raw)]

(* raw_configuration_descriptor *)
RawConfiguration(raw, s) == Descriptor(Len(raw), Announced(raw), s)

ConfigurationDescriptor(d, s) ==
  IF s.value < Len(d.raw) THEN RawConfiguration(d.raw[s.value + 1], s)
  ELSE Descriptor(SynthesizedLength(d), SynthesizedLength(d) % 65536, s)

(* A plausible bug: a string that the device does not have is not expected. *)
StringDescriptor_Known(d, s) ==
  IF s.value = 0 THEN {Descriptor(4, 4, s)}
  ELSE IF s.value \notin DOMAIN d.pool THEN {Panics}
  ELSE LET full == 2 + (2 * Units[d.pool[s.value]]) IN {Descriptor(full, full, s)}

(* The length byte is computed in eight bits: beyond, a build with overflow *)
(* checks panics and any other wraps.                                       *)
StringDescriptor(d, s) ==
  IF s.value = 0 THEN {Descriptor(4, 4, s)}
  ELSE IF s.value \notin DOMAIN d.pool THEN {Ok(0)}
  ELSE LET units == Units[d.pool[s.value]]
           full == 2 + (2 * units) IN
       {Descriptor(full, full % 256, s)}
       \cup (IF 2 + (2 * (units % 256)) > 255 THEN {Panics} ELSE {})

GetDescriptor(d, s) ==
  CASE s.about = "device" -> {Descriptor(18, 18, s)}
    [] s.about = "bos" -> {BosDescriptor(d, s)}
    [] s.about = "configuration" -> {ConfigurationDescriptor(d, s)}
    [] s.about = "string" -> StringDescriptor(d, s)
    [] s.about = "qualifier" -> {Descriptor(10, 10, s)}
    [] OTHER -> {Ok(0)}

(* A control transfer at the hardware.  An error of an IN request becomes   *)
(* an empty answer, one of an OUT request an error.                         *)
Transport(s, at) ==
  IF s.type = "reserved" \/ s.to > 3 THEN {Panics}
  ELSE IF s.dir = "in"
       THEN {[o EXCEPT !.at = at] : o \in {Ok(0), Did("done", 0), Did("done", s.length)}}
  ELSE {[Did("done", 0) EXCEPT !.at = at], Fails}

(* handle_urb_for_device: through the first claimed interface if there is   *)
(* one, else through the handle of the device.                              *)
handle_urb_for_device(d, s) ==
  Transport(s, IF d.interfaces = <<>> THEN None ELSE d.interfaces[1].number)

(* Only the low byte of wIndex is the interface; it counts the interfaces   *)
(* that were claimed.                                                       *)
ToInterface(d, s) ==
  LET i == s.index % 256 IN
  IF i < Len(d.interfaces) THEN Transport(s, d.interfaces[i + 1].number) ELSE {Panics}

handles_mass_storage_get_max_lun(d, s) ==
  /\ s.dir = "in" /\ s.type = "class" /\ s.to = 1
  /\ s.request = "max_lun" /\ s.value = 0 /\ s.length = 1
  /\ s.index % 256 < Len(d.interfaces) /\ d.interfaces[(s.index % 256) + 1].bulk_only

handles_superspeed_virtual_request(d, s) ==
  /\ d.super /\ s.dir = "out" /\ s.type = "standard" /\ s.to = 0
  /\ s.request = "superspeed"

should_forward_control_to_device(d, s) ==
  d.cp210x /\ s.type = "vendor" /\ s.to = 1 /\ d.handler

ControlIn(d, s) ==
  IF s.type = "standard" /\ s.to = 0 /\ s.request = "get_descriptor" THEN GetDescriptor(d, s)
  ELSE IF handles_mass_storage_get_max_lun(d, s) THEN {Ok(1)}
  ELSE IF should_forward_control_to_device(d, s) THEN handle_urb_for_device(d, s)
  ELSE IF s.to % 16 = 1 THEN ToInterface(d, s)
  ELSE IF s.to % 16 = 0 /\ d.handler THEN handle_urb_for_device(d, s)
  ELSE {Panics}

(* SET_CONFIGURATION goes to the hardware unless it names the configuration *)
(* the device was opened with; the answer is success in any case.           *)
SetConfiguration(d, s) ==
  IF d.handler /\ s.value # d.configuration_value
  THEN {Did(what, least(1, s.length)) : what \in {"done", "refused"}}
  ELSE {Ok(least(1, s.length))}

ControlOut(d, s) ==
  IF s.request = "set_configuration" THEN SetConfiguration(d, s)
  ELSE IF handles_superspeed_virtual_request(d, s) THEN {Ok(0)}
  ELSE IF should_forward_control_to_device(d, s) THEN handle_urb_for_device(d, s)
  ELSE IF s.to % 16 = 1 THEN ToInterface(d, s)
  ELSE IF s.to % 16 = 0 THEN IF d.handler THEN handle_urb_for_device(d, s) ELSE {Ok(0)}
  ELSE {Panics}

Control(s) ==
  /\ phase = "serve" /\ reply = <<>>
  /\ \E outcome \in IF s.dir = "in" THEN ControlIn(device, s) ELSE ControlOut(device, s) :
       /\ reply' = <<[ask |-> s, outcome |-> outcome]>>
       /\ phase' = IF outcome.res = "panic" THEN "dead" ELSE "serve"
       /\ config' = IF s.request = "set_configuration" /\ outcome.did = "done"
                    THEN s.value ELSE config
  /\ UNCHANGED <<host, device, names, changes>>

-----------------------------------------------------------------------------
(* Transfers of the other endpoints. *)

InterruptIn(room) == {Did("done", room), Ok(0), Fails}
InterruptOut == {Did("done", 0), Fails}

(* Bulk IN asks for whole packets.  A timeout is an empty answer, a stall   *)
(* is cleared and the transfer tried once more.  With no room at all the    *)
(* number of packets underflows: a panic, or packets nobody asked for.      *)
Packets(room, size) == IF room = 0 THEN 1 ELSE ((room - 1) \div size) + 1
BulkIn(room, size) ==
  LET received == {Did("done", n) : n \in {0, room, Packets(room, size) * size}}
      first == received \cup {Ok(0), Fails}
      retried == received \cup {Fails}
  IN first \cup retried \cup (IF room = 0 THEN {Panics} ELSE {})

(* A plausible bug: the result of the second attempt is dropped. *)
BulkOut_Ignored == {Did("done", 0), Did("repeated", 0), Ok(0), Fails}

(* Bulk OUT: after an error the halt is cleared and all is written again. *)
BulkOut == {Did("done", 0), Did("repeated", 0), Fails}

(* find_ep: of the first interface that has the endpoint, the first entry.  *)
PlacesOf(eps, address) == {j \in 1..Len(eps) : eps[j].address = address}
EndpointsAt(d, address) ==
  LET having == {i \in 1..Len(d.interfaces) :
                   PlacesOf(d.interfaces[i].endpoints, address) # {}}
      eps == d.interfaces[Min(having)].endpoints
  IN IF having = {} THEN <<>> ELSE <<eps[Min(PlacesOf(eps, address))]>>

TransferOutcomes(eps, room) ==
  IF eps = <<>> THEN {Fails}
  ELSE LET ep == Head(eps)
           in == ep.address >= 128 IN
       CASE ep.attributes = "interrupt" -> IF in THEN InterruptIn(room) ELSE InterruptOut
         [] ep.attributes = "bulk" -> IF in THEN BulkIn(room, ep.max_packet_size) ELSE BulkOut
         [] OTHER -> {Ok(0)}

Transfer(address, room) ==
  LET eps == EndpointsAt(device, address) IN
  /\ phase = "serve" /\ reply = <<>>
  /\ \E outcome \in TransferOutcomes(eps, room) :
       /\ reply' = <<[ask |-> [dir |-> IF address >= 128 THEN "in" ELSE "out",
                               request |-> "transfer", to |-> eps, length |-> room],
                       outcome |-> outcome]>>
       /\ phase' = IF outcome.res = "panic" THEN "dead" ELSE "serve"
  /\ UNCHANGED <<host, device, config, names, changes>>

(* The response is written, and the next request is read. *)
Respond ==
  /\ phase = "serve" /\ reply # <<>>
  /\ reply' = <<>>
  /\ UNCHANGED <<phase, host, device, config, names, changes>>

-----------------------------------------------------------------------------
Addresses == {ep.address : ep \in UNION {UNION {ToSet(intf.endpoints) :
                 intf \in ToSet(h.interfaces)} : h \in Hosts}} \cup {3}

Init ==
  /\ phase = "off" /\ host = None /\ device = Default /\ config = 0
  /\ reply = <<>> /\ names = [f \in Fields |-> f] /\ changes = 0

Next ==
  \/ \E h \in Hosts : Open(h)
  \/ New \/ Export \/ Respond
  \/ \E f \in Fields, name \in NewNames : SetName(f, name)
  \/ \E f \in Fields : UnsetName(f)
  \/ \E name \in NewNames : WithInterface(name)
  \/ \E s \in Setups : Control(s)
  \/ \E address \in Addresses, room \in Buffers : Transfer(address, room)

Spec == Init /\ [][Next]_vars

-----------------------------------------------------------------------------
(* Properties. *)

Answered(res) == reply # <<>> /\ reply[1].outcome.res = res
TooLong(name) == Units[name] > 126

(* The state keeps its shape: numbers of strings are 1 to 255, for 0 means  *)
(* none, and only a panic ends the service.                                 *)
TypeOK ==
  /\ phase \in {"off", "build", "serve", "dead"} /\ host \in Hosts \cup {None}
  /\ DOMAIN device.pool \subseteq StringIndexes
  /\ \A i \in DOMAIN device.pool : device.pool[i] \in Names
  /\ device.index \in [Fields -> 0..255]
  /\ config \in 0..255 /\ names \in [Fields -> Names \cup {None}]
  /\ changes \in 0..MaxChanges
  /\ phase = "dead" <=> Answered("panic")

(* After any sequence of setters the number in the device or configuration  *)
(* descriptor leads to the string that its field was given last, and to no  *)
(* string if it was unset, although numbers are given back and used again.  *)
StringsNamed ==
  \A f \in Fields :
    IF names[f] = None THEN device.index[f] = 0
    ELSE device.index[f] \in DOMAIN device.pool /\ device.pool[device.index[f]] = names[f]

(* An answer fits: it is no longer than what was asked for, and a           *)
(* descriptor is cut off there and nowhere else, so that a second read with *)
(* the length announced by the first gets all of it.  An answer to an OUT   *)
(* request without data carries none.  Bulk IN is exempt unless the client  *)
(* gave room for whole packets, and strings that are too long.              *)
RepliesFit ==
  LET s == reply[1].ask
      o == reply[1].outcome IN
  Answered("ok") =>
    /\ s.dir = "in" => \/ o.len <= s.length
                       \/ /\ s.request = "transfer" /\ Head(s.to).attributes = "bulk"
                          /\ s.length = 0 \/ s.length % Head(s.to).max_packet_size # 0
    /\ o.total > 0 => \/ o.len = least(o.total, s.length)
                      \/ s.about = "string" /\ TooLong(device.pool[s.value])
    /\ s.dir = "out" /\ s.length = 0 => o.len = 0

(* No request of an enumeration ends the connection, whatever descriptor,   *)
(* string or configuration it asks for.  And on a device all of whose       *)
(* interfaces were claimed, and are numbered from 0, a standard, class or   *)
(* vendor request to the device or to one of its interfaces is carried out, *)
(* the latter through that interface.                                       *)
Enumeration(s) ==
  /\ s.request \in {"get_descriptor", "set_configuration"} /\ s.to = 0
  /\ s.about = "string" => s.value \notin DOMAIN device.pool \/ ~TooLong(device.pool[s.value])
Complete ==
  /\ host # None /\ device.interfaces = host.interfaces
  /\ \A i \in 1..Len(host.interfaces) : host.interfaces[i].number = i - 1
Regular(s) ==
  /\ s.request # "transfer" /\ s.to \in {0, 1} /\ s.type # "reserved"
  /\ s.to = 1 => s.index % 256 < Len(host.interfaces)
RequestsServed ==
  LET s == reply[1].ask IN
  reply # <<>> =>
    /\ Enumeration(s) => ~Answered("panic")
    /\ Complete /\ Regular(s) /\ s.request # "get_descriptor" =>
         /\ ~Answered("panic")
         /\ s.to = 1 /\ reply[1].outcome.at # None /\ ~should_forward_control_to_device(device, s)
              => reply[1].outcome.at = s.index % 256

(* Success means done: an OUT request answered with success went through at *)
(* the hardware, and SET_CONFIGURATION leaves it in that configuration.     *)
(* Exempt are requests that the server takes upon itself, isochronous       *)
(* transfers, devices without hardware, a configuration that the hardware   *)
(* refused, and the one the device was opened with.                         *)
AcksAreTrue ==
  LET s == reply[1].ask
      o == reply[1].outcome IN
  Answered("ok") /\ s.dir = "out" /\ device.handler
  /\ ~(s.request = "superspeed" /\ handles_superspeed_virtual_request(device, s)) =>
    CASE s.request = "set_configuration" ->
           o.did = "refused" \/ s.value \in {config, device.configuration_value}
      [] s.request = "transfer" ->
           Head(s.to).attributes = "isochronous" \/ o.did \in {"done", "repeated"}
      [] OTHER -> o.did = "done"

=============================================================================
