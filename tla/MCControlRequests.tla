--------------------------- MODULE MCControlRequests ---------------------------
(* Instances of ControlRequests for TLC.                                    *)
EXTENDS ControlRequests

(* Descriptor files of the kernel: the device descriptor, configurations.   *)
Zeros(n) == [i \in 1..n |-> 0]
DeviceBytes == <<18, 1>> \o Zeros(16)
ConfigBytes(total) == <<9, 2, total, 0>> \o Zeros(5)
OtherBytes(length, type) == <<length, type>> \o Zeros(length - 2)
OneConfig == ConfigBytes(25) \o OtherBytes(9, 4) \o OtherBytes(7, 5)

Ep(address, attributes) ==
  [address |-> address, attributes |-> attributes, max_packet_size |-> 64]

(* A disk and a keyboard in one, with two configurations in its file; a     *)
(* serial adapter whose file is cut off; a SuperSpeed device whose only     *)
(* interface has number 1.                                                  *)
Combined ==
  [super |-> FALSE, cp210x |-> FALSE, configuration |-> 1,
   interfaces |-> <<[number |-> 0, bulk_only |-> TRUE,
                     endpoints |-> <<Ep(129, "bulk"), Ep(2, "bulk")>>],
                    [number |-> 1, bulk_only |-> FALSE,
                     endpoints |-> <<Ep(131, "interrupt"), Ep(4, "interrupt")>>]>>,
   descriptors |-> DeviceBytes \o OneConfig \o OneConfig,
   strings |-> {"product", "serial"}]
Serial ==
  [super |-> FALSE, cp210x |-> TRUE, configuration |-> 1,
   interfaces |-> <<[number |-> 0, bulk_only |-> FALSE,
                     endpoints |-> <<Ep(129, "bulk")>>],
                    [number |-> 1, bulk_only |-> FALSE, endpoints |-> <<>>]>>,
   descriptors |-> DeviceBytes \o OneConfig \o ConfigBytes(25),
   strings |-> {"manufacturer"}]
Camera ==
  [super |-> TRUE, cp210x |-> FALSE, configuration |-> 2,
   interfaces |-> <<[number |-> 1, bulk_only |-> FALSE,
                     endpoints |-> <<Ep(2, "isochronous"), Ep(129, "bulk")>>]>>,
   descriptors |-> DeviceBytes \o OneConfig,
   strings |-> {}]
AllHosts == {Combined, Serial, Camera}

AllNames == Fields \cup {"short", "long"}
UnitsOf == [n \in AllNames |-> IF n = "long" THEN 127 ELSE 5]
=============================================================================
