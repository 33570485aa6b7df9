# Specifications of lusbip

`lusbip` shares USB devices over TCP. The server half (`src/server.rs`,
`src/usbip_server/`) opens host devices with nusb and speaks USB/IP to Linux
clients. The client half (`src/client.rs`, `src/client_agent.rs`, `src/tui.rs`)
drives the `usbip` tools. This directory holds TLA+ modules of its stateful
parts, TLC configurations that check them on small instances, and proofs that
TLAPS checks for instances of every size. Line numbers are those of the sources
at this commit; `mod.rs` is `src/usbip_server/mod.rs`.

## 1. Inventory

| Part | State | Operations | Interacts with |
| --- | --- | --- | --- |
| Device inventory (mod.rs 649-1100, 1294-1334, 1457-1536; server.rs 262-286, 500-576) | `available_devices` and `used_devices`, each behind an async `RwLock`; the occupancy map; `imported_device` of every connection | import (`occupy`), `release`, disconnect, failed reply, host synchronisation every second, Ctrl+C, Esc, `cleanup` | one task per connection, one synchronisation task, the control loop, nusb |
| Bulk transfer pipeline (mod.rs 46-647, 1240-1455) | per connection: tables of pending seqnums, set of cancelled ones, generation; per endpoint: a worker, its queue, its poison and flush flags | submit, unlink, import, stop, completion, idle flush | `handler`'s `select!`, bounded channels to the workers, event channels back, oneshot replies to barriers |
| EP0, descriptors and device requests (device.rs, host.rs, setup.rs, endpoint.rs, interface.rs; mod.rs 656-873, 1101-1170) | claimed interfaces, stored configuration descriptors, string pool, `configuration_value` | opening a host device, setters of a simulated one, standard control requests, passing other transfers on | called by `handle_usbip_cmd_submit`; nusb |
| USB/IP framing (usbip_protocol.rs) | the bytes of a command read so far | reading a command, writing a reply | one branch of `handler`'s `select!` |
| Simulated HID and CDC devices (hid.rs, cdc.rs) | a key or byte queue | test devices | tests only |
| Server lifecycle (server.rs) | pid file, status listener, viewer | start, background respawn, status port, stop | inventory; the operator |
| Client agent (client_agent.rs) | runtime directory, socket, `managed_ports` | start, STATUS, TOGGLE, SHUTDOWN | controllers, the kernel's VHCI ports, the server |
| Client session lock (client.rs 283-352) | lock directory with a pid file | acquire, drop | other client processes |
| Attach, detach, port matching (client.rs 420-1171) | none of its own: the kernel's VHCI ports | attach, auto-detach, toggle, exit | `usbip`, `sudo` |
| TUI action list (tui.rs; closures in client.rs 104-162) | rows, cursor, spinners, sticky rows, sequence number of the oldest listing it accepts; the cached device list behind a mutex | refresh, start action, exit modes | a loader and a worker thread, three pairs of channels, the `usbip` tools |
| Command runner (process.rs) | a child and its deadline | run with 20 s limit | attach and agent |
| Command line and listing (cli.rs, usb.rs, main.rs) | none | argument parsing, printing | - |

What is hard in it, and what each part must guarantee:

* **Inventory.** Import and release move a device between two locked lists
  without holding both locks, while another task prunes both lists from an old
  listing, the host replugs ports, peers vanish, tasks panic and the operator
  stops the server. An open device has one owner; the registry, the occupancy
  map and the connections agree; no device is lost; imports and disconnects end.
* **Pipeline.** A USB URB is handled by three tasks and an unlink can meet its
  completion anywhere between them. OUT requests are acknowledged early, so
  reads and control transfers need a flush barrier, and a flush that fails later
  must not be forgotten. A response and a successful unlink exclude each other;
  reads keep their order; nothing overtakes data; `handler` is never stuck.
* **Framing.** `read_from_socket` is not cancellation safe, and `select!`
  cancels it when a completion arrives.
* **Client processes.** Lock directory and runtime directory are made in several
  steps, and pids are read back from files that others remove: two clients must
  not own a session, a crash must not lock anyone out.
* **Agent.** It remembers kernel ports by number while others may detach and
  attach them; it must detach what it attached, and nothing else.
* **TUI.** Three threads and a keyboard: results, listings begun before and after
  them, and keys meet in any order. A key must do what its row announced, a
  spinner must mean work, the list must catch up, Ctrl+C must detach everything.
* **EP0.** Interfaces that could not be claimed, configurations cut out of a
  descriptor file, string numbers that are used again, lengths at their limits:
  answers must fit, and success must mean that something was done.

`PROJECT.json` lists the hazards line by line.

## 2. Modules

| Module | What it is |
| --- | --- |
| `DeviceOwnership` | abstract: import is a transfer of ownership of an open device |
| `DeviceInventory` | the inventory, in detail; implements `DeviceOwnership` |
| `DeviceInventoryProofs` | theorems about `DeviceInventory`: types, one place for a handle, the refinement, the lists and the occupancy map |
| `MCDeviceInventory` | symmetry set for TLC |
| `UrbContract` | abstract: what the client may rely on for each URB |
| `BulkPipeline` | `handler`'s transfers and the two workers, in detail; implements `UrbContract` within one import |
| `BulkPipelineProofs` | theorems about `BulkPipeline`: where a URB is, answers and unlinks; that it implements `UrbContract` |
| `BulkOrderProofs` | theorems about `BulkPipeline`: barriers, flushes, shutdown |
| `MCBulkPipeline` | values of the set-valued constants for TLC |
| `ClientPorts` | the client's VHCI ports, shared by the agent and a direct session |
| `ClientPortsProofs` | theorems about `ClientPorts` |
| `MCClientPorts` | three devices of different models for TLC |
| `ClientSession` | the processes of one endpoint, the session lock and the agent's runtime directory |
| `ClientSessionProofs` | theorems about `ClientSession` |
| `MCClientSession` | names of processes for TLC |
| `ActionList` | the device list of a foreground client: main loop, loader and worker |
| `ActionListProofs` | theorems about `ActionList` |
| `MCActionList` | two bus ids for TLC |
| `ControlRequests` | one device of the server and the requests it gets |
| `ControlRequestsProofs` | theorems about `ControlRequests` |
| `MCControlRequests` | three host devices with their descriptor files for TLC |
| `Lists` | `Retain`, the filter of a sequence, as a recursive function |
| `ListsProofs` | what `Retain` returns; recursive functions exist |

`ClientSession` decides which processes run; `ClientPorts` is what the agent and a direct
session then do to the ports they share; `ActionList` is one such session seen from
inside, with its threads and its screen, and the ports to itself. `ControlRequests`
is what `SyncSubmit` of `BulkPipeline` does to a request, with the request's contents.

### DeviceInventory

`ad` and `ud` are `available_devices` and `used_devices`, kept per bus id.
A handle `[bus, inc]` is one *opening* of a port: `inc` is its number among the openings
of that port, which `opens` counts, while `plugs` counts how often a device was plugged in. `conn[c].held` is
`imported_device`, or the device that `occupy` or `release` has in its hands: Rust moves it.
`sync.cur`, `sync.todo` and `sync.opened` are the synchronisation's listing, the
ports it still has to open, and what it has opened; `occ` is the occupancy map;
`ctl` is `run_server` after its control loop. `reimports` says whether the clients of this
behaviour import again while they hold a device; it is chosen at the start and never changes.

A port can be opened while an earlier opening of it is alive. `with_nusb_devices` calls
`detach_kernel_driver` before `claim_interface` (mod.rs 761-763); on Linux that disconnects whichever
driver has the interface, usbfs and with it an earlier claim included, and a device is kept when one of its interfaces
could be claimed (809-812). `SyncOpen` therefore never looks at the other handles. Opening can fail for many
reasons, and must when the device listed is no longer the one in the port.

A step is what a task does between two awaits that can suspend it. A lock that
is taken and dropped without an await in between belongs to one step; one held
over an await (`available_devices` in the prune, `used_devices` in `release` and
`cleanup`) shows in the place where the task waits: `KeepsAd` and `KeepsUd`.

| Code | Actions |
| --- | --- |
| `handle_op_req_import` 1070, `occupy` 979 | `ImportRequest`, `OccupyTake`, `OccupyRegister` |
| reply and map, 1303-1323 | `ReplyWritten`, `ReplyFails`, `ClearPrevious`, `SetOccupancy` |
| read error 1262, import error 1325, wrapper 1519 | `Disconnect`, `BadImportRequest`, `ClearOccupancy` |
| `release` 995 | `ReleaseLock`, `ReleaseMove` |
| `sync_from_host_with_filter` 905, `with_nusb_devices` 697 | `SyncList`, `SyncLock`, `SyncPrune`, `SyncOpen`, `SyncAppend` |
| `sync_server_devices`, server.rs 262 | `SyncRetain` |
| control loop and `cleanup` | `Stop`, `MoveToBackground`, `CleanupLock`, `CleanupDrain`, `CleanupTimeout`, `Exit` |
| `unimplemented!()` in device.rs 600-637 | `Panic` |

`Plug` and `Unplug` are the host; they are steps only where the synchronisation runs, as nobody else
looks at the bus after the start. A device that is listed at the start has been opened once.

### BulkPipeline

One connection with one bulk IN and one bulk OUT endpoint of the same number.
`urb[s]` is the client's view of seqnum `s`: kind, import generation, response
(`ret`) and answer to an unlink (`unl`). `h` is the position of `handler` in the
command it works on; `bulkIn`, `bulkOut`, `cancelled`, `pendingOut`, `gen` are its
tables. `inq`/`outq` are the command channels, `inEv`/`outEv` the event channels,
`iw`/`ow` the workers. Every step is one channel operation or one transfer, because
the tasks run on several threads.

| Code | Actions |
| --- | --- |
| submit 1335-1412 | `ReadSubmit`, `SendIn`, `SendOut`, `ControlBarrier`, `ControlBarrierDone`, `SyncSubmit` |
| unlink 1413-1436 | `ReadUnlink`, `SendUnlink` |
| import 1294, read error 1262, `stop_*_workers` | `ReadStop`, `StopSend`, `StopDone`, `StopTimeout`, `Import`, `Close` |
| events 1439-1452, `?` on writes | `InEvent`, `OutEvent`, `WriteFails` |
| `run_bulk_in_worker` 265 | `InOpen`, `InCommand`, `InBarrierSend`, `InBarrierDone`, `InDrain`, `InSubmit`, `InComplete` |
| `run_bulk_out_worker` 427 | `OutSubmit`, `OutFlush`, `OutShutdown`, `OutUnlink`, `OutIdleFlush` |

Abstractions: bytes are not modelled, only which OUT URBs have reached the device
(`written`). The writer may in fact pass bytes on before it is flushed; no
property forbids that. Interrupt endpoints take the synchronous path and add
nothing. With several endpoint numbers a read waits for the OUT worker of its own
number only (559-560), which is why one number is enough for `ReadAfterWrites`.
A failed import still increments the generation, as the code does. The client
never uses a seqnum twice. The final flush at 455-463 is not modelled: the command
channel closes only when the task is aborted or `handler` has returned, and then
the task is aborted with its `JoinSet`.

### ClientPorts

`vhci[p]` is what the kernel has attached at port `p` and on whose behalf:
`agent` until the agent has told its client, then `reported`, or `direct`. Only the
properties read the owner; no process can. `managed` is `managed_ports`; `agent` and
`direct` are the positions of the two processes, with the bus id and the ports
they still have to detach. The direct session stands for `lusbip attach`,
`detach`, `status` and the foreground client of the same server, one operation at
a time. `ClientSessionLock` does not exclude it from the agent, which never takes
that lock.

| Code | Actions |
| --- | --- |
| `run_background_agent` 210, death of the process | `AgentStart`, `AgentKilled` |
| `toggle` 333 | `AgentToggle`, `AgentAttach`, `AgentIdentify`, `AgentDetach` |
| `shutdown` 423, reply and stop 230-247 | `AgentShutdown`, `ShutdownNext`, `ShutdownDone` |
| `run_attach`, foreground client, `run_detach`, client.rs 59-162 | `DirectStart`, `DirectDetach` |
| `query_attached_ports_resilient` 571 | `DirectQuery`, `DirectRecover`, `DirectRecovered` |
| `auto_detach_matching_ports` 560, exit 763, attach 597 | `DirectNext`, `DirectEnd` |
| a port that the server or the network frees | `Drop` |

Each `usbip` or `sudo` command is one step that succeeds or fails; one killed at
its 20 s deadline (process.rs 32) fails with its effect or without it, which is
`Fails`. Requests that only read (STATUS) or end in an error before any command
change nothing and are left out. All ports are of the one server, with a known
host. The fallback of a failed stale detach (464-465) is part of `DirectRecover`.

### ClientSession

Every process is a client (`lusbip client`), a starter (`--background`) or an agent
(`--agent-child`), spawned by a starter or started by hand. `fs` is both
directories: whether they exist, whose pid is in the pid file (or nothing yet:
`Blank`), whose socket is bound. While a directory is acquired, a step is one system call. A
directory or an open file can be removed and made again under a process that
uses it: `dirfd` and `filefd` tell who has the directory, or the pid file, that now has
that name, so that a late write goes to a file nobody finds. `doomed` are the
entries that a `remove_dir_all` has listed. A child is in /proc until its starter has
ended, since nobody waits for it (`Zombie`).

| Code | Actions |
| --- | --- |
| `app_tui::run`, `run_controller_tui` 259 | `Start`, `LookClient`, `Control` |
| `spawn_background_agent` 168 | `LookStarter`, `Poll` |
| `prepare_runtime_dir` 137, bind 212 | `Exists`, `Sweep`, `MakeDir`, `OpenPid`, `WritePid`, `Bind` |
| `ClientSessionLock::acquire`, client.rs 294 | `MakeDir`, `OpenPid`, `WritePid`, `Undo`, `ReadPid`, `CheckPid`, `Sweep` |
| `fs::remove_dir_all` | `Sweep`, `Unlink`, `RemoveDir`, `Denied`, `Removed`, `Failed` |
| `Drop`, `remove_runtime_dir` | `DropPid`, `DropDir`, `Stop` |
| death anywhere | `Crash` |

`process_exists` looks for `/proc/<pid>` and nothing else (client.rs 358, client_agent.rs 133): it finds a live
process, and may find a dead one, whose pid the kernel has given to any other (`MayExist`, `MayBeGone`). A
`remove_dir_all` may be denied at any point, as that of another user's files is (`Denied`); that an owner
can remove its own lock is assumed. `hindered` remembers whom either of the two has stopped; no process reads it.
Left out: `/tmp` cleaned by others, an `fs::write` that fails after it has created the file.

### ActionList

`items`, `selected`, `sticky`, `refresh_pending` are the variables of `run_action_list`, `processing`
the ids of its `ProcessingIndicator`. A row's label is what the code reads back from it: a port
(`[x] port N |`), `on` (`[x]`), `free` (`[ ]`) or `locked` (`[!] locked by`). Sequence numbers of listings only
matter against `minimum_refresh_seq`, so a request carries one bit that tells
whether its number reaches it, and `AskAgain` clears the bit of every earlier request. `loader` and `worker` are
the two threads; the mutex of the cached devices is the pair of guards `worker.locked` and
`loader = Idle`. `exported` and `vhci` are the server's devices and the kernel's
ports; `model` is the VID:PID of every device and never changes. The list may start with ports that an earlier
session left attached. `surprise` and `trouble` are no state of the program: the first has the devices that
changed behind the list's back, the second bounds what goes wrong.

As in `port_matches_remote_device` (client.rs 951-958), a port belongs to the row of every device with the
VID:PID of what it holds, and a row shows the first such port; a port that no row shows gets a row of its own
(812-828), so that of two attached twins the second is listed twice. As in
`query_attached_ports_resilient` (571-579), when `usbip port` fails, for a refresh, an action or the exit,
the ports in use are detached one after the other until one fails, and the ports are asked for again; when
that fails too, nothing is said to be attached (`Again`). An attach asks a second time and first detaches what matches
(`WorkQuery`, `WorkClear`; client.rs 755). A server that answers the occupancy request names the
devices attached here, which is what `locked` comes from when the ports are hidden.

| Code | Actions |
| --- | --- |
| tui.rs 202-233, 235-273, 275-286 | `DrainResult`, `DrainListing`, `ListingsDrained` |
| 310-319; keys 322-378 | `Tick`, `TimerRefresh`; `Cursor`, `Activate`, `Esc`, `Cancel` |
| exit closure, `run_with_spinner` 575 | `ExitDetach`, `ExitDone` |
| loader 184; `load_remote_device_states_cached`, client.rs 700 | `LoadBegin`, `LoadEnd` |
| worker 191; activate closure, client.rs 131-156 | `WorkShown`, `WorkToggle`, `WorkDone`, `Straggler` |
| `toggle_remote_device`, `auto_detach_matching_ports` 560 | `Looks`, `WorkQuery`, `WorkClear` |
| `query_attached_ports_resilient` 571 in the loader, the worker and the exit | `LoadRecover`, `LoadRecovered`, `WorkRecover`, `WorkRecovered`, `WorkRequeried`, `ExitRecover`, `ExitRecovered` |
| the server, the network | `Replug`, `Drop` |

A command that the worker runs has its effect, fails, or is killed at its deadline after
its effect. Left out: devices that clients on other machines hold, a first listing during which
something fails (it comes before the loop, and an error ends the client), ports of other servers, which the list never shows but the
recovery detaches, and the agent and `lusbip attach` beside the list, which are in `ClientPorts`.

### ControlRequests

`device` is the `UsbDevice`, with the interfaces that were claimed in order, the
configurations cut out of the kernel's descriptor file byte by byte, and the
string pool as a function from numbers to strings. `config` is the configuration the hardware is in.
A request is the setup packet by its parts: direction, type and recipient of
`bmRequestType`, high and low byte of `wValue`, `wIndex`, `wLength`. An outcome
is the length of the answer, the length the descriptor announces, what was done at the hardware
and through which interface. `dead` is a connection whose task has panicked.

| Code | Definitions |
| --- | --- |
| `with_nusb_devices` 697, `extract_configuration_descriptors` 660 | `Open`, `Opened` |
| `UsbDevice::new`, setters, `with_interface`, `new_simulated` | `New`, `SetName`, `UnsetName`, `WithInterface`, `Export` |
| `handle_urb`, device.rs 367 | `Control`, `ControlIn`, `ControlOut`, `GetDescriptor`, `SetConfiguration` |
| host.rs 207-268, 684-748 | `Transport`, `handle_urb_for_device`, `ToInterface` |
| host.rs 317-481 | `Transfer`, `InterruptIn`, `InterruptOut`, `BulkIn`, `BulkOut` |
| `handle_usbip_cmd_submit`, mod.rs 1101 | outcomes `Ok`, `Fails`; `Respond` |

The contents of descriptors are left out except for their lengths. A `wTotalLength` read
from the descriptor file keeps its sixteen bits, a string's length byte its eight. The build target is Linux.

## 3. Runs

All runs state `CHECK_DEADLOCK FALSE`: a server that has exited, a closed connection
and a client that sends nothing more are legitimate ends.

| Run | Instance | Shows |
| --- | --- | --- |
| `inventory_hotplug` | 1 port plugged and opened twice, 2 clients, synchronisation on | `HandleExclusive`, `UsedTracksImports`, `OccupancyTracksImports`, `NoDeviceLost`, and the refinement of `DeviceOwnership` |
| `inventory_exclusive` | 1 port plugged once, 2 clients | **violated**: `DeviceExclusive` |
| `inventory_progress` | 2 ports, 2 clients, panics, re-imports, no synchronisation | `ImportAnswered`, `DisconnectReleases` |
| `inventory_lock_order` | 1 port, with synchronisation | **violated**: `DisconnectReleases` |
| `inventory_background` | 1 port, 2 clients | **violated**: `BackgroundOnlyWhenIdle` |
| `pipeline_safety` | 3 URBs of any kind, 2 imports, channels of 1, every outcome | the eight safety properties of the pipeline |
| `pipeline_progress` | 2 URBs of any kind, 1 import, channels of 1 | `HandlerReturns`, `RequestsEnd`, `KeepsUrbContract` |
| `ports_agent` | 2 ports, 3 devices of different models | `ReportedPortsManaged`, `RequestAnswered` |
| `ports_foreign` | the same | **violated**: `AgentDetachesOwn` |
| `client_session` | 3 processes of any kind, 1 crash anywhere | `SoleHolder`, `RefusedForSomeone`, `NoLockLeft`, `AgentFound`, `StartEnds` |
| `action_list` | 2 devices for 1 port, which an earlier session may have left attached; twins; 1 failure, replug, drop or impatient key | `SpinnerMatchesWork`, `DoesAsShown`, `ExitDetachesAll`, `CursorStays`, `ListConverges`, `ActionsEnd` |
| `control_requests` | 3 host devices with any interfaces claimed, 1 simulated device with 2 setter calls, every request | `StringsNamed`, `RepliesFit`, `RequestsServed`, `AcksAreTrue` |

*Bounds.* Every hazard of the inventory needs two parties for one device: two
clients, or a client and the synchronisation. Two plugs of a port, or two openings of it while it is held, give an old and
a new handle. Two ports are needed for a connection that moves from one to
another; no safety property relates two ports, and with two ports (and with three clients or
three openings) `UsedTracksImports` and `NoDeviceLost` were also found to hold, in runs too long to keep. In the pipeline a read has to wait behind a write and behind another
read, or a control transfer behind a write that failed: three URBs. Two imports
give stale events. Capacity 1 makes a channel full with the second command; the
real capacities (32, 256) only put that off. Two ports let one fail while the
other is detached, and let a port pass from one session to the other; three
devices make the ports run out. `MaxPlugs`, `MaxOpens`, `MaxUrbs` and `MaxImports` are the
bounds, and stand in the guards of `Plug`, `SyncOpen`, `ReadSubmit` and `ReadStop`.
A crash leaves a stale directory, one process finds it and another meets the
finder: three processes. In
`ActionList` two devices that want one port make an attach fail, a row move and a port
change its device. `Worlds` has one world where the devices differ and one thing goes wrong, with a device left
attached that the server has no more, and three where nothing does: two free devices, two free twins, and a device whose
attached twin the server has no more. `trouble` counts what goes wrong. `MaxQueued` bounds how many listings may be
on their way when a key starts an action; those of the timer still begin before an action and arrive
after it. With one port a failing `usbip port` frees one device at most, no device of two attached twins is listed twice
(all properties of the run were found to hold for two attached twins on two ports too, in 206,304 states), and the failures inside `WorkClear` are not reached, since an attach clears
something only after a lookup that failed twice: the proofs cover those.
In `ControlRequests` the three devices are a composite one with two
configurations, a CP210x whose descriptor file is cut off, and a SuperSpeed one whose only interface has
number 1; requests name existing and missing configurations, strings and interfaces, and
lengths of nothing, one byte and more than any descriptor. One string is just too long for its length byte. A request
leaves no trace but the hardware's configuration, so requests need no bound; `MaxChanges`
bounds the setters.

*Conditions in the properties.* Where a property exempts something, the code does not keep it there, and
the hazard list says how.
* `HandleExclusive` and the refinement speak of openings, not of ports: that a port is imported
  once is `DeviceExclusive`, which is violated. `UsedTracksImports` promises exact agreement for a port
  that no turn has opened again through the gap in `occupy`, and less for the others: what is in `used_devices` is held, and
  a held device that was never unplugged is known to the next turn except in that gap. `OccupancyTracksImports`
  exempts clients that import again while they hold a device (`reimports`) and, in the
  half that says that who serves is in the map, ports that were unplugged or opened twice. `NoDeviceLost` exempts ports that were replugged.
* `ResponsesExclusive` and `UnlinkTruthful` speak of URBs of the
  current import: a completion that is queued when the client imports again is
  answered after it, even if it was unlinked, because IN events carry no generation
  and the import forgets which requests were cancelled (1300).
* `SoleHolder` and `AgentFound` speak
  of a process that met no other while it acquired its directory (`alone`): two that
  acquire at the same moment can both succeed, see section 5. `RefusedForSomeone` lets such a process be turned
  away by a pid that belongs to another process by now, and by a denied removal, and by nothing else.
* `DoesAsShown` exempts devices with a twin, whose row shows the twin's port, and those that changed behind
  the list's back, or that a failing `usbip port` detached or hid, until a listing has put their row right
  (`surprise`); the other properties of `ActionList` hold for those too. `ExitDetachesAll` exempts an exit with an action
  under way, and one whose own `usbip port` failed twice: that one is told that nothing is attached, and
  reports success (client.rs 576).
* `RepliesFit`, `RequestsServed` and `AcksAreTrue` name their exemptions in their comments; each is a
  hazard in `PROJECT.json`. What `RepliesFit` and `AcksAreTrue` say of bulk data concerns host.rs 385-471, which runs only when no
  persistent worker is available; the usual bulk path is that of `BulkPipeline`, where bytes are not modelled.

*Fairness.* Tokio polls a task that can go on, and its `RwLock` is a queue, hence
`SF` for each connection's own steps and for the synchronisation; nothing makes a
peer, the operator or the host act. In the pipeline `WF` of `handler` and of the workers
rests on the same, and on the timeouts of every transfer except a bulk IN read
(1 s on writes, flushes and control transfers, 20 ms on polled reads); `SF` of the
event branches and of the IN worker's commands rests on `select!`, which polls
its branches in random order. A physical read ends by itself only if it was
cancelled: `RequestsEnd` lets a read wait as long as the device is silent. A
client is assumed to read its socket, else `write_to_socket` blocks `handler`. `WF` of
the agent's own steps rests on the deadline of every command it runs. In `ClientSession` every
process that has started goes on (`WF`); nobody has to start. In `ActionList` the main loop goes on (`WF`),
and the timer, the loader and the worker have `SF`: keys may come at any time but not
every 50 ms for ever, and of two threads that wait for a mutex each gets it in the end. Nobody has
to press a key. `ControlRequests` has no liveness: a request is one step.

## 4. What is proved

Every theorem holds for all values of the constants that its module's assumption allows:
any number of clients, ports, URBs, processes or strings, any channel capacity, any number of
crashes. TLC evaluates each assumption in the runs. A hypothesis beyond it is named with the theorem.
In each module one inductive invariant carries the others; TLC checked it before it was
proved. A lemma per action, or per group of actions that touch the same part, shows that it is kept, and
*frame* lemmas say what the other steps leave alone.

**Lists (`ListsProofs`).** A set of naturals has a least element, from the well-foundedness of `<`;
a recursive function on `0..n` exists (`IterationExists`, `JumpExists`), which is as far as TLAPS
goes with data of any size; and `Retain`, the models' filter of a sequence, returns the elements of
the set, each of them, in their order, and without doubles if there were none (`RetainSelects`, `RetainOK`).

**Inventory (`DeviceInventoryProofs`).**
* `TypeCorrect`. `TypeOK` also says where a connection may hold a device: nothing while it is
  closed or waits in `occupy` for the first lock, something while it releases, registers or replies.
* `Exclusive` (`HandleExclusive`), although a port may be opened while it is held. Most steps only *shrink* the set of places
  where a handle is (`ShrinkExclusive`). Three *move* one: `OccupyTake`, `ReleaseMove`, `SyncAppend`;
  they need `ListedOnce` (taking the first entry of a bus id leaves no second entry of the same handle) and
  `NothingElseOpening`. Only `SyncOpen` *creates* one, and nobody has that one yet: whatever is known anywhere has a number that
  was given before (`Numbered`). `Hands` and `KnownSteps` say once, for the other proofs, which steps change what is known.
* `OwnershipRefined`: `DeviceInventory` implements `DeviceOwnership`. Every step changes the owner of one handle
  at most, and never from one connection to another, except that a turn may put several on offer at once, and that a prune and the shutdown
  may drop several; with `HandleExclusive` the owner is unique,
  so that the step is one of the abstract module or a stutter. What the turn opens it appends before it lists again (`OpenedInTurn`).
* `NothingLost` (`NoDeviceLost`), if no handler panics. The invariant `PlugInv` says that nothing was opened before a
  device was plugged in (`PluggedFirst`), and that a port which the synchronisation's listing lacks has nothing open as long as its first
  device is there (`SnapshotTrue`), so that a prune from an old listing never throws away a device that is there.
* `UsedTracked` (`UsedTracksImports`), if no handler panics. `UsedIsHeld` is the inductive part: a release erases the
  entry of its bus, and on a port that was opened once nobody else can hold it, because all
  of its handles are one (`OnePerBus`); on the others the entry may go, but then the device that is released is on offer, so the next turn still finds the bus.
* `OccupancyTracked` (`OccupancyTracksImports`), if no handler panics. The invariant `OccInv` holds where no connection
  imports twice, which is decided at the start (`ReimportsStay`); it adds that the old entry of a connection never waits to be cleared.

  The hypothesis is that of the runs, and TLC finds each property violated without it: a panic drops a device
  without touching list or map.

**Pipeline (`BulkPipelineProofs`, `BulkOrderProofs`).**
* `PipelineInvariant`, with `TypeCorrect`, `ResponsesAreExclusive`, `UnlinksAreTruthful`,
  `ReadsAreInOrder` and `NoStaleResponse` (`NoStaleOutResponse`). A URB that is not answered is in
  exactly one place. For reads the places form a *line*: the events, then the queue of the IN worker, then its
  channel, then the handler's hands, and seqnums increase along it (`LineOrdered`). A read
  can therefore not be in two places, and the next one answered is the least. The *books* (`Numbered`, `Busy`,
  `Tables`, `Tracked`) say what the handler's tables know of a URB: one that is neither answered nor unlinked
  is in a table, so an unlink that finds nothing comes after the answer; one that was unlinked is
  in `cancelled` as long as it is on the line, so its completion is not written.
* `UrbContractKept` (`KeepsUrbContract`), if there is one import at most: the refinement of `UrbContract`. A step changes what
  the client knows of one URB (`UrbSteps`), and is then a `Submit`, an `Answer` or a `Cancel` of it; or it ends
  the session and with it the open URBs; or it changes no status. URBs are taken in only after
  the import (`Imported`), so no status depends on when that was. With a second import the contract does not
  hold, as TLC shows: a read of the first that has completed is still in the event channel, and answered in the second.
* `OrderInvariant`, with `ShutdownIsFlushed`, `ReadsAfterWrites` and `ControlsAfterWrites`. As long as no error
  has poisoned the OUT worker, each write that was handed to it is in its channel, its buffer, at the device or reported as failed
  (`WritesKept`). A barrier that a task waits for is the only one of that task and has only later
  writes behind it (`OneBarrier`). A good answer to it is therefore true, and stays true until the read starts or the control
  transfer is answered (`ReadBarrierTrue`, `ControlBarrierTrue`), for nothing takes a write away again (`AckedKept`).

**Ports (`ClientPortsProofs`).**
* `TypeCorrect`: the lookup takes the least port that matches, so one must exist (`MinOfPorts`).
* `ReportedManaged` (`ReportedPortsManaged`), if no two devices are of one model
  (`ModelsDiffer`). The invariant adds `OnePortPerBus`: the server gives a device to one client at a time.
  Then the lookup after an attach finds no port but the one just attached
  (`LookupFinds`), and a port leaves `managed` only when it is detached. With twins it
  may find the other twin's port, and the theorem would be false.

**Session (`ClientSessionProofs`).**
* `SessionInvariant`, with `TypeCorrect`, `SessionIsSole` (`SoleHolder`), `RefusalsHaveCauses`
  (`RefusedForSomeone`), `LockIsLeftToNobody` (`NoLockLeft`) and `AgentIsFound` (`AgentFound`).
  A process that met nobody knows its directory at each step (`Local`) and has nobody in it
  (`Alone`), whatever a crash left there; so no step of its program can turn it away but one that finds a dead process's pid in /proc or is
  denied a removal, and either is noted as `hindered`; else it comes to hold the directory with its own
  pid in it (`Reigns`). Who comes later gets no further than to look that pid up
  (`Beside`). A pid file names only a process that wrote it and has not removed it (`Owners`). A lock that
  is there has a client that is at work on it or died there (`LockMade`, `PidMade`).

**Action list (`ActionListProofs`).** Any list of devices, twins among them, any ports, attached before the start or not, and
any number of failures and changes outside; the theorems assume nothing beyond `ListAssumption`. `Solo` are the
devices without a twin; `Off` are the others and those in `surprise`.
* `TypeCorrect`, `CursorKept` (`CursorStays`). The invariant `Rows` says that no list of rows, on the screen, sticky or on its way, has a
  device of `Solo` twice: such a device matches no port but its own (`MatchingSolo`), no device is at two ports, so
  its port is shown by its row and gets no second one (`ListingOK`), and `merge_retained_items` doubles none (`MergeOK`,
  by induction over the spinners). `CursorKept` is about all devices: `preserve_selected_index` looks for the first row of the id the cursor was on.
* `SpinnersTrue` (`SpinnerMatchesWork`). `Spin`: the devices asked for, at work and reported are
  distinct, and are those with a spinner; an action moves from one to the next, and its spinner goes with its result.
* `ExitLeavesNothing` (`ExitDetachesAll`). `ExitInv`: a closure that found no spinner found the worker idle and nothing queued
  (`NothingUnder`), so nobody takes a port while it detaches; once it knows the true ports, every port that is held is
  among those it has left, and what the loader's recovery frees meanwhile only makes them fewer (`ExitFewer`).
* `AnnouncedDone` (`DoesAsShown`). `Truth`: for a device outside `Off`, a row, on the screen, sticky or in a listing that counts, tells what its port holds; while a success
  waits to be drained it may still tell what was true before (`Fits`), and so may the loader's snapshot (`FitsPorts`). Each
  step leaves a device calm, excuses it, or turns it and leaves a result that says so (`Calm`, `Turned`). The result
  changes the row (`ToldOutcome`) and at the same step makes everything that was asked for before count no more.
  A row without a spinner has no result waiting, so a key that acts on it announces the truth (`Announces`), and nothing
  but the worker changes it until the worker comes to it (`Agrees`); a recovery that detaches or hides the device
  excuses it, so `auto_detach_matching_ports` finds nothing to clear for a device that is not excused. The mutex (`Mutex`) keeps
  the loader out between lookup and result. The main loop excuses a device that changed behind its back
  only as long as its row is wrong or a listing is on its way (`RightTells`).

**Control requests (`ControlRequestsProofs`).**
* `TypeCorrect`, `StringsCorrect` (`StringsNamed`). `StringsNamed` alone is not inductive: if two fields
  shared a number, unsetting one would take the other's string away. `Distinct` excludes that, because `new_string`
  takes the least number that is free (`NewStringFree`). Opening and building a device are sequences of giving a field a string and taking it away
  (`RenamedOK`, `UnnamedOK`, `GivenOK`), with room for four strings in a pool that starts empty. Requests never change a string.
* `Served` (`RequestsServed`) and `AcksTrue` (`AcksAreTrue`), with the invariant `ReplyInv`: the device is well formed and its last
  answer is one that `Control` or `Transfer` gives to that request. A request has one of four receivers (`Routed`), and a
  descriptor request one of the answers of `GetDescriptorOK`. `ExtractOK` says, for every file of bytes and not
  only for the three of the run, that `extract_configuration_descriptors` returns pieces of it, each at least a header
  and exactly as long as its length field says; it rests on `JumpExists`.
* `Fits` (`RepliesFit`), if every configuration that is put together from the interfaces of a host device is shorter than
  65536 bytes (`Describable`). The code writes that length with `as u16`, so the
  hypothesis is what it silently relies on. Simulated devices need none: at most 255 strings name at most
  255 interfaces (`OwnIsFew`).

*Not proved, only model-checked.* Liveness (`ImportAnswered`, `DisconnectReleases`, `HandlerReturns`, `RequestsEnd`,
`RequestAnswered`, `StartEnds`, `ListConverges`, `ActionsEnd`): fairness and `ENABLED` are out of the prover's reach.
Every invariant and action property of the passing runs, and both refinements, are proved.

## 5. What the models found

1. **One device, two clients** (`inventory_exclusive`). Between the two halves of `occupy` (986-989) the device is
   in neither list. A turn of the synchronisation in between takes it for a new one, opens it again, which takes the
   interfaces from the first handle (761-763), and offers it: a second client imports the device that the first one has just been
   given, against docs/superpowers/specs/2026-07-14-import-device-lifecycle-design.md:9.
2. **Lock order** (`inventory_lock_order`). `release` takes `used_devices`, then
   `available_devices` (996-997); the synchronisation takes them the other way round
   (920-921). A disconnect during a prune stops both for ever, and every import after them.
3. **Background with a client** (`inventory_background`). An import is entered in the occupancy map
   after its reply has been written (1306-1311); Esc in between sends the server to
   the background and drops that client, against README.md:37.
4. **Another session's port** (`ports_foreign`). The agent remembers port numbers and never asks
   what occupies them now (client_agent.rs 426): a device that `lusbip attach` put on
   a port the agent once used is detached by the agent's shutdown, against
   docs/superpowers/specs/2026-07-16-background-client-agent-design.md:66-67.

Found while modelling, without a run of its own:

* **Two agents.** Without `alone`, `SoleHolder` fails: two starters, or a starter and an agent started
  by hand, both find no live agent, and the second sweeps the directory in which the first has just
  bound its socket. docs/superpowers/specs/2026-07-16-background-client-agent-design.md:51 says that
  a second agent is never started. Two foreground clients can do the same to each other.
* **Pids.** docs/superpowers/specs/2026-07-16-background-client-agent-design.md:50 asks to verify that the pid
  belongs to the expected agent; both programs only look for `/proc/<pid>`. A pid that has been given away keeps every
  later client out, and makes a starter report a live agent, until that process ends. Another user's leftovers, which cannot be removed, do so for ever.
* **A failing `usbip port`.** One failure, in a mere refresh, detaches every port in use, those of other servers too
  (client.rs 571-579), where docs/QUALITY.md:25 excludes unrelated ports. After a second one nothing is said to be attached, and
  Ctrl+C then ends with success and the ports attached.
* **Twins.** Of two devices of one model the rows of both show the first one's port: Space on the row of the free one
  detaches the other. When both are attached, the second one's port is shown by no row, and the device is listed once more for it.
* **Configuration.** After SET_CONFIGURATION(2), SET_CONFIGURATION(1) is acknowledged and not passed on
  (device.rs 651): `configuration_value` is never updated.
* **Dead handle on offer.** Known devices are compared by bus id only (mod.rs 935-938): replugging within a
  second leaves an entry that cannot work, and the new device is not opened.
* **Cancelled read answered.** See the condition of `ResponsesExclusive` above.
* **Exit with work queued.** Ctrl+C detaches what is attached when it looks; an attach that the worker
  then completes outlives the client (tui.rs 368).

## 6. Not modelled, and why

* **Framing**: `read_from_socket` inside `select!` is the one piece of control in usbip_protocol.rs; it
  needs a model of bytes in flight and is left to a module of its own.
* **Port matching on parsed text**: pure functions on the output of `usbip port`.
* **Handler traits** (`UsbDeviceHandler`, `UsbInterfaceHandler`, host.rs 59-205 and 513-682): nothing calls
  them, since `handle_urb` calls the functions beside them; their reset and `release_claim` are nowhere else used.
* **Simulated HID and CDC devices**: used by tests only.
* **Command line, listing, rendering, serialisation of headers and of the agent's
  socket protocol**: no state of their own.
* **Bytes of bulk data** on the usual path (the workers of mod.rs): which request was rounded up to whole packets and by how much.
* In the modelled parts: several endpoint numbers, seqnums used twice, the final
  flush of a closed command channel, `add_device` and `remove_device` (which the server
  does not call), ports whose remote host is unknown, two direct sessions at once.

## 7. Plan

1. `Framing`: the command reader as a branch of `select!`, with arrival in pieces.
2. `PortMatching`: which ports belong to a target, unknown hosts included.
3. Proofs: whatever the two new modules state.
