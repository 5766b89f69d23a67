--------------------------- MODULE VhostUserVsock ---------------------------
(***************************************************************************)
(* The life of a vhost-user-vsock device after patch 0010: its connection  *)
(* to the external vhost-device-vsock backend is made at realize, dropped  *)
(* by the chardev's CLOSED event, and made again by OPENED.  All of this   *)
(* runs on the main loop, one callback at a time; the close is deferred to *)
(* a bottom half, so other events can come in between.                     *)
(*                                                                         *)
(* vhost_user_async_close, the chardev and the vhost core are QEMU's own   *)
(* and external.  Whether vhost_user_async_close leaves the chardev        *)
(* handler in place (upstream's removes it, and upstream's devices put it  *)
(* back when they disconnect; this one does not) is left to the constant   *)
(* HandlerKept.                                                            *)
(***************************************************************************)
EXTENDS Naturals

CONSTANTS
  HandlerKept,    \* may vhost_user_async_close keep, or remove, the handler
  Cid,            \* guest CIDs, the content of the backend's config space
  Faults,         \* TRUE: the backend may refuse a request
  MaxCloses       \* bound on the deferred closes that wait at once

ASSUME HandlerAssumption == HandlerKept \in SUBSET BOOLEAN /\ HandlerKept # {}
ASSUME FaultsAssumption == Faults \in BOOLEAN
ASSUME MaxClosesAssumption == MaxCloses \in Nat \ {0}

VARIABLES
  device,         \* "new", "realized", "gone", or "crashed" with all of QEMU
  link,           \* the chardev is connected to the backend
  armed,          \* vuv_event is the chardev's event handler
  connected,      \* vsock->connected
  inited,         \* vhost_dev_init holds resources vhost_dev_cleanup frees
  started,        \* vhost_dev_is_started
  driver,         \* the guest's driver has started the device
  closes,         \* bottom halves of vhost_user_async_close that wait
  backend,        \* the CID the backend was launched with (external)
  vsockcfg        \* the CID the device last read from it

vars == <<device, link, armed, connected, inited, started, driver, closes, backend, vsockcfg>>

TypeOK ==
  /\ device \in {"new", "realized", "gone", "crashed"}
  /\ link \in BOOLEAN
  /\ armed \in BOOLEAN
  /\ connected \in BOOLEAN
  /\ inited \in BOOLEAN
  /\ started \in BOOLEAN
  /\ driver \in BOOLEAN
  /\ closes \in 0 .. MaxCloses
  /\ backend \in Cid
  /\ vsockcfg \in Cid

Init ==
  /\ device = "new"
  /\ link \in BOOLEAN
  /\ armed = FALSE
  /\ connected = FALSE
  /\ inited = FALSE
  /\ started = FALSE
  /\ driver = FALSE
  /\ closes = 0
  /\ backend \in Cid
  /\ vsockcfg \in Cid

-----------------------------------------------------------------------------
(* Mutant: the CID is read once, when the device is created. *)
Connects_StaleConfig ==
  /\ inited' = TRUE
  /\ vsockcfg' = IF device = "new" THEN backend ELSE vsockcfg
  /\ connected' = TRUE
  /\ started' = driver

(* vuv_connect, when the device is not connected: it succeeds; or fails in    *)
(* vhost_dev_init or vhost_dev_get_config and leaves nothing behind; or fails *)
(* to restart the backend for a guest that already uses the device.           *)
Connects ==
  /\ inited' = TRUE
  /\ vsockcfg' = backend
  /\ connected' = TRUE
  /\ started' = driver

(* Mutant: no vhost_dev_cleanup when the config cannot be read. *)
ConnectFails_Leaks ==
  /\ inited' \in BOOLEAN
  /\ vsockcfg' \in {vsockcfg, backend}
  /\ UNCHANGED <<connected, started>>

(* Mutant: a config that cannot be read is left zeroed. *)
ConnectFails_Zeroes ==
  /\ inited' = FALSE
  /\ vsockcfg' \in {vsockcfg, 0}
  /\ UNCHANGED <<connected, started>>

ConnectFails ==
  /\ inited' = FALSE
  /\ vsockcfg' \in {vsockcfg, backend}
  /\ UNCHANGED <<connected, started>>

RestartFails ==
  /\ driver
  /\ inited' = TRUE
  /\ vsockcfg' = backend
  /\ connected' = TRUE
  /\ UNCHANGED started

(* vhost_user_async_close: the disconnect is left to a bottom half.           *)
CloseLater ==
  /\ closes < MaxCloses
  /\ closes' = closes + 1
  /\ armed' \in {armed /\ kept : kept \in HandlerKept}

-----------------------------------------------------------------------------
RealizeSucceeds ==
  /\ device = "new"
  /\ link
  /\ Connects
  /\ device' = "realized"
  /\ armed' = TRUE
  /\ UNCHANGED <<link, driver, closes, backend>>

(* A device that cannot connect is not created; the user may try again.       *)
RealizeFails ==
  /\ device = "new"
  /\ Faults \/ ~link
  /\ ConnectFails
  /\ UNCHANGED <<device, link, armed, driver, closes, backend>>

(* The chardev connects again, to a backend that may have been relaunched:    *)
(* CHR_EVENT_OPENED, of no effect without the handler or while connected.     *)
Opens ==
  /\ device # "crashed"
  /\ ~link
  /\ link' = TRUE
  /\ UNCHANGED backend

OpenedUnnoticed ==
  /\ Opens
  /\ ~armed \/ connected
  /\ UNCHANGED <<device, armed, connected, inited, started, driver, closes, vsockcfg>>

OpenedConnects ==
  /\ Opens
  /\ armed /\ ~connected
  /\ Connects
  /\ UNCHANGED <<device, armed, driver, closes>>

(* error_report_err, then qemu_chr_fe_disconnect, which raises CLOSED.        *)
OpenedFails ==
  /\ device = "realized"
  /\ ~link
  /\ armed /\ ~connected
  /\ Faults
  /\ ConnectFails
  /\ CloseLater
  /\ UNCHANGED <<device, link, driver, backend>>

(* The restart leaves local_err NULL, and error_report_err dereferences it.   *)
OpenedCrashes ==
  /\ Opens
  /\ armed /\ ~connected
  /\ Faults
  /\ RestartFails
  /\ device' = "crashed"
  /\ UNCHANGED <<armed, driver, closes>>

(* While the link is down the backend may be relaunched with another CID.     *)
BackendRelaunched ==
  /\ ~link
  /\ device # "crashed"
  /\ backend' \in Cid
  /\ UNCHANGED <<device, link, armed, connected, inited, started, driver, closes, vsockcfg>>

(* Mutant: the event has no case for CLOSED. *)
Closed_Ignored ==
  /\ device # "crashed"
  /\ link
  /\ link' = FALSE
  /\ UNCHANGED <<closes, armed, device, connected, inited, started, driver, backend, vsockcfg>>

(* The connection drops: CHR_EVENT_CLOSED.                                    *)
Closed ==
  /\ device # "crashed"
  /\ link
  /\ link' = FALSE
  /\ IF armed THEN CloseLater ELSE UNCHANGED <<closes, armed>>
  /\ UNCHANGED <<device, connected, inited, started, driver, backend, vsockcfg>>

(* The bottom half: vuv_disconnect. *)
vuv_disconnect ==
  /\ closes > 0
  /\ device # "crashed"
  /\ closes' = closes - 1
  /\ IF connected
       THEN connected' = FALSE /\ started' = FALSE /\ inited' = FALSE
       ELSE UNCHANGED <<connected, started, inited>>
  /\ UNCHANGED <<device, link, armed, driver, backend, vsockcfg>>

(* Mutant: the connected flag survives the removal. *)
vuv_device_unrealize_StaysConnected ==
  /\ device = "realized"
  /\ device' = "gone"
  /\ started' = FALSE
  /\ armed' = FALSE
  /\ inited' = FALSE
  /\ UNCHANGED <<connected, link, driver, closes, backend, vsockcfg>>

vuv_device_unrealize ==
  /\ device = "realized"
  /\ device' = "gone"
  /\ started' = FALSE
  /\ armed' = FALSE
  /\ connected' = FALSE
  /\ inited' = FALSE
  /\ UNCHANGED <<link, driver, closes, backend, vsockcfg>>

(* The guest's driver starts or stops the device (vuv_set_status, external):  *)
(* a device with no backend is not started until the backend comes back.      *)
DriverStarts ==
  /\ device = "realized"
  /\ ~driver
  /\ driver' = TRUE
  /\ started' \in {connected} \cup (IF Faults THEN {FALSE} ELSE {})
  /\ UNCHANGED <<device, link, armed, connected, inited, closes, backend, vsockcfg>>

DriverStops ==
  /\ device = "realized"
  /\ driver
  /\ driver' = FALSE
  /\ started' = FALSE
  /\ UNCHANGED <<device, link, armed, connected, inited, closes, backend, vsockcfg>>

Next ==
  \/ RealizeSucceeds \/ RealizeFails
  \/ OpenedUnnoticed \/ OpenedConnects \/ OpenedFails \/ OpenedCrashes
  \/ BackendRelaunched \/ Closed \/ vuv_disconnect \/ vuv_device_unrealize
  \/ DriverStarts \/ DriverStops

Spec == Init /\ [][Next]_vars

(* The main loop runs every bottom half that waits. *)
FairSpec == Spec /\ WF_vars(vuv_disconnect)

-----------------------------------------------------------------------------
(* Properties. *)

(* The device holds vhost resources exactly while it counts as connected, so  *)
(* no reconnect initialises a device twice and no failed one leaks it; and    *)
(* the backend is in use only while it is connected.                          *)
ResourcesFollowConnection ==
  /\ inited <=> connected
  /\ started => connected

(* Once the deferred closes have run, a device connected to a live backend    *)
(* shows the guest the CID of that backend, not of one that is gone.          *)
ConfigOfThisBackend ==
  device = "realized" /\ connected /\ link /\ closes = 0 => vsockcfg = backend

(* A close that was deferred before the device was removed runs after it and  *)
(* finds nothing left to tear down.                                           *)
QuietOnceGone ==
  [][device = "gone" => UNCHANGED <<armed, connected, inited, started>>]_vars

(* A dropped connection is noticed: the device does not stay connected to a   *)
(* backend that is gone.                                                      *)
DropNoticed ==
  (device = "realized" /\ connected /\ ~link) ~> (~connected \/ link \/ device = "crashed")

(* "Fully initialized: install the chardev event handler so a dropped backend *)
(* connection is re-established" (patch 0010, vuv_device_realize): once the   *)
(* backend is back and stays, so is the connection.                           *)
Reestablished ==
  (<>[](device = "realized" /\ link)) => []<>connected
=============================================================================
