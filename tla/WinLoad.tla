------------------------------ MODULE WinLoad -------------------------------
(***************************************************************************)
(* The Windows driver's life: driver/PTEditorLoader, which creates,        *)
(* starts, stops and deletes its service, and DriverEntry and Unload of    *)
(* driver/PTEdit/Driver.c.  The service survives a reboot, the driver does *)
(* not, and neither does a loader that was cut short.                      *)
(***************************************************************************)
EXTENDS Naturals

CONSTANT MaxFaults      \* calls of the loader and the driver that may fail

ASSUME WinLoadAssumption == MaxFaults \in Nat

VARIABLES
  service,              \* "none", "stopped", "running" or "stop_pending"
  marked,               \* the service will be deleted once it has stopped
  device, link,         \* \Device\PTEditor and \??\PTEditorLink exist
  entry,                \* next step of DriverEntry or Unload, "none" outside
  loader,               \* next step of the loader, "none" when it does not run
  unload,               \* the loader was started with --unload
  faults,               \* calls that have failed so far
  promised              \* history: this run met no failing call and no
                        \* service that waits for its driver or its deletion

loadVars == <<service, marked, device, link, entry, loader, unload, faults, promised>>
driverState == <<service, marked, device, link, entry>>

LoadInit ==
  /\ service = "none" /\ marked = FALSE /\ device = FALSE /\ link = FALSE /\ entry = "none"
  /\ loader = "none" /\ unload = FALSE /\ faults = 0 /\ promised = FALSE

\* The image of the driver is in memory.
Image == service \in {"running", "stop_pending"} \/ entry # "none"
\* CreateFile on the link (external): only a started driver can be opened.
Openable == link /\ service = "running" /\ entry = "none"

-----------------------------------------------------------------------------
(* Driver.c.  StartService waits for DriverEntry. *)

Fault == faults < MaxFaults /\ faults' = faults + 1 /\ promised' = FALSE

CreateDevice ==
  /\ entry = "create"
  /\ \/ ~device /\ device' = TRUE /\ entry' = "link" /\ UNCHANGED <<loader, faults, promised>>
     \/ Fault /\ entry' = "none" /\ loader' = "close" /\ UNCHANGED device
  /\ UNCHANGED <<service, marked, link, unload>>

LinkFailsKeepsDevice ==    \* erroneous: the device is not deleted
  /\ entry = "link" /\ Fault
  /\ entry' = "none" /\ loader' = "close"
  /\ UNCHANGED <<device, service, marked, link, unload>>

LinkFails ==
  /\ entry = "link" /\ Fault
  /\ device' = FALSE /\ entry' = "none" /\ loader' = "close"
  /\ UNCHANGED <<service, marked, link, unload>>

\* Handlers are set before the driver can be opened.
CreateLink ==
  /\ entry = "link" /\ ~link
  /\ link' = TRUE /\ service' = "running" /\ entry' = "none" /\ loader' = "close"
  /\ UNCHANGED <<marked, device, unload, faults, promised>>

DriverEntry == CreateDevice \/ LinkFails \/ CreateLink

\* A stopped driver is unloaded when nobody has it open any more; then a
\* service marked for deletion goes too, once the loader has let go of it.
UnloadLink(users) ==
  /\ entry = "none" /\ service = "stop_pending" /\ users = 0
  /\ link' = FALSE /\ entry' = "unload"
  /\ UNCHANGED <<service, marked, device, loader, unload, faults, promised>>

UnloadDevice ==
  /\ entry = "unload"
  /\ device' = FALSE /\ entry' = "none" /\ service' = "stopped"
  /\ UNCHANGED <<marked, link, loader, unload, faults, promised>>

Unload(users) == UnloadLink(users) \/ UnloadDevice

\* Deletion of a service (external).
Delete ==
  /\ service = "stopped" /\ marked /\ loader \in {"none", "check", "create"}
  /\ service' = "none" /\ marked' = FALSE
  /\ UNCHANGED <<device, link, entry, loader, unload, faults, promised>>

-----------------------------------------------------------------------------
(* PTEditorLoader.cpp.  The results of StartService, ControlService and     *)
(* DeleteService are not tested: the loader goes on when they fail.         *)

\* Without PTEdit.sys in the current directory the loader does nothing.
Start(u) ==
  /\ loader = "none"
  /\ loader' = "check" /\ unload' = u
  /\ promised' = (service # "stop_pending" /\ ~(marked /\ service = "stopped"))
  /\ UNCHANGED <<driverState, faults>>

\* A loader that ends leaves nothing of its own behind.
Moves(from, to) == loader = from /\ loader' = to /\ unload' = (unload /\ to # "none")
Goes(from, to) == Moves(from, to) /\ UNCHANGED <<driverState, faults, promised>>
Fails(from, to) == Moves(from, to) /\ Fault /\ UNCHANGED driverState
Gives(from) == Fails(from, "none")

\* With the driver loaded there is nothing to load, otherwise nothing to
\* unload; then the service manager is opened.
CheckLoaded ==
  \/ Openable # unload /\ Goes("check", "none")
  \/ Openable = unload /\ (Goes("check", "create") \/ Gives("check"))

CreateService ==
  /\ loader = "create" /\ service = "none"
  /\ service' = "stopped"
  /\ loader' = IF unload THEN "stop" ELSE "start"
  /\ UNCHANGED <<marked, device, link, entry, unload, faults, promised>>

NoOpenService ==           \* erroneous: an existing service is not opened
  Goes("create", "none") /\ service # "none"
\* CreateService has failed.  The service exists, also when it was left by an
\* earlier run or a reboot; or this fails too.
OpenService ==
  \/ service # "none" /\ Goes("create", IF unload THEN "stop" ELSE "start")
  \/ Gives("create")

StartService ==
  \/ /\ loader = "start"
     /\ IF service = "stopped" /\ ~marked
          THEN entry' = "create" /\ loader' = "starting"
          ELSE UNCHANGED entry /\ loader' = "close"
     /\ UNCHANGED <<service, marked, device, link, unload, faults, promised>>
  \/ Fails("start", "close")

StopService ==
  \/ /\ loader = "stop"
     /\ service' = IF service = "running" THEN "stop_pending" ELSE service
     /\ loader' = "delete"
     /\ UNCHANGED <<marked, device, link, entry, unload, faults, promised>>
  \/ Fails("stop", "delete")

DeleteService ==
  \/ /\ loader = "delete"
     /\ marked' = TRUE /\ loader' = "close"
     /\ UNCHANGED <<service, device, link, entry, unload, faults, promised>>
  \/ Fails("delete", "close")

CloseService == Goes("close", "none")

Loader ==
  \/ \E u \in BOOLEAN : Start(u)
  \/ CheckLoaded \/ CreateService \/ OpenService
  \/ StartService \/ StopService \/ DeleteService \/ CloseService

\* A reboot (external): services that were not deleted are still there.
Reboot ==
  /\ service' = IF service = "none" \/ marked THEN "none" ELSE "stopped"
  /\ marked' = FALSE /\ device' = FALSE /\ link' = FALSE /\ entry' = "none"
  /\ loader' = "none" /\ unload' = FALSE /\ promised' = FALSE
  /\ UNCHANGED faults
=============================================================================
