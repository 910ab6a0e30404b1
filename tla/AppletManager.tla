--------------------------- MODULE AppletManager ---------------------------
(***************************************************************************)
(* The applet manager (service/apt/applet_manager.cpp): four slots, the    *)
(* slot that has the console, the one parameter in flight and the one that *)
(* is kept for an applet that has not registered yet.  One applet per slot *)
(* is modelled.  An applet that gives up the console sleeps until it       *)
(* receives a parameter with a wakeup signal, and only an applet that is   *)
(* awake makes calls.                                                      *)
(***************************************************************************)
EXTENDS Naturals, FiniteSets

CONSTANTS
    Boot,       \* the applet the user starts
    Messages    \* the applets that plain messages are sent to

Ids == {"App", "Sys", "Home", "Lib"}
Slots == {"Application", "SystemApplet", "HomeMenu", "LibraryApplet"}
Wakeups == {"Wakeup", "WakeupByPause", "WakeupByExit", "WakeupByCancel"}

ASSUME AppletAssumption == Boot \in {"App", "Home"} /\ Messages \subseteq Ids

VARIABLES
    slots,          \* applet_slots: applet_id and registered
    active_slot,
    next_parameter, delayed_parameter,
    last_library_launcher_slot, library_applet_closing_command,
    last_system_launcher_slot, last_jump_to_home_slot,
    ordered_to_close_sys_applet, ordered_to_close_application,
    application_cancelled, application_close_target,
    app_start_parameters,   \* whether an application is prepared
    booting,        \* the titles that are starting: "launched", then "initialized"
    awake           \* the applets that run

library == <<last_library_launcher_slot, library_applet_closing_command>>
system == <<last_system_launcher_slot, last_jump_to_home_slot, ordered_to_close_sys_applet>>
application == <<ordered_to_close_application, application_cancelled,
                 application_close_target, app_start_parameters>>
parameters == <<next_parameter, delayed_parameter>>
vars == <<slots, active_slot, parameters, library, system, application, booting, awake>>

None == [destination |-> "None", signal |-> "None"]
Param(id, signal) == [destination |-> id, signal |-> signal]
Empty == [applet_id |-> "None", registered |-> FALSE]

Registered(s) == slots[s].registered
GetAppletSlotId(s) == IF s = "Error" THEN "None" ELSE slots[s].applet_id

GetAppletSlotFromAttributes(id) ==
    CASE id = "App" -> "Application" [] id = "Sys" -> "SystemApplet"
      [] id = "Home" -> "HomeMenu"   [] id = "Lib" -> "LibraryApplet"

\* Whether some slot in t holds a registered applet with the id.
IsRegistered(t, id) == \E s \in Slots : t[s].applet_id = id /\ t[s].registered

\* Only system applets and the Home Menu have AppletPos::System; an empty slot
\* has attributes 0, which is AppletPos::Application.
IsSystem(s) == GetAppletSlotId(s) \in {"Sys", "Home"}
IsApplication(s) == GetAppletSlotId(s) = "App"

CancelAndSendParameter(p) == next_parameter' = p

\* SendParameter: blocked by a pending parameter.
SendParameter(p) ==
    next_parameter' = IF next_parameter = None THEN p ELSE next_parameter

\* A mutant: nothing is kept for an applet that is not registered.
SendAfterRegistration_NotKept(t, p) ==
    /\ IF IsRegistered(t, p.destination) THEN CancelAndSendParameter(p)
       ELSE UNCHANGED next_parameter
    /\ UNCHANGED delayed_parameter

\* SendApplicationParameterAfterRegistration, with the slots as they are then.
SendAfterRegistration(t, p) ==
    IF IsRegistered(t, p.destination)
    THEN CancelAndSendParameter(p) /\ UNCHANGED delayed_parameter
    ELSE delayed_parameter' = p /\ UNCHANGED next_parameter
-----------------------------------------------------------------------------
\* A title that starts takes its slot; the first one has the console.
Initialize(id) ==
    LET s == GetAppletSlotFromAttributes(id) IN
    /\ booting[id] = "launched"
    /\ ~Registered(s)
    /\ slots' = [slots EXCEPT ![s].applet_id = id]
    /\ IF active_slot = "Error"
       THEN active_slot' = s /\ SendParameter(Param(id, "Wakeup"))
       ELSE UNCHANGED <<active_slot, next_parameter>>
    /\ booting' = [booting EXCEPT ![id] = "initialized"]
    /\ UNCHANGED <<delayed_parameter, library, system, application, awake>>

\* Enable registers the applet and sends what was kept for it, whether or not
\* another parameter is pending.
Enable(id) ==
    LET s == GetAppletSlotFromAttributes(id) IN
    /\ booting[id] = "initialized"
    /\ slots' = [slots EXCEPT ![s].registered = TRUE]
    /\ IF delayed_parameter # None /\ delayed_parameter.destination = slots[s].applet_id
       THEN CancelAndSendParameter(delayed_parameter) /\ delayed_parameter' = None
       ELSE UNCHANGED parameters
    /\ booting' = [booting EXCEPT ![id] = "no"]
    /\ UNCHANGED <<active_slot, library, system, application, awake>>

ReceiveParameter(id) ==
    /\ next_parameter # None /\ next_parameter.destination = id
    /\ IsRegistered(slots, id) /\ booting[id] = "no"
    /\ next_parameter' = None
    /\ awake' = IF next_parameter.signal \in Wakeups THEN awake \cup {id} ELSE awake
    /\ UNCHANGED <<slots, active_slot, delayed_parameter, library, system, application, booting>>

\* A plain message from one applet to another.
SendMessage(c, id) ==
    /\ id \in Messages /\ c \in awake \ {id}
    /\ SendParameter(Param(id, "Message")) /\ next_parameter = None
    /\ UNCHANGED <<slots, active_slot, delayed_parameter, library, system, application,
                   booting, awake>>

\* The applet that has the console is the one that makes the calls below.
Calls(c) == c \in awake /\ GetAppletSlotId(active_slot) = c

\* An applet that is about to lose its slot has closed its library applet.
NoLibraryApplet == booting["Lib"] = "no" /\ ~Registered("LibraryApplet")

\* Nothing is pending, or a message got in after the call that prepares looked.
Prepared == next_parameter = None \/ Messages # {}
-----------------------------------------------------------------------------
\* PrepareToStartLibraryApplet; a title that does not start changes no more.
PrepareToStartLibraryApplet(c) ==
    /\ Calls(c) /\ c # "Lib"
    /\ next_parameter = None /\ ~Registered("LibraryApplet")
    /\ booting["Lib"] = "no"
    /\ last_library_launcher_slot' = active_slot
    /\ booting' = [booting EXCEPT !["Lib"] = "launched"]
    /\ UNCHANGED <<slots, active_slot, parameters, library_applet_closing_command, system,
                   application, awake>>

\* The console goes to the library applet, unless its wakeup is blocked.
StartLibraryApplet(c) ==
    /\ Calls(c) /\ c # "Lib"
    /\ booting["Lib"] # "no" \/ Registered("LibraryApplet")
    /\ last_library_launcher_slot = active_slot
    /\ next_parameter = None
    /\ active_slot' = "LibraryApplet"
    /\ SendParameter(Param("Lib", "Wakeup"))
    /\ awake' = awake \ {c}
    /\ UNCHANGED <<slots, delayed_parameter, library, system, application, booting>>

\* The four closing commands are told apart only by whether one is a pause.
PrepareToCloseLibraryApplet(command) ==
    /\ Calls("Lib")
    /\ next_parameter = None
    /\ library_applet_closing_command' = command
    /\ UNCHANGED <<slots, active_slot, parameters, last_library_launcher_slot, system,
                   application, booting, awake>>

CloseLibraryApplet ==
    LET p == Param(GetAppletSlotId(last_library_launcher_slot),
                   library_applet_closing_command) IN
    /\ Calls("Lib")
    /\ library_applet_closing_command # "None" /\ Prepared
    /\ active_slot' = last_library_launcher_slot
    /\ IF library_applet_closing_command # "WakeupByPause"
       THEN /\ CancelAndSendParameter(p)
            /\ slots' = [slots EXCEPT !["LibraryApplet"] = Empty]
       ELSE SendParameter(p) /\ UNCHANGED slots
    /\ awake' = awake \ {"Lib"}
    /\ UNCHANGED <<delayed_parameter, library, system, application, booting>>

CancelLibraryApplet(c) ==
    /\ Calls(c) /\ c # "Lib"
    /\ next_parameter = None /\ Registered("LibraryApplet")
    /\ SendParameter(Param(slots["LibraryApplet"].applet_id, "WakeupByCancel"))
    /\ UNCHANGED <<slots, active_slot, delayed_parameter, library, system, application,
                   booting, awake>>
-----------------------------------------------------------------------------
PrepareToStartSystemApplet(c) ==
    /\ Calls(c) /\ c # "Lib"
    /\ next_parameter = None
    /\ last_system_launcher_slot' = active_slot
    /\ UNCHANGED <<slots, active_slot, parameters, library, last_jump_to_home_slot,
                   ordered_to_close_sys_applet, application, booting, awake>>

\* A system applet that starts another loses its slot first, even if the other
\* then fails to start.
StartSystemApplet(c, id, starts) ==
    LET from == last_system_launcher_slot
        t == IF from = "SystemApplet" THEN [slots EXCEPT ![from] = Empty] ELSE slots
        s == GetAppletSlotFromAttributes(id)
        launch == ~t[s].registered
    IN
    /\ Calls(c) /\ c # "Lib" /\ from = active_slot /\ Prepared
    /\ c = "Sys" => NoLibraryApplet
    /\ slots' = t
    /\ IF launch /\ ~starts
       THEN UNCHANGED <<active_slot, parameters, booting, awake>>
       ELSE /\ booting[id] = "no"
            /\ active_slot' = s
            /\ SendAfterRegistration(t, Param(id, "Wakeup"))
            /\ booting' = IF launch THEN [booting EXCEPT ![id] = "launched"] ELSE booting
            /\ awake' = awake \ {c}
    /\ UNCHANGED <<library, system, application>>

\* A call from a slot that is not a system applet's is an ASSERT.
CloseSystemApplet(c) ==
    /\ Calls(c) /\ c \in {"Sys", "Home"} /\ Prepared /\ NoLibraryApplet
    /\ slots' = [slots EXCEPT ![active_slot] = Empty]
    /\ IF ordered_to_close_sys_applet
       THEN /\ active_slot' = "Application"
            /\ CancelAndSendParameter(Param("App", "WakeupByExit"))
       ELSE active_slot' = last_system_launcher_slot /\ UNCHANGED next_parameter
    /\ ordered_to_close_sys_applet' = FALSE
    /\ awake' = awake \ {c}
    /\ UNCHANGED <<delayed_parameter, library, last_system_launcher_slot,
                   last_jump_to_home_slot, application, booting>>

\* GetAppletSlotFromPos(AppletPos::System): the Home Menu is second choice.
SystemSlot ==
    IF slots["SystemApplet"].applet_id # "None" THEN "SystemApplet" ELSE "HomeMenu"

OrderToCloseSystemApplet ==
    /\ Calls("App")
    /\ active_slot # "Error" /\ IsApplication(active_slot)
    /\ Registered(SystemSlot)
    /\ ordered_to_close_sys_applet' = TRUE
    /\ active_slot' = SystemSlot
    /\ SendParameter(Param(slots[SystemSlot].applet_id, "WakeupByCancel"))
    /\ awake' = awake \ {"App"}
    /\ UNCHANGED <<slots, delayed_parameter, library, last_system_launcher_slot,
                   last_jump_to_home_slot, application, booting>>
-----------------------------------------------------------------------------
\* EnsureHomeMenuLoaded asserts that no system applet is registered.
PrepareToJumpToHomeMenu(c) ==
    /\ Calls(c)
    /\ next_parameter = None
    /\ last_jump_to_home_slot' = active_slot
    /\ active_slot = "Application" => ~Registered("SystemApplet")
    /\ booting' = IF active_slot = "Application" /\ ~Registered("HomeMenu")
                     /\ booting["Home"] = "no"
                  THEN [booting EXCEPT !["Home"] = "launched"] ELSE booting
    /\ UNCHANGED <<slots, active_slot, parameters, library, last_system_launcher_slot,
                   ordered_to_close_sys_applet, application, awake>>

\* The application goes to the Home Menu; a library applet, or the Home Menu
\* itself, sends the signal to itself; another system applet does nothing.
JumpToHomeMenu(c) ==
    LET id == GetAppletSlotId(last_jump_to_home_slot) IN
    /\ Calls(c) /\ id = c /\ id # "Sys" /\ Prepared
    /\ IF id = "App"
       THEN active_slot' = "HomeMenu" /\ SendParameter(Param("Home", "WakeupByPause"))
       ELSE UNCHANGED active_slot /\ SendParameter(Param(id, "WakeupByCancel"))
    /\ awake' = awake \ {c}
    /\ UNCHANGED <<slots, delayed_parameter, library, system, application, booting>>

\* PrepareToLeaveHomeMenu asks for a registered application; it changes nothing.
LeaveHomeMenu ==
    /\ Calls("Home")
    /\ Registered("Application") /\ Prepared
    /\ active_slot' = "Application"
    /\ SendParameter(Param("App", "WakeupByPause"))
    /\ awake' = awake \ {"Home"}
    /\ UNCHANGED <<slots, delayed_parameter, library, system, application, booting>>
-----------------------------------------------------------------------------
OrderToCloseApplication(c) ==
    /\ Calls(c) /\ c \in {"Sys", "Home"}
    /\ active_slot # "Error" /\ IsSystem(active_slot)
    /\ ordered_to_close_application' = TRUE
    /\ active_slot' = "Application"
    /\ SendParameter(Param("App", "WakeupByCancel"))
    /\ awake' = awake \ {c}
    /\ UNCHANGED <<slots, delayed_parameter, library, system, application_cancelled,
                   application_close_target, app_start_parameters, booting>>

\* Where the console goes when the application closes.
CloseTarget(return_to_sys) ==
    IF application_cancelled \/ ~return_to_sys THEN "Error"
    ELSE IF ordered_to_close_application /\ Registered("SystemApplet") THEN "SystemApplet"
    ELSE "HomeMenu"

\* PrepareToCloseApplication sets the target even when it then fails.
PrepareToCloseApplication(return_to_sys) ==
    /\ Calls("App")
    /\ active_slot # "Error" /\ IsApplication(active_slot)
    /\ application_close_target' = CloseTarget(return_to_sys)
    /\ UNCHANGED <<slots, active_slot, parameters, library, system,
                   ordered_to_close_application, application_cancelled,
                   app_start_parameters, booting, awake>>

\* With the Home Menu for a target and none loaded, the emulator shuts down; a
\* system applet that is the target does not close before the application does.
CloseApplication ==
    LET to == application_close_target IN
    /\ Calls("App") /\ Prepared /\ NoLibraryApplet
    /\ to = "Error" => Registered("SystemApplet") \/ Registered("HomeMenu")
    /\ to # "Error" => Registered(to)
    /\ slots' = [slots EXCEPT !["Application"] = Empty]
    /\ IF to # "Error"
       THEN active_slot' = to /\ CancelAndSendParameter(Param(slots[to].applet_id, "WakeupByExit"))
       ELSE UNCHANGED <<active_slot, next_parameter>>
    /\ ordered_to_close_application' = FALSE /\ application_cancelled' = FALSE
    /\ awake' = awake \ {"App"}
    /\ UNCHANGED <<delayed_parameter, library, system, application_close_target,
                   app_start_parameters, booting>>

\* An application that is prepared already is an ASSERT.
PrepareToStartApplication(c) ==
    /\ Calls(c) /\ c \in {"Sys", "Home"}
    /\ active_slot # "Error" /\ IsSystem(active_slot)
    /\ ~Registered("Application") /\ booting["App"] = "no"
    /\ ~app_start_parameters
    /\ app_start_parameters' = TRUE
    /\ UNCHANGED <<slots, active_slot, parameters, library, system,
                   ordered_to_close_application, application_cancelled,
                   application_close_target, booting, awake>>

\* A title that fails to launch shuts the emulator down.
StartApplication(c, paused) ==
    /\ Calls(c) /\ c \in {"Sys", "Home"}
    /\ app_start_parameters
    /\ active_slot' = "Application"
    /\ booting' = [booting EXCEPT !["App"] = "launched"]
    /\ app_start_parameters' = FALSE
    /\ IF paused THEN UNCHANGED <<parameters, awake>>
       ELSE /\ SendAfterRegistration(slots, Param("App", "Wakeup"))
            /\ awake' = awake \ {c}
    /\ UNCHANGED <<slots, library, system, ordered_to_close_application,
                   application_cancelled, application_close_target>>

WakeupApplication(c) ==
    /\ c \in awake \cap {"Sys", "Home"}
    /\ booting["App"] # "no" \/ Registered("Application")
    /\ SendAfterRegistration(slots, Param("App", "Wakeup"))
    /\ awake' = awake \ {c}
    /\ UNCHANGED <<slots, active_slot, library, system, application, booting>>

CancelApplication(c) ==
    /\ c \in awake \cap {"Sys", "Home"}
    /\ slots["Application"].applet_id # "None"
    /\ application_cancelled' = TRUE
    /\ SendAfterRegistration(slots, Param("App", "WakeupByCancel"))
    /\ UNCHANGED <<slots, active_slot, library, system, ordered_to_close_application,
                   application_close_target, app_start_parameters, booting, awake>>
-----------------------------------------------------------------------------
Init ==
    /\ slots = [s \in Slots |-> Empty]
    /\ active_slot = "Error"
    /\ next_parameter = None /\ delayed_parameter = None
    /\ last_library_launcher_slot = "Error" /\ library_applet_closing_command = "None"
    /\ last_system_launcher_slot = "Error" /\ last_jump_to_home_slot = "Error"
    /\ ordered_to_close_sys_applet = FALSE /\ ordered_to_close_application = FALSE
    /\ application_cancelled = FALSE /\ application_close_target = "Error"
    /\ app_start_parameters = FALSE
    /\ booting = [id \in Ids |-> IF id = Boot THEN "launched" ELSE "no"]
    /\ awake = {}

Next ==
    \/ \E id \in Ids : Initialize(id) \/ Enable(id) \/ ReceiveParameter(id)
    \/ \E c, id \in Ids : SendMessage(c, id)
    \/ \E c \in Ids :
        \/ PrepareToStartLibraryApplet(c) \/ StartLibraryApplet(c) \/ CancelLibraryApplet(c)
        \/ PrepareToStartSystemApplet(c)
        \/ \E id \in {"Sys", "Home"}, starts \in BOOLEAN : StartSystemApplet(c, id, starts)
        \/ CloseSystemApplet(c)
        \/ PrepareToJumpToHomeMenu(c) \/ JumpToHomeMenu(c)
        \/ OrderToCloseApplication(c)
        \/ PrepareToStartApplication(c)
        \/ \E paused \in BOOLEAN : StartApplication(c, paused)
        \/ WakeupApplication(c) \/ CancelApplication(c)
    \/ \E command \in {"WakeupByPause", "WakeupByExit"} : PrepareToCloseLibraryApplet(command)
    \/ CloseLibraryApplet \/ OrderToCloseSystemApplet \/ LeaveHomeMenu
    \/ \E return_to_sys \in BOOLEAN : PrepareToCloseApplication(return_to_sys)
    \/ CloseApplication

Spec == Init /\ [][Next]_vars
-----------------------------------------------------------------------------
(* A parameter is kept only for an applet that is not registered: one that *)
(* registers gets what was kept for it, whatever else happened meanwhile.  *)
DelayedUnregistered ==
    delayed_parameter # None => ~IsRegistered(slots, delayed_parameter.destination)

WakeupFor(id) ==
    \E p \in {next_parameter, delayed_parameter} :
        p.destination = id /\ p.signal \in Wakeups

(* The console changes hands with a wakeup: unless another parameter was   *)
(* pending, the applet of the slot that becomes active has a wakeup on its *)
(* way.  The two calls that send none by design are a paused start and the *)
(* close of a system applet that nobody ordered.                           *)
HandedOver ==
    [][active_slot' \notin {active_slot, "Error"} /\ next_parameter = None =>
          \/ \E id \in Ids : GetAppletSlotFromAttributes(id) = active_slot' /\ WakeupFor(id)'
          \/ app_start_parameters /\ ~app_start_parameters'
          \/ active_slot' = last_system_launcher_slot /\ slots'[active_slot] = Empty]_vars

(* A wakeup is sent with the console and reaches its applet, at once or    *)
(* when the applet registers.                                              *)
WakeupsSent == []DelayedUnregistered /\ HandedOver

(* An applet that registers leaves a pending parameter alone: "Real APT    *)
(* would loop trying to send the parameter until it succeeds, essentially  *)
(* waiting for existing parameters to be delivered."                       *)
DelayedWaits ==
    [][\A id \in Ids :
          Enable(id) /\ next_parameter # None => next_parameter' = next_parameter]_vars
=============================================================================
