----------------------------- MODULE HleApplet -----------------------------
(***************************************************************************)
(* The library applets that the emulator implements itself                 *)
(* (core/hle/applets/applet.cpp, with the calls of applet_manager.cpp that *)
(* an application uses).  An applet lives in a map from when it is created *)
(* until its update event finds that it has finished; the event repeats    *)
(* itself until then.                                                      *)
(***************************************************************************)
EXTENDS Naturals

CONSTANTS
    Ids,        \* the applets
    AtOnce,     \* those that finish as soon as they start, without the user
    Hasty,      \* whether an applet may be prepared again before it is removed
    Messages    \* whether the Home Menu sends the application messages

HleAssumption == AtOnce \subseteq Ids /\ Hasty \in BOOLEAN /\ Messages \in BOOLEAN

VARIABLES
    applets,        \* per id: "none", "running" or "finished"
    is_active,      \* the applets that are active
    asked,          \* the applets that wait for the answer to a callback
    library,        \* the applet of the library applet slot, or "None"
    prepared,       \* last_prepared_library_applet, until it is started
    active_slot,
    next_parameter, \* the signal of the parameter for the application, or "none"
    closing         \* library_applet_closing_command

manager == <<library, prepared, active_slot, next_parameter, closing>>
vars == <<applets, is_active, asked, manager>>

Waiting == active_slot = "LibraryApplet"
-----------------------------------------------------------------------------
\* PrepareToStartLibraryApplet creates the applet unless the map has it: also
\* when the one it has is finished and waits for its last update.  Create
\* registers the slot.
PrepareToStartLibraryApplet(id) ==
    /\ ~Waiting /\ prepared = "None"
    /\ next_parameter = "none" /\ library = "None"
    /\ Hasty \/ applets[id] = "none"
    /\ prepared' = id
    /\ IF applets[id] # "none" THEN UNCHANGED <<applets, is_active, library>>
       ELSE /\ applets' = [applets EXCEPT ![id] = "running"]
            /\ is_active' = is_active \ {id}
            /\ library' = id
    /\ UNCHANGED <<asked, active_slot, next_parameter, closing>>

\* CloseApplet: PrepareToCloseLibraryApplet, which changes nothing when a
\* parameter is pending, then CloseLibraryApplet with the command there is.
CloseApplet ==
    /\ closing' = IF next_parameter = "none" THEN "WakeupByExit" ELSE closing
    /\ IF closing' # "WakeupByPause"
       THEN next_parameter' = closing' /\ library' = "None"
       ELSE UNCHANGED <<next_parameter, library>>
    /\ active_slot' = "Application"
    /\ prepared' = "None"

\* What CloseApplet does to the applet itself.
Finished(id) ==
    /\ applets' = [applets EXCEPT ![id] = "finished"]
    /\ is_active' = is_active \ {id}

\* StartLibraryApplet: the wakeup goes straight to the applet in the map.  If it
\* is gone, the wakeup becomes a parameter that nobody reads.
StartLibraryApplet(id) ==
    /\ ~Waiting /\ prepared = id
    /\ id \notin AtOnce \/ applets[id] = "none"
    /\ next_parameter = "none"
    /\ prepared' = "None"
    /\ active_slot' = "LibraryApplet"
    /\ IF applets[id] = "none"
       THEN next_parameter' = "Lost" /\ UNCHANGED is_active
       ELSE is_active' = is_active \cup {id} /\ UNCHANGED next_parameter
    /\ UNCHANGED <<applets, asked, library, closing>>

\* An applet that finishes in Start; ReceiveParameter marks it active all the same.
StartAndFinish(id) ==
    /\ ~Waiting /\ prepared = id /\ id \in AtOnce
    /\ next_parameter = "none" /\ applets[id] # "none"
    /\ CloseApplet
    /\ applets' = [applets EXCEPT ![id] = "finished"]
    /\ is_active' = is_active \cup {id}
    /\ UNCHANGED asked

\* CancelLibraryApplet: WakeupByCancel finalizes the applet.
CancelLibraryApplet ==
    /\ ~Waiting
    /\ next_parameter = "none" /\ library # "None"
    /\ CloseApplet /\ Finished(library)
    /\ UNCHANGED asked

\* The application answers a callback: the applet goes on or is finalized.
AnswerCallback(id, result) ==
    /\ id \in asked /\ Waiting /\ next_parameter = "none"
    /\ asked' = asked \ {id}
    /\ IF result = "Continue" THEN UNCHANGED <<applets, is_active, manager>>
       ELSE CloseApplet /\ Finished(id)

ReceiveParameter ==
    /\ next_parameter \notin {"none", "Lost"}
    /\ next_parameter' = "none"
    /\ UNCHANGED <<applets, is_active, asked, library, prepared, active_slot, closing>>

\* A message of the Home Menu for the application.
SendMessage ==
    /\ Messages /\ next_parameter = "none"
    /\ next_parameter' = "Message"
    /\ UNCHANGED <<applets, is_active, asked, library, prepared, active_slot, closing>>


\* The applet that the user looks at: its frontend has data only once until it
\* is executed again.
Shown(id) == id \in is_active \ asked /\ Waiting

\* The end of AppletUpdateEvent: the event repeats itself for an applet that
\* still runs, and removes one that does not.
RemoveFinished(id, closes) ==
    applets' = [applets EXCEPT ![id] = IF @ = "running" /\ ~closes THEN @ ELSE "none"]

\* The user is done and the applet closes.
UpdateCloses(id) ==
    /\ applets[id] # "none" /\ Shown(id)
    /\ CloseApplet
    /\ RemoveFinished(id, TRUE)
    /\ is_active' = is_active \ {id}
    /\ UNCHANGED asked

\* The user is done and the application is asked whether the input will do.
UpdateAsks(id) ==
    /\ applets[id] # "none" /\ Shown(id)
    /\ asked' = asked \cup {id}
    /\ next_parameter' = "Callback"
    /\ RemoveFinished(id, FALSE)
    /\ UNCHANGED <<is_active, library, prepared, active_slot, closing>>

\* There is nothing to do for the applet.
UpdateIdles(id) ==
    /\ applets[id] # "none"
    /\ RemoveFinished(id, FALSE)
    /\ UNCHANGED <<is_active, asked, manager>>

\* The closing command may be left over from an earlier applet.
Init ==
    /\ applets = [id \in Ids |-> "none"] /\ is_active = {} /\ asked = {}
    /\ library = "None" /\ prepared = "None"
    /\ active_slot = "Application" /\ next_parameter = "none"
    /\ closing \in {"None", "WakeupByPause", "WakeupByExit"}

Next ==
    \/ \E id \in Ids :
        \/ PrepareToStartLibraryApplet(id) \/ StartLibraryApplet(id) \/ StartAndFinish(id)
        \/ \E result \in {"OK", "Continue"} : AnswerCallback(id, result)
        \/ UpdateCloses(id) \/ UpdateAsks(id) \/ UpdateIdles(id)
    \/ CancelLibraryApplet \/ ReceiveParameter \/ SendMessage

Spec == Init /\ [][Next]_vars

\* The application reads its parameters and answers its callbacks, and a user who
\* is shown an applet again and again is done at last.
FairSpec ==
    /\ Spec
    /\ WF_vars(ReceiveParameter)
    /\ \A id \in Ids :
        /\ SF_vars(UpdateCloses(id))
        /\ WF_vars(\E result \in {"OK", "Continue"} : AnswerCallback(id, result))
-----------------------------------------------------------------------------
(* The applet that has the console is in the map, where its update event   *)
(* finds it: it is not removed before it has closed.  "Otherwise the       *)
(* applet has terminated, in which case we should clean it up".            *)
ConsoleRuns == Waiting => \E id \in is_active : applets[id] # "none"

(* "Sends the LibAppletClosing signal to the application": an applet that  *)
(* gives the console back does so with a closing signal.                   *)
ClosingSent ==
    [][Waiting /\ ~Waiting' => next_parameter' = "WakeupByExit"]_vars

=============================================================================
