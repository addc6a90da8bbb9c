------------------------------ MODULE PluginPair ------------------------------
(***************************************************************************)
(* What a VST3 plug-in may rely on: the order in which a host creates,      *)
(* connects, runs and takes down its component and its controller.  It is   *)
(* the order the comments of HostedPlugin::open and HostedPlugin::close     *)
(* claim ("strict separated-component ordering", "Steinberg PlugProvider    *)
(* teardown ordering"), without the transactions that produce it.           *)
(***************************************************************************)
VARIABLES
    component,  \* "none", "created", "initialized", "terminated"
    controller, \* the same, or "component": one object is both
    handler,    \* the controller holds a component handler
    connected,  \* the connections that stand
    view,       \* a view of the controller is open
    mode        \* "off", "setup", "active", "processing"

vars == <<component, controller, handler, connected, view, mode>>

HasController == controller \in {"initialized", "component"}
Idle == mode \in {"off", "setup"}

Init ==
    /\ component = "none"
    /\ controller = "none"
    /\ ~handler
    /\ connected = {}
    /\ ~view
    /\ mode = "off"

Component ==
    /\ controller = "none"
    /\ <<component, component'>> \in {<<"none", "created">>, <<"created", "initialized">>}
    /\ UNCHANGED <<controller, handler, connected, view, mode>>

Controller ==
    /\ component = "initialized"
    /\ mode = "off"
    /\ <<controller, controller'>> \in
          {<<"none", "component">>, <<"none", "created">>, <<"created", "initialized">>}
    /\ UNCHANGED <<component, handler, connected, view, mode>>

\* The handler is there before the two sides are connected and before anything runs.
Handler ==
    /\ component = "initialized"
    /\ HasController
    /\ connected = {}
    /\ mode = "off"
    /\ handler'
    /\ UNCHANGED <<component, controller, connected, view, mode>>

Connect ==
    /\ controller = "initialized"
    /\ handler
    /\ mode = "off"
    /\ connected' \in {{"component"}, {"component", "controller"}}
    /\ connected \subseteq connected'
    /\ UNCHANGED <<component, controller, handler, view, mode>>

\* Setup, activation, processing, and back; never two steps at once upwards.
Run ==
    /\ component = "initialized"
    /\ \/ /\ controller \in {"none", "initialized", "component"}
          /\ HasController => handler
          /\ connected # {"component"}
          /\ <<mode, mode'>> \in
                {<<"off", "setup">>, <<"setup", "active">>, <<"active", "processing">>}
       \/ <<mode, mode'>> \in
             {<<"processing", "active">>, <<"processing", "setup">>, <<"active", "setup">>}
    /\ UNCHANGED <<component, controller, handler, connected, view>>

View ==
    /\ HasController /\ handler
    /\ component = "initialized"
    /\ view' # view
    /\ UNCHANGED <<component, controller, handler, connected, mode>>

\* The handler goes once no view is left, the connections once nothing runs.
Unhook ==
    /\ ~view
    /\ handler' => handler
    /\ connected' \subseteq connected
    /\ connected' # connected => Idle
    /\ UNCHANGED <<component, controller, view, mode>>

\* An initialized component is terminated first, then its controller, then both go.
Terminate ==
    /\ Idle /\ ~view /\ ~handler
    /\ connected = {}
    /\ mode' = "off"
    /\ \/ /\ component = "initialized"
          /\ component' = "terminated"
          /\ UNCHANGED controller
       \/ /\ component # "initialized"
          /\ controller = "initialized"
          /\ controller' = "terminated"
          /\ UNCHANGED component
       \/ /\ component # "initialized"
          /\ controller # "initialized"
          /\ component' = "none"
          /\ controller' = "none"
    /\ UNCHANGED <<handler, connected, view>>

Next == Component \/ Controller \/ Handler \/ Connect \/ Run \/ View \/ Unhook \/ Terminate

Spec == Init /\ [][Next]_vars
=============================================================================
