------------------------------ MODULE Service ------------------------------
(***************************************************************************)
(* service.rs: start and stop, called by any thread of the host program    *)
(* at any time. STATE holds the running instance; its mutex is held by     *)
(* start until the listener is bound, but by stop only to take the         *)
(* instance out, so that the up to two seconds of tearing the runtime down *)
(* overlap with other calls.                                               *)
(***************************************************************************)
EXTENDS Naturals, FiniteSets

CONSTANTS
    Callers,     \* threads of the host
    Runtimes,    \* bound: the tokio runtimes ever created
    Ports,       \* ports of the listen address, enough for all of them
    Configs,     \* texts start is given: [valid, port], port 0 asks for any
    None         \* no runtime, no caller

ASSUME RuntimesAssumption == IsFiniteSet(Runtimes) /\ None \notin Runtimes /\ None \notin Callers
ASSUME ConfigsAssumption ==
    /\ Ports \subseteq Nat \ {0}
    /\ IsFiniteSet(Ports) => Cardinality(Ports) >= Cardinality(Runtimes)
    /\ Configs \subseteq [valid : BOOLEAN, port : Ports \cup {0}]

VARIABLES
    state,      \* STATE: the running instance or None
    lock,       \* who holds its mutex
    pc,         \* each caller: "idle", "start", "bind", "stop", "send", "wait"
    arg,        \* the configuration a caller in start was given
    own,        \* the runtime a caller has created or taken
    phase,      \* of each runtime: "unused", "new", "serving", "told", "down"
    port,       \* what each runtime's listener is bound to, 0 for nothing
    clients,    \* runtimes with connections in progress
    late,       \* runtimes stop gave up waiting for
    blocker     \* history: the runtime whose port made a bind fail, or None

callVars == <<pc, arg, own>>
vars == <<state, lock, callVars, phase, port, clients, late, blocker>>

Init ==
    /\ state = None /\ lock = None
    /\ pc = [c \in Callers |-> "idle"]
    /\ arg = [c \in Callers |-> None]
    /\ own = [c \in Callers |-> None]
    /\ phase = [r \in Runtimes |-> "unused"]
    /\ port = [r \in Runtimes |-> 0]
    /\ clients = {} /\ late = {}
    /\ blocker = None

Goto(c, at) == pc' = [pc EXCEPT ![c] = at]
Return(c) ==
    /\ Goto(c, "idle")
    /\ own' = [own EXCEPT ![c] = None]
    /\ arg' = [arg EXCEPT ![c] = None]

---------------------------------------------------------------------------
(* start                                                                    *)

\* Bound: there is a runtime left for everyone who is starting one.
RuntimeLeft ==
    Cardinality({r \in Runtimes : phase[r] = "unused"})
        > Cardinality({c \in Callers : pc[c] = "start"})

CallStart(c) ==
    /\ pc[c] = "idle" /\ RuntimeLeft
    /\ \E f \in Configs : arg' = [arg EXCEPT ![c] = f]
    /\ Goto(c, "start")
    /\ UNCHANGED <<state, lock, own, phase, port, clients, late, blocker>>

\* "已经在运行", or a configuration that does not parse, or no runtime.
Refused(c) ==
    /\ pc[c] = "start" /\ lock = None
    /\ state # None \/ ~arg[c].valid
    /\ Return(c)
    /\ UNCHANGED <<state, lock, phase, port, clients, late, blocker>>

\* From the check on the mutex stays with start.
LockForBind_Released(c) == UNCHANGED lock   \* mutant: released after the check
LockForBind(c) == lock' = c

NewRuntime(c) ==
    /\ pc[c] = "start" /\ lock = None
    /\ state = None /\ arg[c].valid
    /\ \E r \in Runtimes :
          /\ phase[r] = "unused"
          /\ phase' = [phase EXCEPT ![r] = "new"]
          /\ own' = [own EXCEPT ![c] = r]
    /\ LockForBind(c)
    /\ Goto(c, "bind")
    /\ UNCHANGED <<state, arg, port, clients, late, blocker>>

\* The kernel (external): who listens on a port.
Taken(p) == {r \in Runtimes : port[r] = p}
Bindable(c) == {p \in Ports : Taken(p) = {} /\ arg[c].port \in {0, p}}

\* The listener is bound, serve is spawned and the instance becomes STATE.
BindOk(c) ==
    /\ pc[c] = "bind"
    /\ \E p \in Bindable(c) : port' = [port EXCEPT ![own[c]] = p]
    /\ phase' = [phase EXCEPT ![own[c]] = "serving"]
    /\ state' = own[c]
    /\ lock' = None
    /\ Return(c)
    /\ UNCHANGED <<clients, late, blocker>>

\* The address is in use: the error returns and drops the new runtime.
BindFails(c) ==
    /\ pc[c] = "bind"
    /\ arg[c].port # 0 /\ Taken(arg[c].port) # {}
    /\ blocker' \in Taken(arg[c].port)
    /\ phase' = [phase EXCEPT ![own[c]] = "down"]
    /\ lock' = None
    /\ Return(c)
    /\ UNCHANGED <<state, port, clients, late>>

---------------------------------------------------------------------------
(* stop                                                                     *)

CallStop(c) ==
    /\ pc[c] = "idle"
    /\ Goto(c, "stop")
    /\ UNCHANGED <<state, lock, arg, own, phase, port, clients, late, blocker>>

\* guard.take(), and the mutex is free again.
Take_Copied == UNCHANGED state   \* mutant: the instance stays in STATE
Take == state' = None

TakeRunning(c) ==
    /\ pc[c] = "stop" /\ lock = None
    /\ Take
    /\ \/ state = None /\ Return(c)
       \/ /\ state # None
          /\ own' = [own EXCEPT ![c] = state]
          /\ Goto(c, "send")
          /\ UNCHANGED arg
    /\ UNCHANGED <<lock, phase, port, clients, late, blocker>>

\* shutdown.send: serve's task is told to end.
Send(c) ==
    /\ pc[c] = "send"
    /\ phase' = [phase EXCEPT ![own[c]] = IF @ = "serving" THEN "told" ELSE @]
    /\ Goto(c, "wait")
    /\ UNCHANGED <<state, lock, arg, own, port, clients, late, blocker>>

\* shutdown_timeout: until the runtime is down ...
Finished_Background(r) == TRUE   \* mutant: shutdown_background
Finished(r) == phase[r] = "down"

StopReturns(c) ==
    /\ pc[c] = "wait"
    /\ Finished(own[c])
    /\ Return(c)
    /\ UNCHANGED <<state, lock, phase, port, clients, late, blocker>>

\* ... or two seconds have passed: a thread of it is still busy, in a name
\* lookup for instance.
GivesUp_Never(c) == FALSE   \* mutant: waiting without a limit
GivesUp(c) == phase[own[c]] # "down"

StopGivesUp(c) ==
    /\ pc[c] = "wait"
    /\ GivesUp(c)
    /\ late' = late \cup {own[c]}
    /\ Return(c)
    /\ UNCHANGED <<state, lock, phase, port, clients, blocker>>

---------------------------------------------------------------------------
(* The runtime's own threads                                                *)

\* serve accepts, handle_connection ends.
Connections(r) ==
    /\ phase[r] = "serving"
    /\ clients' \in {clients \cup {r}, clients \ {r}}
    /\ UNCHANGED <<state, lock, callVars, phase, port, late, blocker>>

\* select takes rx: serve is dropped and with it the listener. The connections,
\* tasks of their own, go on.
ServeEnds(r) ==
    /\ phase[r] = "told" /\ port[r] # 0
    /\ port' = [port EXCEPT ![r] = 0]
    /\ UNCHANGED <<state, lock, callVars, phase, clients, late, blocker>>

\* The shutdown stop has begun drops every task; it may come to serve's before
\* that has seen the message.
RuntimeDown(r) ==
    /\ phase[r] = "told"
    /\ \E c \in Callers : (pc[c] = "wait" /\ own[c] = r) \/ r \in late
    /\ phase' = [phase EXCEPT ![r] = "down"]
    /\ port' = [port EXCEPT ![r] = 0]
    /\ clients' = clients \ {r}
    /\ UNCHANGED <<state, lock, callVars, late, blocker>>

Inside(c) ==
    \/ Refused(c) \/ NewRuntime(c) \/ BindOk(c) \/ BindFails(c)
    \/ TakeRunning(c) \/ Send(c) \/ StopReturns(c) \/ StopGivesUp(c)

Next ==
    \/ \E c \in Callers : CallStart(c) \/ CallStop(c) \/ Inside(c)
    \/ \E r \in Runtimes : Connections(r) \/ ServeEnds(r) \/ RuntimeDown(r)

\* The mutex is given to every thread that waits for it. A runtime may never
\* come down, and nobody has to call anything.
Spec == Init /\ [][Next]_vars /\ \A c \in Callers : SF_vars(Inside(c))

---------------------------------------------------------------------------
(* Properties.                                                              *)

\* Types; the mutex is held exactly while its holder binds (service.rs:28-60).
TypeOK ==
    /\ state \in Runtimes \cup {None}
    /\ pc \in [Callers -> {"idle", "start", "bind", "stop", "send", "wait"}]
    /\ \A c \in Callers : IF pc[c] \in {"start", "bind"} THEN arg[c] \in Configs ELSE arg[c] = None
    /\ phase \in [Runtimes -> {"unused", "new", "serving", "told", "down"}]
    /\ port \in [Runtimes -> Ports \cup {0}]
    /\ clients \subseteq Runtimes /\ late \subseteq Runtimes
    /\ blocker \in Runtimes \cup {None}
    /\ \A c \in Callers : pc[c] = "bind" <=> lock = c
    /\ \A c \in Callers : pc[c] \in {"bind", "send", "wait"} <=> own[c] # None

\* The instance in STATE serves, on a port it alone listens on, and nobody is
\* stopping it (service.rs:50-60, 71-74).
RunningServes ==
    state # None =>
        /\ phase[state] = "serving" /\ port[state] # 0
        /\ Taken(port[state]) = {state}
        /\ \A c \in Callers : own[c] # state

\* No runtime listens or serves behind the host's back: it is in STATE, or a
\* call is about to tear it down, or stop gave up on it (service.rs:29-31, 71-80).
NoOrphan ==
    \A r \in Runtimes :
        port[r] # 0 \/ r \in clients =>
            r = state \/ r \in late \/ \E c \in Callers : own[c] = r

\* A start fails on a port of ours only while the stop of that instance has not
\* returned, or had to give up: after a stop one can start again
\* (service.rs:77-80).
RestartWorks ==
    [][\A c \in Callers : BindFails(c) =>
          blocker' \in late \/ \E other \in Callers : own[other] = blocker']_vars

\* Every call returns, whatever the runtimes do (service.rs:65-70, 80).
CallsReturn == \A c \in Callers : pc[c] # "idle" ~> pc[c] = "idle"

\* stop's comment says that a start while an instance is being torn down cannot
\* collide with its listener, since it binds port 0 (service.rs:68-70).
NoCollision == blocker = None
=============================================================================
