--------------------------- MODULE ServiceProofs ---------------------------
(***************************************************************************)
(* start and stop by any number of threads over any number of runtimes:    *)
(* the instance in STATE is one that serves, and no runtime is left that   *)
(* nobody can stop (service.rs).                                            *)
(***************************************************************************)
EXTENDS Service, TLAPS

Types ==
    /\ state \in Runtimes \cup {None} /\ lock \in Callers \cup {None}
    /\ pc \in [Callers -> {"idle", "start", "bind", "stop", "send", "wait"}]
    /\ arg \in [Callers -> Configs \cup {None}]
    /\ \A c \in Callers : IF pc[c] \in {"start", "bind"} THEN arg[c] \in Configs ELSE arg[c] = None
    /\ own \in [Callers -> Runtimes \cup {None}]
    /\ phase \in [Runtimes -> {"unused", "new", "serving", "told", "down"}]
    /\ port \in [Runtimes -> Ports \cup {0}]
    /\ clients \subseteq Runtimes /\ late \subseteq Runtimes
    /\ blocker \in Runtimes \cup {None}

\* Whoever binds has the mutex, and nothing is in STATE until it is done.
Mutex ==
    /\ \A c \in Callers : pc[c] = "bind" <=> lock = c
    /\ lock # None => state = None

\* A caller has a runtime from creating or taking it until it returns, and no
\* two callers have the same.
Ownership ==
    /\ \A c \in Callers : pc[c] \in {"bind", "send", "wait"} <=> own[c] # None
    /\ \A c, d \in Callers : own[c] # None /\ own[c] = own[d] => c = d
    /\ \A c \in Callers : own[c] # None => own[c] # state

\* What the phase of a runtime says of it.
Phases ==
    /\ state # None => phase[state] = "serving" /\ port[state] # 0
    /\ \A c \in Callers : pc[c] = "bind" => phase[own[c]] = "new"
    /\ \A c \in Callers : pc[c] = "send" => phase[own[c]] = "serving"
    /\ \A c \in Callers : pc[c] = "wait" => phase[own[c]] \in {"told", "down"}
    /\ \A r \in Runtimes : port[r] # 0 \/ r \in clients => phase[r] \in {"serving", "told"}

\* A port has one listener.
Listeners == \A r, s \in Runtimes : port[r] # 0 /\ port[r] = port[s] => r = s

(***************************************************************************)
(* NoOrphan is not inductive: the phase tells who answers for a runtime.   *)
(* One that serves is in STATE or in the hands of a stop that has not told *)
(* it yet; one that has been told has a stop waiting, or was given up on.  *)
(***************************************************************************)
Answered ==
    \A r \in Runtimes :
        /\ phase[r] = "serving" => r = state \/ \E c \in Callers : own[c] = r
        /\ phase[r] = "told" => r \in late \/ \E c \in Callers : own[c] = r

IInv == Types /\ Mutex /\ Ownership /\ Phases /\ Listeners /\ Answered

---------------------------------------------------------------------------
LEMMA InitIInv == Init => IInv
  BY RuntimesAssumption
  DEF Init, IInv, Types, Mutex, Ownership, Phases, Listeners, Answered

\* None is no runtime, no caller and no configuration.
LEMMA Nobody == None \notin Runtimes /\ None \notin Callers
  BY RuntimesAssumption

LEMMA CallStep ==
    ASSUME IInv, NEW c \in Callers, CallStart(c) \/ CallStop(c)
    PROVE  IInv'
  <1>1. /\ UNCHANGED <<state, lock, own, phase, port, clients, late, blocker>>
        /\ pc[c] = "idle" /\ pc' = [pc EXCEPT ![c] = pc'[c]] /\ pc'[c] \in {"start", "stop"}
    BY DEF CallStart, CallStop, Goto, IInv, Types
  <1>2. Types'
    <2>1. CASE CallStart(c)
      <3>1. PICK f \in Configs : arg' = [arg EXCEPT ![c] = f]
        BY <2>1 DEF CallStart
      <3> QED
        BY <1>1, <3>1, <2>1 DEF CallStart, Goto, IInv, Types
    <2>2. CASE CallStop(c)
      BY <1>1, <2>2 DEF CallStop, Goto, IInv, Types
    <2> QED
      BY <2>1, <2>2
  <1>3. Mutex' /\ Ownership' /\ Phases'
    BY <1>1, Nobody DEF IInv, Types, Mutex, Ownership, Phases
  <1>4. Listeners' /\ Answered'
    BY <1>1 DEF IInv, Listeners, Answered
  <1> QED
    BY <1>2, <1>3, <1>4 DEF IInv

\* A call returns without having had a runtime.
LEMMA RefusedStep ==
    ASSUME IInv, NEW c \in Callers, Refused(c)
    PROVE  IInv'
  <1>1. /\ UNCHANGED <<state, lock, phase, port, clients, late, blocker>>
        /\ pc[c] = "start" /\ pc' = [pc EXCEPT ![c] = "idle"]
        /\ own' = [own EXCEPT ![c] = None] /\ arg' = [arg EXCEPT ![c] = None]
    BY DEF Refused, Return, Goto
  <1>2. own' = own
    BY <1>1 DEF IInv, Types, Ownership
  <1>3. Types' /\ Mutex' /\ Ownership' /\ Phases'
    BY <1>1, <1>2, Nobody DEF IInv, Types, Mutex, Ownership, Phases
  <1>4. Listeners' /\ Answered'
    BY <1>1, <1>2 DEF IInv, Listeners, Answered
  <1> QED
    BY <1>3, <1>4 DEF IInv

LEMMA NewRuntimeStep ==
    ASSUME IInv, NEW c \in Callers, NewRuntime(c)
    PROVE  IInv'
  <1>1. PICK r \in Runtimes :
            /\ phase[r] = "unused" /\ phase' = [phase EXCEPT ![r] = "new"]
            /\ own' = [own EXCEPT ![c] = r]
    BY DEF NewRuntime
  <1>2. /\ UNCHANGED <<state, arg, port, clients, late, blocker>>
        /\ pc[c] = "start" /\ lock = None /\ state = None
        /\ lock' = c /\ pc' = [pc EXCEPT ![c] = "bind"]
    BY DEF NewRuntime, LockForBind, Goto
  <1>3. \A d \in Callers : own[d] # r
    BY <1>1, Nobody DEF IInv, Types, Ownership, Phases
  <1>4. Types' /\ Mutex'
    BY <1>1, <1>2, Nobody DEF IInv, Types, Mutex
  <1>5. Ownership' /\ Phases'
    BY <1>1, <1>2, <1>3, Nobody DEF IInv, Types, Ownership, Phases
  <1>6. Listeners' /\ Answered'
    <2>1. own[c] = None
      BY <1>2 DEF IInv, Types, Ownership
    <2> QED
      BY <1>1, <1>2, <2>1, Nobody DEF IInv, Types, Listeners, Answered
  <1> QED
    BY <1>4, <1>5, <1>6 DEF IInv

LEMMA BindOkStep ==
    ASSUME IInv, NEW c \in Callers, BindOk(c)
    PROVE  IInv'
  <1>1. PICK p \in Bindable(c) : port' = [port EXCEPT ![own[c]] = p]
    BY DEF BindOk
  <1>2. p \in Ports /\ p # 0 /\ \A r \in Runtimes : port[r] # p
    BY <1>1, ConfigsAssumption DEF Bindable, Taken
  <1>3. /\ UNCHANGED <<clients, late, blocker>> /\ pc[c] = "bind"
        /\ phase' = [phase EXCEPT ![own[c]] = "serving"]
        /\ state' = own[c] /\ lock' = None
        /\ pc' = [pc EXCEPT ![c] = "idle"]
        /\ own' = [own EXCEPT ![c] = None] /\ arg' = [arg EXCEPT ![c] = None]
    BY DEF BindOk, Return, Goto
  <1>4. own[c] \in Runtimes /\ phase[own[c]] = "new" /\ lock = c /\ state = None
    BY <1>3, Nobody DEF IInv, Types, Mutex, Ownership, Phases
  <1>5. Types' /\ Mutex'
    BY <1>1, <1>2, <1>3, <1>4, Nobody DEF IInv, Types, Mutex
  <1>6. Ownership' /\ Phases'
    BY <1>1, <1>2, <1>3, <1>4, Nobody DEF IInv, Types, Ownership, Phases
  <1>7. Listeners'
    BY <1>1, <1>2, <1>4 DEF IInv, Types, Listeners
  <1>8. Answered'
    BY <1>3, <1>4, Nobody DEF IInv, Types, Answered
  <1> QED
    BY <1>5, <1>6, <1>7, <1>8 DEF IInv

LEMMA BindFailsStep ==
    ASSUME IInv, NEW c \in Callers, BindFails(c)
    PROVE  IInv'
  <1>1. /\ UNCHANGED <<state, port, clients, late>> /\ pc[c] = "bind"
        /\ phase' = [phase EXCEPT ![own[c]] = "down"]
        /\ lock' = None /\ blocker' \in Runtimes
        /\ pc' = [pc EXCEPT ![c] = "idle"]
        /\ own' = [own EXCEPT ![c] = None] /\ arg' = [arg EXCEPT ![c] = None]
    BY DEF BindFails, Return, Goto, Taken
  <1>2. own[c] \in Runtimes /\ phase[own[c]] = "new" /\ lock = c /\ state = None
    BY <1>1, Nobody DEF IInv, Types, Mutex, Ownership, Phases
  <1>3. Types' /\ Mutex'
    BY <1>1, <1>2, Nobody DEF IInv, Types, Mutex
  <1>4. Ownership' /\ Phases'
    BY <1>1, <1>2, Nobody DEF IInv, Types, Ownership, Phases
  <1>5. Listeners' /\ Answered'
    BY <1>1, <1>2, Nobody DEF IInv, Types, Listeners, Answered
  <1> QED
    BY <1>3, <1>4, <1>5 DEF IInv

LEMMA TakeRunningStep ==
    ASSUME IInv, NEW c \in Callers, TakeRunning(c)
    PROVE  IInv'
  <1>1. /\ UNCHANGED <<lock, phase, port, clients, late, blocker>>
        /\ pc[c] = "stop" /\ lock = None /\ state' = None
    BY DEF TakeRunning, Take
  <1>2. own[c] = None /\ arg[c] = None
    BY <1>1 DEF IInv, Types, Ownership
  <1>3. CASE state = None /\ Return(c)
    <2>1. pc' = [pc EXCEPT ![c] = "idle"] /\ own' = own /\ arg' = arg
      BY <1>2, <1>3 DEF Return, Goto, IInv, Types
    <2>2. Types' /\ Mutex' /\ Ownership' /\ Phases'
      BY <1>1, <1>2, <1>3, <2>1, Nobody DEF IInv, Types, Mutex, Ownership, Phases
    <2>3. Listeners' /\ Answered'
      BY <1>1, <1>3, <2>1 DEF IInv, Listeners, Answered
    <2> QED
      BY <2>2, <2>3 DEF IInv
  <1>4. CASE state # None /\ own' = [own EXCEPT ![c] = state] /\ Goto(c, "send") /\ UNCHANGED arg
    <2>1. pc' = [pc EXCEPT ![c] = "send"] /\ state \in Runtimes /\ phase[state] = "serving"
      BY <1>4 DEF Goto, IInv, Types, Phases
    <2>2. Types' /\ Mutex'
      BY <1>1, <1>2, <1>4, <2>1, Nobody DEF IInv, Types, Mutex
    <2>3. Ownership' /\ Phases'
      BY <1>1, <1>2, <1>4, <2>1, Nobody DEF IInv, Types, Ownership, Phases
    <2>4. Listeners' /\ Answered'
      BY <1>1, <1>2, <1>4, <2>1, Nobody DEF IInv, Types, Listeners, Answered
    <2> QED
      BY <2>2, <2>3, <2>4 DEF IInv
  <1> QED
    BY <1>3, <1>4 DEF TakeRunning

LEMMA SendStep ==
    ASSUME IInv, NEW c \in Callers, Send(c)
    PROVE  IInv'
  <1>1. /\ UNCHANGED <<state, lock, arg, own, port, clients, late, blocker>>
        /\ pc[c] = "send" /\ pc' = [pc EXCEPT ![c] = "wait"]
    BY DEF Send, Goto
  <1>2. own[c] \in Runtimes /\ phase[own[c]] = "serving" /\ own[c] # state
    BY <1>1, Nobody DEF IInv, Types, Ownership, Phases
  <1>3. phase' = [phase EXCEPT ![own[c]] = "told"]
    BY <1>2 DEF Send
  <1>4. Types' /\ Mutex'
    BY <1>1, <1>2, <1>3, Nobody DEF IInv, Types, Mutex
  <1>5. Ownership' /\ Phases'
    BY <1>1, <1>2, <1>3, Nobody DEF IInv, Types, Ownership, Phases
  <1>6. Listeners' /\ Answered'
    BY <1>1, <1>2, <1>3 DEF IInv, Types, Listeners, Answered
  <1> QED
    BY <1>4, <1>5, <1>6 DEF IInv

\* The runtime is down, or it is given up on and then counts as late.
LEMMA StopEndsStep ==
    ASSUME IInv, NEW c \in Callers, StopReturns(c) \/ StopGivesUp(c)
    PROVE  IInv'
  <1>1. /\ UNCHANGED <<state, lock, phase, port, clients, blocker>>
        /\ pc[c] = "wait" /\ pc' = [pc EXCEPT ![c] = "idle"]
        /\ own' = [own EXCEPT ![c] = None] /\ arg' = [arg EXCEPT ![c] = None]
        /\ \/ phase[own[c]] = "down" /\ late' = late
           \/ late' = late \cup {own[c]}
    BY DEF StopReturns, StopGivesUp, Finished, Return, Goto
  <1>2. own[c] \in Runtimes /\ phase[own[c]] \in {"told", "down"}
    BY <1>1, Nobody DEF IInv, Types, Ownership, Phases
  <1>3. Types' /\ Mutex'
    BY <1>1, <1>2, Nobody DEF IInv, Types, Mutex
  <1>4. Ownership' /\ Phases'
    BY <1>1, <1>2, Nobody DEF IInv, Types, Ownership, Phases
  <1>5. Listeners' /\ Answered'
    BY <1>1, <1>2, Nobody DEF IInv, Types, Listeners, Answered
  <1> QED
    BY <1>3, <1>4, <1>5 DEF IInv

LEMMA RuntimeStep ==
    ASSUME IInv, NEW r \in Runtimes, Connections(r) \/ ServeEnds(r) \/ RuntimeDown(r)
    PROVE  IInv'
  <1>1. UNCHANGED <<state, lock, pc, arg, own, late, blocker>>
    BY DEF Connections, ServeEnds, RuntimeDown, callVars
  <1>2. CASE Connections(r)
    BY <1>1, <1>2 DEF Connections, IInv, Types, Mutex, Ownership, Phases, Listeners, Answered
  <1>3. CASE ServeEnds(r)
    BY <1>1, <1>3 DEF ServeEnds, IInv, Types, Mutex, Ownership, Phases, Listeners, Answered
  <1>4. CASE RuntimeDown(r)
    BY <1>1, <1>4 DEF RuntimeDown, IInv, Types, Mutex, Ownership, Phases, Listeners, Answered
  <1> QED
    BY <1>2, <1>3, <1>4

---------------------------------------------------------------------------
LEMMA StepIInv == IInv /\ [Next]_vars => IInv'
  <1> SUFFICES ASSUME IInv, [Next]_vars PROVE IInv'
    OBVIOUS
  <1>1. ASSUME NEW c \in Callers, CallStart(c) \/ CallStop(c) \/ Inside(c) PROVE IInv'
    BY <1>1, CallStep, RefusedStep, NewRuntimeStep, BindOkStep, BindFailsStep, TakeRunningStep,
       SendStep, StopEndsStep DEF Inside
  <1>2. ASSUME NEW r \in Runtimes, Connections(r) \/ ServeEnds(r) \/ RuntimeDown(r) PROVE IInv'
    BY <1>2, RuntimeStep
  <1>3. CASE UNCHANGED vars
    BY <1>3 DEF vars, callVars, IInv, Types, Mutex, Ownership, Phases, Listeners, Answered
  <1> QED
    BY <1>1, <1>2, <1>3 DEF Next

\* The bookkeeping of start and stop holds in every reachable state
\* (service.rs:26-82).
THEOREM Invariance == Spec => []IInv
  <1> QED
    BY InitIInv, StepIInv, PTL DEF Spec

\* Types, and the mutex is with whoever binds (service.rs:28-60).
THEOREM ServiceTypes == Spec => []TypeOK
  <1>1. IInv => TypeOK
    BY DEF IInv, Types, Mutex, Ownership, TypeOK
  <1> QED
    BY <1>1, Invariance, PTL

\* For any number of threads, runtimes and ports: the instance in STATE serves, is
\* alone on its port, and nobody is stopping it (service.rs:50-60, 71-74).
THEOREM InstanceServes == Spec => []RunningServes
  <1>1. IInv => RunningServes
    BY DEF IInv, Types, Ownership, Phases, Listeners, RunningServes, Taken
  <1> QED
    BY <1>1, Invariance, PTL

\* ... and no runtime that listens or serves is left without a STATE, a stop or a
\* stop's giving up that answers for it (service.rs:29-31, 71-80).
THEOREM NobodyOrphaned == Spec => []NoOrphan
  <1>1. IInv => NoOrphan
    BY DEF IInv, Types, Phases, Answered, NoOrphan
  <1> QED
    BY <1>1, Invariance, PTL

\* ... so that a start that finds its port taken by one of ours always has a stop to
\* blame that is under way or has given up (service.rs:77-80).
THEOREM StopMakesRoom == Spec => RestartWorks
  <1>1. ASSUME IInv, NEW c \in Callers, BindFails(c)
        PROVE  blocker' \in late \/ \E other \in Callers : own[other] = blocker'
    <2>1. state = None
      BY <1>1, Nobody DEF BindFails, IInv, Mutex
    <2>2. blocker' \in Runtimes /\ port[blocker'] # 0 /\ blocker' # state
      BY <1>1, <2>1, Nobody DEF BindFails, Taken
    <2>3. phase[blocker'] \in {"serving", "told"}
      BY <1>1, <2>2 DEF IInv, Phases
    <2> QED
      BY <1>1, <2>2, <2>3 DEF IInv, Answered
  <1>2. IInv => [\A c \in Callers : BindFails(c) =>
                    blocker' \in late \/ \E other \in Callers : own[other] = blocker']_vars
    BY <1>1
  <1> QED
    BY <1>2, Invariance, PTL DEF RestartWorks
=============================================================================
