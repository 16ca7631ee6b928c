--------------------------- MODULE InstanceContract ---------------------------
(***************************************************************************)
(* What internal/lxc promises its callers about one named instance, and    *)
(* the part of the Incus server that promise is about.                     *)
(*                                                                         *)
(* A caller runs at most one call per instance name at a time: a machine   *)
(* is reconciled by one worker at a time (controller-runtime), and an      *)
(* instance name belongs to one LXCMachine or one LXCCluster.  A call is   *)
(* WaitForLaunchInstance or WaitForDeleteInstance.  The server works on    *)
(* asynchronous operations, which go on when the call that started them    *)
(* has timed out or its process has died.                                  *)
(*                                                                         *)
(* InstanceClient implements this module step by step; MachineController   *)
(* is built on it.                                                         *)
(***************************************************************************)
CONSTANTS
    Names,          \* instance names
    Unlaunchable,   \* names whose launch options can never be completed
    Faults          \* which of AllFaults may happen

AllFaults ==
    {"timeout",     \* a call gives up, or loses a reply, while its operation runs
     "crash",       \* the manager process dies and is restarted
     "error",       \* a request or an operation fails
     "expire",      \* the server drops an operation record before it is read
     "vanish",      \* somebody else removes the instance
     "patch",       \* a write to the Kubernetes API server fails
     "lb",          \* a request about the load balancer fails
     "list",        \* listing the Machines of a cluster fails
     "stale"}       \* the informer cache lags behind the API server

ASSUME InstanceAssumption == Unlaunchable \subseteq Names /\ Faults \subseteq AllFaults

VARIABLES
    inst,       \* the instance on the server
    op,         \* the operation pending on the server, if any
    call,       \* the call in progress, or the result of the last one
    missed,     \* the failure of the call's delete operation went unread
    leak        \* the last "deleted" left an instance, or one being created

instVars == <<inst, op, call, missed, leak>>

InstStates == {"absent", "stopped", "running", "up"}   \* up: running, with an address
Running == {"running", "up"}
OpKinds == {"none", "create", "start", "stop", "delete"}
Calls == {"launch", "delete"}
Results == {"idle", "launched", "deleted", "deadline", "error", "terminal"}

InstTypeOK ==
    /\ inst \in [Names -> InstStates]
    /\ op \in [Names -> OpKinds]
    /\ call \in [Names -> Calls \cup Results]
    /\ missed \in [Names -> BOOLEAN]
    /\ leak \in [Names -> BOOLEAN]

InstInit ==
    /\ inst = [n \in Names |-> "absent"]
    /\ op = [n \in Names |-> "none"]
    /\ call = [n \in Names |-> "idle"]
    /\ missed = [n \in Names |-> FALSE]
    /\ leak = [n \in Names |-> FALSE]

-----------------------------------------------------------------------------
\* The server

\* What an instance is once an operation on it has succeeded.
After(kind) ==
    CASE kind = "create" -> "stopped"
      [] kind = "start" -> "running"
      [] kind = "stop" -> "stopped"
      [] kind = "delete" -> "absent"

OpDone(n) ==
    /\ op[n] # "none"
    /\ inst' = [inst EXCEPT ![n] = After(op[n])]
    /\ op' = [op EXCEPT ![n] = "none"]
    /\ UNCHANGED <<call, missed, leak>>

OpFail(n) ==
    /\ "error" \in Faults
    /\ op[n] # "none"
    /\ op' = [op EXCEPT ![n] = "none"]
    /\ UNCHANGED <<inst, call, missed, leak>>

\* The guest obtains an address.
AddressUp(n) ==
    /\ inst[n] = "running"
    /\ op[n] = "none"
    /\ inst' = [inst EXCEPT ![n] = "up"]
    /\ UNCHANGED <<op, call, missed, leak>>

Vanish(n) ==
    /\ "vanish" \in Faults
    /\ inst[n] # "absent"
    /\ op[n] = "none"
    /\ inst' = [inst EXCEPT ![n] = "absent"]
    /\ UNCHANGED <<op, call, missed, leak>>

Server(n) == OpDone(n) \/ OpFail(n) \/ AddressUp(n) \/ Vanish(n)

-----------------------------------------------------------------------------
\* The calls

BeginLaunch(n) ==
    /\ call[n] \notin Calls
    /\ call' = [call EXCEPT ![n] = "launch"]
    /\ missed' = [missed EXCEPT ![n] = FALSE]
    /\ UNCHANGED <<inst, op, leak>>

BeginDelete(n) ==
    /\ call[n] \notin Calls
    /\ call' = [call EXCEPT ![n] = "delete"]
    /\ missed' = [missed EXCEPT ![n] = FALSE]
    /\ UNCHANGED <<inst, op, leak>>

\* The server takes on a request of the call; it runs one operation per
\* instance at a time.
Accept(n, c, kind, states) ==
    /\ call[n] = c
    /\ inst[n] \in states
    /\ op[n] = "none"
    /\ op' = [op EXCEPT ![n] = kind]
    /\ UNCHANGED <<inst, call, missed, leak>>

AcceptCreate(n) == n \notin Unlaunchable /\ Accept(n, "launch", "create", {"absent"})
AcceptStart(n) == Accept(n, "launch", "start", {"stopped"})
AcceptStop(n) == Accept(n, "delete", "stop", Running)
AcceptDelete(n) == Accept(n, "delete", "delete", {"stopped"})

\* The record of a failed operation is gone before the call reads it: the
\* call takes "Operation not found" for success.
LoseFailure(n) ==
    /\ "expire" \in Faults
    /\ call[n] = "delete"
    /\ op[n] = "none"
    /\ missed' = [missed EXCEPT ![n] = TRUE]
    /\ UNCHANGED <<inst, op, call, leak>>

ReturnLaunched(n) ==
    /\ call[n] = "launch"
    /\ inst[n] = "up"
    /\ call' = [call EXCEPT ![n] = "launched"]
    /\ UNCHANGED <<inst, op, missed, leak>>

ReturnTerminal(n) ==
    /\ call[n] = "launch"
    /\ n \in Unlaunchable
    /\ call' = [call EXCEPT ![n] = "terminal"]
    /\ UNCHANGED <<inst, op, missed, leak>>

ReturnDeadline(n) ==
    /\ "timeout" \in Faults
    /\ call[n] = "launch"
    /\ call' = [call EXCEPT ![n] = "deadline"]
    /\ UNCHANGED <<inst, op, missed, leak>>

\* An error may leave an operation pending only if this call, or one before
\* it, lost track of the operation.
ReturnError(n) ==
    /\ call[n] \in Calls
    /\ op[n] = "none" \/ Faults \cap {"timeout", "crash"} # {}
    /\ Faults \cap {"timeout", "crash", "error", "vanish", "expire"} # {}
    /\ call' = [call EXCEPT ![n] = "error"]
    /\ UNCHANGED <<inst, op, missed, leak>>

ReturnDeleted(n) ==
    /\ call[n] = "delete"
    /\ inst[n] = "absent" \/ missed[n]
    /\ call' = [call EXCEPT ![n] = "deleted"]
    /\ leak' = [leak EXCEPT ![n] = inst[n] # "absent" \/ op[n] = "create"]
    /\ UNCHANGED <<inst, op, missed>>

Progress(n) ==
    \/ AcceptCreate(n) \/ AcceptStart(n) \/ AcceptStop(n) \/ AcceptDelete(n)
    \/ LoseFailure(n)
    \/ ReturnLaunched(n) \/ ReturnTerminal(n) \/ ReturnDeadline(n)
    \/ ReturnError(n) \/ ReturnDeleted(n)

\* The process dies with its calls; the server does not notice.
AbandonCalls ==
    /\ "crash" \in Faults
    /\ call' = [n \in Names |-> "idle"]
    /\ UNCHANGED <<inst, op, missed, leak>>

InstNext ==
    \/ \E n \in Names : Server(n) \/ BeginLaunch(n) \/ BeginDelete(n) \/ Progress(n)
    \/ AbandonCalls

InstSpec == InstInit /\ [][InstNext]_instVars
=============================================================================
