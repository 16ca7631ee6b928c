---------------------------- MODULE InstanceClient ----------------------------
(***************************************************************************)
(* internal/lxc/client_instances.go, client_instances_util.go and          *)
(* client_operations.go: launching and deleting one named instance, one    *)
(* action per request to the Incus server, interleaved with the server.    *)
(*                                                                         *)
(* pc[n] is where the call on instance n stands, or how the last one ended.*)
(* okind[n], ost[n] are the server's record of the last operation on n:    *)
(* records of finished operations are dropped after a while (Expire), and  *)
(* waiting for a dropped record is "Operation not found".                  *)
(***************************************************************************)
CONSTANTS Names, Unlaunchable, Faults,
          Wanted    \* the set-up steps the launch options ask for

Stages == {"templates", "files", "replacements"}

ASSUME WantedAssumption == Wanted \subseteq Stages

VARIABLES inst, setup, okind, ost, pc, missed, leak

vars == <<inst, setup, okind, ost, pc, missed, leak>>

LaunchPcs == {"l_state", "l_find", "l_create", "l_unlisted", "l_wait"} \cup Stages
             \cup {"s_state", "s_start", "s_wait", "s_addr"}
DeletePcs == {"d_state", "d_stop", "d_stopwait", "d_delete", "d_wait"}
Pending(n) == ost[n] = "pending"

\* The contract this module implements: a call is pending while its pc is
\* inside WaitForLaunchInstance or WaitForDeleteInstance.
Contract == INSTANCE InstanceContract WITH
    op <- [n \in Names |-> IF Pending(n) THEN okind[n] ELSE "none"],
    call <- [n \in Names |-> CASE pc[n] \in LaunchPcs -> "launch"
                               [] pc[n] \in DeletePcs -> "delete"
                               [] OTHER -> pc[n]]

TypeOK ==
    /\ inst \in [Names -> Contract!InstStates]
    /\ setup \in [Names -> SUBSET Wanted]
    /\ okind \in [Names -> Contract!OpKinds]
    /\ ost \in [Names -> {"none", "pending", "done", "failed"}]
    /\ pc \in [Names -> LaunchPcs \cup DeletePcs \cup Contract!Results]
    /\ missed \in [Names -> BOOLEAN]
    /\ leak \in [Names -> BOOLEAN]

Init ==
    /\ inst = [n \in Names |-> "absent"]
    /\ setup = [n \in Names |-> {}]
    /\ okind = [n \in Names |-> "none"]
    /\ ost = [n \in Names |-> "none"]
    /\ pc = [n \in Names |-> "idle"]
    /\ missed = [n \in Names |-> FALSE]
    /\ leak = [n \in Names |-> FALSE]

serverVars == <<inst, setup, okind, ost>>

Go(n, next) == pc' = [pc EXCEPT ![n] = next]

-----------------------------------------------------------------------------
\* The server.  An instance that is created, or removed, has no set-up.

OpDone(n) ==
    /\ Pending(n)
    /\ inst' = [inst EXCEPT ![n] = Contract!After(okind[n])]
    /\ setup' = [setup EXCEPT ![n] = IF okind[n] \in {"create", "delete"} THEN {} ELSE @]
    /\ ost' = [ost EXCEPT ![n] = "done"]
    /\ UNCHANGED <<okind, pc, missed, leak>>

OpFail(n) ==
    /\ "error" \in Faults
    /\ Pending(n)
    /\ ost' = [ost EXCEPT ![n] = "failed"]
    /\ UNCHANGED <<inst, setup, okind, pc, missed, leak>>

Expire(n) ==
    /\ "expire" \in Faults
    /\ ost[n] \in {"done", "failed"}
    /\ okind' = [okind EXCEPT ![n] = "none"]
    /\ ost' = [ost EXCEPT ![n] = "none"]
    /\ missed' = [missed EXCEPT ![n] = @ \/ (pc[n] = "d_wait" /\ ost[n] = "failed")]
    /\ UNCHANGED <<inst, setup, pc, leak>>

AddressUp(n) ==
    /\ inst[n] = "running"
    /\ ~Pending(n)
    /\ inst' = [inst EXCEPT ![n] = "up"]
    /\ UNCHANGED <<setup, okind, ost, pc, missed, leak>>

Vanish(n) ==
    /\ "vanish" \in Faults
    /\ inst[n] # "absent"
    /\ ~Pending(n)
    /\ inst' = [inst EXCEPT ![n] = "absent"]
    /\ setup' = [setup EXCEPT ![n] = {}]
    /\ UNCHANGED <<okind, ost, pc, missed, leak>>

Server(n) == OpDone(n) \/ OpFail(n) \/ Expire(n) \/ AddressUp(n) \/ Vanish(n)

\* A request about n is refused: there is no instance n, or the request or
\* the server fails for another reason.
Refused(n) == inst[n] = "absent" \/ "error" \in Faults

\* The request of WaitForOperation's argument f: the server starts an
\* operation on n, or refuses to because of the state of n or of an operation
\* in progress.  (A reply that is lost is a wait that is given up at once.)
Request(n, kind, states, waiting) ==
    /\ inst[n] \in states
    /\ ~Pending(n)
    /\ okind' = [okind EXCEPT ![n] = kind]
    /\ ost' = [ost EXCEPT ![n] = "pending"]
    /\ Go(n, waiting)
    /\ UNCHANGED <<inst, setup, missed, leak>>

Reject(n, states) ==
    /\ inst[n] \notin states \/ Pending(n) \/ "error" \in Faults
    /\ Go(n, "error")
    /\ UNCHANGED <<serverVars, missed, leak>>

\* WaitForOperation after f: op.WaitContext returns the operation's outcome,
\* an operation whose record is gone counts as done, and the wait ends with
\* the context's deadline or a broken connection (giveUp) otherwise.
OpSucceeded(n) == ost[n] \in {"done", "none"}

WaitForOperation(n, next, giveUp) ==
    /\ \/ OpSucceeded(n) /\ Go(n, next)
       \/ ost[n] = "failed" /\ Go(n, "error")
       \/ "timeout" \in Faults /\ Pending(n) /\ \E r \in giveUp : Go(n, r)
    /\ UNCHANGED <<serverVars, missed, leak>>

-----------------------------------------------------------------------------
\* WaitForLaunchInstance

Launch(n) ==
    /\ pc[n] \in Contract!Results
    /\ Go(n, "l_state")
    /\ missed' = [missed EXCEPT ![n] = FALSE]
    /\ UNCHANGED <<serverVars, leak>>

LaunchGetState(n) ==
    /\ pc[n] = "l_state"
    /\ \/ inst[n] # "absent" /\ Go(n, "s_state")
       \/ Refused(n) /\ Go(n, "l_find")
    /\ UNCHANGED <<serverVars, missed, leak>>

\* Mutant: only operations that have finished are considered.
FindsFinishedCreate(n) == okind[n] = "create" /\ ~Pending(n)

\* tryFindInstanceCreateOperation; if it cannot list the operations, the launch
\* goes on as if there were none (l_unlisted).
FindsCreate(n) == okind[n] = "create"

LaunchFind(n) ==
    /\ pc[n] = "l_find"
    /\ \/ FindsCreate(n) /\ Go(n, "l_wait")
       \/ ~FindsCreate(n) /\ Go(n, "l_create")
       \/ "error" \in Faults /\ Go(n, "l_unlisted")
    /\ UNCHANGED <<serverVars, missed, leak>>

\* opts.complete, then CreateInstance.
LaunchCreate(n) ==
    /\ pc[n] \in {"l_create", "l_unlisted"}
    /\ \/ n \in Unlaunchable /\ Go(n, "terminal") /\ UNCHANGED <<serverVars, missed, leak>>
       \/ n \notin Unlaunchable /\ Request(n, "create", {"absent"}, "l_wait")
       \/ n \notin Unlaunchable /\ Reject(n, {"absent"})

LaunchWait(n) ==
    /\ pc[n] = "l_wait"
    /\ WaitForOperation(n, "templates", {"error", "deadline"})

\* Instance templates, files and replacements are applied in this order.
NextStage == [templates |-> "files", files |-> "replacements", replacements |-> "s_state"]

\* Mutant: a step is taken without asking whether there is anything to set up.
LaunchSetupUnasked(n) ==
    /\ pc[n] \in Stages
    /\ inst[n] # "absent"
    /\ setup' = [setup EXCEPT ![n] = @ \cup {pc[n]}]
    /\ Go(n, NextStage[pc[n]])
    /\ UNCHANGED <<inst, okind, ost, missed, leak>>

LaunchSetup(n) ==
    /\ pc[n] \in Stages
    /\ \/ /\ pc[n] \notin Wanted
          /\ Go(n, NextStage[pc[n]])
          /\ UNCHANGED setup
       \/ /\ pc[n] \in Wanted
          /\ inst[n] # "absent"
          /\ setup' = [setup EXCEPT ![n] = @ \cup {pc[n]}]
          /\ Go(n, NextStage[pc[n]])
       \/ /\ pc[n] \in Wanted
          /\ Refused(n)
          /\ Go(n, "error")
          /\ UNCHANGED setup
    /\ UNCHANGED <<inst, okind, ost, missed, leak>>

-----------------------------------------------------------------------------
\* WaitForStartInstance

StartGetState(n) ==
    /\ pc[n] = "s_state"
    /\ \/ inst[n] \in Contract!Running /\ Go(n, "s_addr")
       \/ inst[n] = "stopped" /\ Go(n, "s_start")
       \/ Refused(n) /\ Go(n, "error")
    /\ UNCHANGED <<serverVars, missed, leak>>

StartRequest(n) ==
    /\ pc[n] = "s_start"
    /\ \/ Request(n, "start", {"stopped"}, "s_wait")
       \/ Reject(n, {"stopped"})

StartWait(n) ==
    /\ pc[n] = "s_wait"
    /\ WaitForOperation(n, "s_addr", {"error", "deadline"})

\* Mutant: the polling loop does not look at its context.
AddressPolledForever(n) ==
    /\ pc[n] = "s_addr"
    /\ \/ inst[n] = "up" /\ Go(n, "launched")
       \/ Refused(n) /\ Go(n, "error")
    /\ inst[n] # "running"
    /\ UNCHANGED <<serverVars, missed, leak>>

\* waitForInstanceAddress: polls (a poll without an address changes nothing)
\* until there is an address, an error or the deadline.
WaitForInstanceAddress(n) ==
    /\ pc[n] = "s_addr"
    /\ \/ inst[n] = "up" /\ Go(n, "launched")
       \/ Refused(n) /\ Go(n, "error")
       \/ "timeout" \in Faults /\ inst[n] \notin {"absent", "up"} /\ Go(n, "deadline")
    /\ UNCHANGED <<serverVars, missed, leak>>

-----------------------------------------------------------------------------
\* WaitForDeleteInstance, with WaitForStopInstance inlined

Delete(n) ==
    /\ pc[n] \in Contract!Results
    /\ Go(n, "d_state")
    /\ missed' = [missed EXCEPT ![n] = FALSE]
    /\ UNCHANGED <<serverVars, leak>>

ReturnDeleted(n) ==
    /\ Go(n, "deleted")
    /\ leak' = [leak EXCEPT ![n] = inst[n] # "absent" \/ (Pending(n) /\ okind[n] = "create")]
    /\ UNCHANGED <<serverVars, missed>>

\* Mutant: every error of GetInstanceState counts as "Instance not found".
StopGetStateAnyError(n) ==
    /\ pc[n] = "d_state"
    /\ \/ Refused(n) /\ ReturnDeleted(n)
       \/ inst[n] = "stopped" /\ Go(n, "d_delete") /\ UNCHANGED <<serverVars, missed, leak>>
       \/ inst[n] \in Contract!Running /\ Go(n, "d_stop") /\ UNCHANGED <<serverVars, missed, leak>>

StopGetState(n) ==
    /\ pc[n] = "d_state"
    /\ \/ inst[n] = "absent" /\ ReturnDeleted(n)
       \/ inst[n] = "stopped" /\ Go(n, "d_delete") /\ UNCHANGED <<serverVars, missed, leak>>
       \/ inst[n] \in Contract!Running /\ Go(n, "d_stop") /\ UNCHANGED <<serverVars, missed, leak>>
       \/ "error" \in Faults /\ Go(n, "error") /\ UNCHANGED <<serverVars, missed, leak>>

\* "Instance not found" ends the call with success here too.
StopRequest(n) ==
    /\ pc[n] = "d_stop"
    /\ \/ inst[n] = "absent" /\ ReturnDeleted(n)
       \/ Request(n, "stop", Contract!Running, "d_stopwait")
       \/ inst[n] # "absent" /\ Reject(n, Contract!Running)

StopWait(n) ==
    /\ pc[n] = "d_stopwait"
    /\ WaitForOperation(n, "d_delete", {"error"})

DeleteRequest(n) ==
    /\ pc[n] = "d_delete"
    /\ \/ Request(n, "delete", {"stopped"}, "d_wait")
       \/ Reject(n, {"stopped"})

DeleteWait(n) ==
    /\ pc[n] = "d_wait"
    /\ \/ OpSucceeded(n) /\ ReturnDeleted(n)
       \/ ~OpSucceeded(n) /\ WaitForOperation(n, "error", {"error"})

-----------------------------------------------------------------------------
\* The manager process is killed and restarted: its calls are lost.
Crash ==
    /\ "crash" \in Faults
    /\ pc' = [n \in Names |-> "idle"]
    /\ UNCHANGED <<serverVars, missed, leak>>

ClientStep(n) ==
    \/ LaunchGetState(n) \/ LaunchFind(n) \/ LaunchCreate(n) \/ LaunchWait(n)
    \/ LaunchSetup(n)
    \/ StartGetState(n) \/ StartRequest(n) \/ StartWait(n) \/ WaitForInstanceAddress(n)
    \/ StopGetState(n) \/ StopRequest(n) \/ StopWait(n)
    \/ DeleteRequest(n) \/ DeleteWait(n)

Next ==
    \/ \E n \in Names : Server(n) \/ Launch(n) \/ Delete(n) \/ ClientStep(n)
    \/ Crash

\* A goroutine that can take a step takes it; the server owes nothing.
Fairness == \A n \in Names : WF_vars(ClientStep(n))

Spec == Init /\ [][Next]_vars /\ Fairness

-----------------------------------------------------------------------------
\* Properties

\* The calls of internal/lxc keep the contract the controllers are built on:
\* "launched" is only reported of an instance that runs and has an address,
\* "deleted" only of one that is gone (or whose failed removal went unread),
\* and every request finds the server in a state that admits it.
ImplementsContract == Contract!InstSpec

\* WaitForLaunchInstance and WaitForDeleteInstance return whatever the server
\* does: every wait in them is bounded by a context.
CallReturns == \A n \in Names : pc[n] \in LaunchPcs \cup DeletePcs ~> pc[n] \in Contract!Results

\* client_instances.go:20: "If an instance create operation is already
\* underway, it will wait for the existing operation".  A retried launch asks
\* for a second instance only if it could not list the operations.
AdoptsPendingCreate ==
    \A n \in Names :
        pc[n] = "l_create" => ~(Pending(n) /\ okind[n] = "create")

\* docs/book/src/explanation/injected-files.md:3: "CAPN will always inject the
\* following files on launched instances".  A launch that succeeded leaves an
\* instance on which every set-up step of the launch options was applied.
LaunchedMeansSetUp == \A n \in Names : pc[n] = "launched" /\ inst[n] = "up" => setup[n] = Wanted
=============================================================================
