------------------------ MODULE InstanceContractProofs ------------------------
(***************************************************************************)
(* Proofs about InstanceContract, for any set of instances and any choice  *)
(* of faults, and the facts about its steps that the proofs about the two  *)
(* reconcilers share.                                                      *)
(***************************************************************************)
EXTENDS InstanceContract, TLAPS

\* A step about instance n.
InstStep(n) == Server(n) \/ Progress(n) \/ BeginLaunch(n) \/ BeginDelete(n)

\* The initial state is typed.
LEMMA InstInitType == InstInit => InstTypeOK
  BY Zenon DEF InstInit, InstTypeOK, InstStates, OpKinds, Results

\* Every step of the contract keeps its variables typed.
LEMMA InstStepType == ASSUME InstTypeOK, NEW n \in Names, InstStep(n) PROVE InstTypeOK'
  <1>1. CASE Server(n)
    BY <1>1, Zenon DEF InstTypeOK, Server, OpDone, OpFail, AddressUp, Vanish, After, InstStates, OpKinds
  <1>2. CASE Progress(n)
    <2>1. CASE AcceptCreate(n) \/ AcceptStart(n) \/ AcceptStop(n) \/ AcceptDelete(n)
      BY <2>1, Zenon DEF InstTypeOK, AcceptCreate, AcceptStart, AcceptStop, AcceptDelete, Accept, OpKinds
    <2>2. CASE LoseFailure(n)
      BY <2>2, Zenon DEF InstTypeOK, LoseFailure
    <2>3. CASE ReturnLaunched(n) \/ ReturnTerminal(n) \/ ReturnDeadline(n) \/ ReturnError(n)
      BY <2>3, Zenon DEF InstTypeOK, ReturnLaunched, ReturnTerminal, ReturnDeadline, ReturnError, Results
    <2>4. CASE ReturnDeleted(n)
      BY <2>4, Zenon DEF InstTypeOK, ReturnDeleted, Results
    <2> QED  BY <1>2, <2>1, <2>2, <2>3, <2>4, Zenon DEF Progress
  <1>3. CASE BeginLaunch(n) \/ BeginDelete(n)
    BY <1>3, Zenon DEF InstTypeOK, BeginLaunch, BeginDelete, Calls
  <1> QED  BY <1>1, <1>2, <1>3, Zenon DEF InstStep

\* A restart of the manager keeps them typed too.
LEMMA AbandonType == ASSUME InstTypeOK, AbandonCalls PROVE InstTypeOK'
  BY Zenon DEF InstTypeOK, AbandonCalls, Results

\* Whatever is done about k leaves the other instances alone.
LEMMA InstOthers ==
    ASSUME InstTypeOK, NEW k \in Names, NEW n \in Names, n # k, InstStep(k)
    PROVE  /\ inst'[n] = inst[n] /\ op'[n] = op[n] /\ call'[n] = call[n]
           /\ missed'[n] = missed[n] /\ leak'[n] = leak[n]
  <1>1. CASE Server(k)
    BY <1>1, Zenon DEF InstTypeOK, Server, OpDone, OpFail, AddressUp, Vanish
  <1>2. CASE Progress(k)
    BY <1>2, Zenon DEF InstTypeOK, Progress, AcceptCreate, AcceptStart, AcceptStop, AcceptDelete, Accept, LoseFailure,
                ReturnLaunched, ReturnTerminal, ReturnDeadline, ReturnError, ReturnDeleted
  <1>3. CASE BeginLaunch(k) \/ BeginDelete(k)
    BY <1>3, Zenon DEF InstTypeOK, BeginLaunch, BeginDelete
  <1> QED  BY <1>1, <1>2, <1>3, Zenon DEF InstStep

\* What a step of the server does to its instance.
LEMMA ServerEffect ==
    ASSUME InstTypeOK, NEW n \in Names, Server(n)
    PROVE  /\ UNCHANGED <<call, missed, leak>>
           /\ op'[n] = "none"
           /\ \/ op[n] # "none" /\ inst'[n] = After(op[n])
              \/ op[n] # "none" /\ inst'[n] = inst[n] /\ "error" \in Faults
              \/ op[n] = "none" /\ inst[n] = "running" /\ inst'[n] = "up"
              \/ op[n] = "none" /\ inst[n] # "absent" /\ inst'[n] = "absent" /\ "vanish" \in Faults
  BY DEF InstTypeOK, Server, OpDone, OpFail, AddressUp, Vanish

\* What an operation that succeeded leaves.
LEMMA AfterOp ==
    /\ After("create") = "stopped" /\ After("start") = "running"
    /\ After("stop") = "stopped" /\ After("delete") = "absent"
  BY Zenon DEF After

\* What a call that goes on does: it starts an operation, or it returns.
LEMMA ProgressEffect ==
    ASSUME InstTypeOK, NEW n \in Names, Progress(n)
    PROVE  /\ UNCHANGED inst
           /\ \/ /\ op[n] = "none" /\ UNCHANGED <<call, missed, leak>>
                 /\ \/ /\ call[n] = "launch" /\ inst[n] = "absent" /\ op'[n] = "create"
                       /\ n \notin Unlaunchable
                    \/ call[n] = "launch" /\ inst[n] = "stopped" /\ op'[n] = "start"
                    \/ call[n] = "delete" /\ inst[n] \in Running /\ op'[n] = "stop"
                    \/ call[n] = "delete" /\ inst[n] = "stopped" /\ op'[n] = "delete"
              \/ "expire" \in Faults /\ call[n] = "delete" /\ UNCHANGED <<op, call, leak>>
              \/ /\ UNCHANGED <<op, missed, leak>>
                 /\ \/ call[n] = "launch" /\ inst[n] = "up" /\ call'[n] = "launched"
                    \/ call[n] = "launch" /\ n \in Unlaunchable /\ call'[n] = "terminal"
                    \/ call[n] = "launch" /\ "timeout" \in Faults /\ call'[n] = "deadline"
                    \/ /\ call[n] \in Calls /\ call'[n] = "error"
                       /\ op[n] = "none" \/ Faults \cap {"timeout", "crash"} # {}
              \/ /\ call[n] = "delete" /\ call'[n] = "deleted" /\ UNCHANGED <<op, missed>>
                 /\ inst[n] = "absent" \/ missed[n]
                 /\ leak'[n] = (inst[n] # "absent" \/ op[n] = "create")
  <1> USE DEF InstTypeOK
  <1>1. CASE AcceptCreate(n) \/ AcceptStart(n) \/ AcceptStop(n) \/ AcceptDelete(n)
    BY <1>1, Zenon DEF AcceptCreate, AcceptStart, AcceptStop, AcceptDelete, Accept
  <1>2. CASE LoseFailure(n)
    BY <1>2, Zenon DEF LoseFailure
  <1>3. CASE ReturnLaunched(n) \/ ReturnTerminal(n) \/ ReturnDeadline(n) \/ ReturnError(n)
    BY <1>3, Zenon DEF ReturnLaunched, ReturnTerminal, ReturnDeadline, ReturnError
  <1>4. CASE ReturnDeleted(n)
    BY <1>4, Zenon DEF ReturnDeleted
  <1> QED  BY <1>1, <1>2, <1>3, <1>4, Zenon DEF Progress

\* What the start of a call does.
LEMMA BeginEffect ==
    ASSUME InstTypeOK, NEW n \in Names, BeginLaunch(n) \/ BeginDelete(n)
    PROVE  /\ UNCHANGED <<inst, op, leak>> /\ ~missed'[n]
           /\ call[n] \notin Calls
           /\ BeginLaunch(n) => call'[n] = "launch"
           /\ BeginDelete(n) => call'[n] = "delete"
  BY Zenon DEF InstTypeOK, BeginLaunch, BeginDelete

\* InstNext, by instance.
LEMMA InstNextSteps == InstNext => (\E n \in Names : InstStep(n)) \/ AbandonCalls
  BY Zenon DEF InstNext, InstStep

-----------------------------------------------------------------------------
\* What the server can be working on: a create on nothing, a start or a removal
\* of a stopped instance, a stop of a running one.
Fitting ==
    \A n \in Names :
        /\ op[n] = "create" => inst[n] = "absent" /\ n \notin Unlaunchable
        /\ op[n] \in {"start", "delete"} => inst[n] = "stopped"
        /\ op[n] = "stop" => inst[n] \in Running

\* Every step keeps it.
LEMMA FittingNext == ASSUME InstTypeOK, Fitting, [InstNext]_instVars PROVE Fitting'
  <1> SUFFICES ASSUME NEW m \in Names
               PROVE  /\ op'[m] = "create" => inst'[m] = "absent" /\ m \notin Unlaunchable
                      /\ op'[m] \in {"start", "delete"} => inst'[m] = "stopped"
                      /\ op'[m] = "stop" => inst'[m] \in Running
    BY Zenon DEF Fitting
  <1>0. /\ op[m] = "create" => inst[m] = "absent" /\ m \notin Unlaunchable
        /\ op[m] \in {"start", "delete"} => inst[m] = "stopped"
        /\ op[m] = "stop" => inst[m] \in Running
    BY Zenon DEF Fitting
  <1>1. ASSUME NEW n \in Names, InstStep(n), n # m PROVE op'[m] = op[m] /\ inst'[m] = inst[m]
    BY <1>1, InstOthers, Zenon
  <1>2. CASE Server(m)
    BY <1>2, ServerEffect, Zenon
  <1>3. CASE Progress(m)
    BY <1>0, <1>3, ProgressEffect, Zenon
  <1>4. CASE BeginLaunch(m) \/ BeginDelete(m)
    BY <1>0, <1>4, BeginEffect, Zenon
  <1>5. CASE AbandonCalls \/ UNCHANGED instVars
    BY <1>0, <1>5, Zenon DEF AbandonCalls, instVars
  <1> QED  BY <1>0, <1>1, <1>2, <1>3, <1>4, <1>5, InstNextSteps, Zenon DEF InstStep

\* Without the faults that make the manager lose track of an operation.
Tracked == Faults \cap {"timeout", "crash", "expire"} = {}

\* A create is then pending only inside the launch that asked for it, and a delete
\* that reports success leaves nothing.
NoLeak ==
    \A n \in Names : ~leak[n] /\ ~missed[n] /\ (op[n] = "create" => call[n] = "launch")

\* Every step keeps it.
LEMMA NoLeakNext ==
    ASSUME Tracked, InstTypeOK, Fitting, NoLeak, [InstNext]_instVars
    PROVE  NoLeak'
  <1> SUFFICES ASSUME NEW m \in Names
               PROVE  ~leak'[m] /\ ~missed'[m] /\ (op'[m] = "create" => call'[m] = "launch")
    BY Zenon DEF NoLeak
  <1>0. ~leak[m] /\ ~missed[m] /\ (op[m] = "create" => call[m] = "launch")
    BY Zenon DEF NoLeak
  <1>1. ASSUME NEW n \in Names, InstStep(n), n # m
        PROVE  leak'[m] = leak[m] /\ missed'[m] = missed[m] /\ op'[m] = op[m] /\ call'[m] = call[m]
    BY <1>1, InstOthers, Zenon
  <1>2. CASE Server(m)
    BY <1>0, <1>2, ServerEffect, Zenon
  <1>3. CASE Progress(m)
    BY <1>0, <1>3, ProgressEffect, Zenon DEF Tracked, Calls, Fitting
  <1>4. CASE BeginLaunch(m) \/ BeginDelete(m)
    BY <1>0, <1>4, BeginEffect, Zenon DEF Calls
  <1>5. ~AbandonCalls
    BY Zenon DEF AbandonCalls, Tracked
  <1>6. CASE UNCHANGED instVars
    BY <1>0, <1>6, Zenon DEF instVars
  <1> QED  BY <1>0, <1>1, <1>2, <1>3, <1>4, <1>5, <1>6, InstNextSteps, Zenon DEF InstStep

\* Every step keeps the types.
LEMMA InstNextType == InstTypeOK /\ [InstNext]_instVars => InstTypeOK'
  <1> SUFFICES ASSUME InstTypeOK, [InstNext]_instVars PROVE InstTypeOK'
    BY Zenon
  <1>1. CASE UNCHANGED instVars
    BY <1>1, Zenon DEF instVars, InstTypeOK
  <1> QED  BY <1>1, InstNextSteps, InstStepType, AbandonType, Zenon

\* The contract's variables keep their types, and the server only works on what
\* fits the state of the instance.
THEOREM ServerFits == InstSpec => [](InstTypeOK /\ Fitting)
  <1>1. InstInit => Fitting
    BY Zenon DEF InstInit, Fitting
  <1>2. InstTypeOK /\ Fitting /\ [InstNext]_instVars => Fitting'
    BY FittingNext, Zenon
  <1> QED  BY <1>1, <1>2, InstInitType, InstNextType, PTL DEF InstSpec

\* As long as no call is cut off from its operation, "deleted" is never reported
\* of an instance that exists or is being created.
THEOREM TrackedLeavesNothing == ASSUME Tracked PROVE InstSpec => []NoLeak
  <1>1. InstInit => NoLeak
    BY Zenon DEF InstInit, NoLeak
  <1>2. InstTypeOK /\ Fitting /\ NoLeak /\ [InstNext]_instVars => NoLeak'
    BY NoLeakNext, Zenon
  <1> QED  BY <1>1, <1>2, ServerFits, PTL DEF InstSpec
=============================================================================
