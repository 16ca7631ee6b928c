------------------------ MODULE InstanceClientProofs ------------------------
(***************************************************************************)
(* Proofs about InstanceClient, for any set of instances, any launch       *)
(* options and any choice of faults: the calls of internal/lxc keep the    *)
(* contract the controllers are built on.                                  *)
(***************************************************************************)
EXTENDS InstanceClient, TLAPS

\* Where a call waits for the operation it asked for, or adopted.
Waits == {"l_wait", "s_wait", "d_stopwait", "d_wait"}

\* A call can be cut off from its operation.
Untracked == Faults \cap {"timeout", "crash"} # {}

\* Nothing goes wrong.
Calm == Faults \cap {"timeout", "crash", "error", "vanish", "expire"} = {}

\* What the server's record of the last operation tells.  Only a call that was
\* cut off leaves an operation that nobody waits for.
OpInv(n) ==
    /\ Pending(n) => okind[n] # "none"
    /\ Pending(n) => pc[n] \in Waits \/ Untracked
    /\ ost[n] = "failed" => "error" \in Faults

\* A launch that listed the operations does not create a second instance.
AdoptInv(n) == pc[n] = "l_create" => okind[n] # "create"

\* The last wait of WaitForDeleteInstance is for its own delete operation: when
\* that is done the instance is gone, and so it is when its record is gone,
\* unless it held a failure.
DeleteInv(n) ==
    pc[n] = "d_wait" =>
        \/ Pending(n) /\ okind[n] = "delete"
        \/ ost[n] = "done" /\ inst[n] = "absent"
        \/ ost[n] = "failed"
        \/ ost[n] = "none" /\ (inst[n] = "absent" \/ missed[n])

\* When nothing goes wrong every request finds the instance in the state the
\* call expects, so that no call fails.
CalmInv(n) ==
    Calm =>
        /\ okind[n] = "create" /\ ~Pending(n) => inst[n] = "stopped"
        /\ pc[n] # "l_unlisted"
        /\ pc[n] \in {"l_find", "l_create"} => inst[n] = "absent"
        /\ pc[n] = "l_wait" => okind[n] = "create"
        /\ pc[n] \in Stages \cup {"s_start", "d_delete"} => inst[n] = "stopped"
        /\ pc[n] = "s_state" => inst[n] # "absent"
        /\ pc[n] = "s_wait" => okind[n] = "start" /\ (Pending(n) \/ inst[n] \in Contract!Running)
        /\ pc[n] \in {"s_addr", "d_stop"} => inst[n] \in Contract!Running
        /\ pc[n] = "d_stopwait" => okind[n] = "stop" /\ (Pending(n) \/ inst[n] = "stopped")

NInv(n) == OpInv(n) /\ AdoptInv(n) /\ DeleteInv(n) /\ CalmInv(n)

IInv == TypeOK /\ \A n \in Names : NInv(n)

-----------------------------------------------------------------------------
\* The variables are functions on the instances.
LEMMA Typed ==
    ASSUME TypeOK, NEW n \in Names
    PROVE  /\ inst[n] \in Contract!InstStates /\ setup[n] \in SUBSET Wanted
           /\ okind[n] \in Contract!OpKinds /\ ost[n] \in {"none", "pending", "done", "failed"}
           /\ pc[n] \in LaunchPcs \cup DeletePcs \cup Contract!Results
           /\ missed[n] \in BOOLEAN /\ leak[n] \in BOOLEAN
  BY Zenon DEF TypeOK

\* A client step, whatever it is, moves pc[n] within its type.
LEMMA GoType ==
    ASSUME TypeOK, NEW n \in Names, NEW next \in LaunchPcs \cup DeletePcs \cup Contract!Results,
           Go(n, next)
    PROVE  pc' \in [Names -> LaunchPcs \cup DeletePcs \cup Contract!Results]
  BY Zenon DEF TypeOK, Go

\* The server keeps the types: an operation that is pending has a kind.
LEMMA ServerType == ASSUME TypeOK, NEW n \in Names, OpInv(n), Server(n) PROVE TypeOK'
  <1>1. CASE OpDone(n)
    <2>1. okind[n] # "none" /\ okind[n] \in Contract!OpKinds
      BY <1>1, Typed, Zenon DEF OpInv, OpDone
    <2>2. Contract!After(okind[n]) \in Contract!InstStates
      BY <2>1, Zenon DEF Contract!OpKinds, Contract!After, Contract!InstStates
    <2> QED  BY <1>1, <2>2, Zenon DEF TypeOK, OpDone
  <1>2. CASE OpFail(n)
    BY <1>2, Zenon DEF TypeOK, OpFail
  <1>3. CASE Expire(n)
    BY <1>3, Zenon DEF TypeOK, Expire, Contract!OpKinds
  <1>4. CASE AddressUp(n) \/ Vanish(n)
    BY <1>4, Zenon DEF TypeOK, AddressUp, Vanish, Contract!InstStates
  <1> QED  BY <1>1, <1>2, <1>3, <1>4, Zenon DEF Server

\* The request of a call keeps the types, and so does its refusal.
LEMMA RequestType ==
    ASSUME TypeOK, NEW n \in Names,
           NEW kind \in Contract!OpKinds, NEW states,
           NEW waiting \in Waits,
           Request(n, kind, states, waiting) \/ Reject(n, states)
    PROVE  TypeOK'
  <1>1. waiting \in LaunchPcs \cup DeletePcs /\ "error" \in Contract!Results
    BY Zenon DEF Waits, LaunchPcs, DeletePcs, Contract!Results
  <1> QED  BY <1>1 DEF TypeOK, Request, Reject, Go, serverVars

\* A wait keeps the types.
LEMMA WaitType ==
    ASSUME TypeOK, NEW n \in Names, NEW next \in LaunchPcs \cup DeletePcs \cup Contract!Results,
           NEW giveUp \in SUBSET {"error", "deadline"},
           WaitForOperation(n, next, giveUp)
    PROVE  TypeOK'
  <1>1. {"error", "deadline"} \subseteq Contract!Results
    BY Zenon DEF Contract!Results
  <1> QED  BY <1>1 DEF TypeOK, WaitForOperation, Go, serverVars

\* The calls keep the types.
LEMMA ClientType == ASSUME TypeOK, NEW n \in Names, ClientStep(n) PROVE TypeOK'
  <1> DEFINE P == LaunchPcs \cup DeletePcs \cup Contract!Results
  <1>0. /\ {"l_find", "l_create", "l_unlisted", "l_wait", "templates", "files", "replacements", "s_state",
            "s_start", "s_addr", "d_delete", "d_stop", "error", "terminal", "launched", "deadline",
            "deleted"} \subseteq P
        /\ {"create", "start", "stop", "delete"} \subseteq Contract!OpKinds
        /\ {"l_wait", "s_wait", "d_stopwait", "d_wait"} \subseteq Waits
    BY Zenon DEF LaunchPcs, DeletePcs, Stages, Contract!Results, Contract!OpKinds, Waits
  <1>1. ASSUME NEW next \in P, Go(n, next), UNCHANGED <<serverVars, missed, leak>> PROVE TypeOK'
    BY <1>1, GoType, Zenon DEF TypeOK, serverVars
  <1>2. ASSUME ReturnDeleted(n) PROVE TypeOK'
    BY <1>0, <1>2, GoType, Zenon DEF TypeOK, ReturnDeleted, serverVars
  <1> HIDE DEF P
  <1>3. CASE LaunchGetState(n) \/ LaunchFind(n) \/ StartGetState(n) \/ WaitForInstanceAddress(n)
    BY <1>0, <1>1, <1>3, Zenon DEF LaunchGetState, LaunchFind, StartGetState, WaitForInstanceAddress
  <1>4. CASE LaunchCreate(n)
    <2>1. CASE Go(n, "terminal") /\ UNCHANGED <<serverVars, missed, leak>>
      BY <1>0, <1>1, <2>1, Zenon
    <2>2. CASE Request(n, "create", {"absent"}, "l_wait") \/ Reject(n, {"absent"})
      BY <1>0, <2>2, RequestType, Zenon
    <2> QED  BY <1>4, <2>1, <2>2, Zenon DEF LaunchCreate
  <1>5. CASE LaunchWait(n) \/ StartWait(n) \/ StopWait(n)
    BY <1>0, <1>5, WaitType, Zenon DEF LaunchWait, StartWait, StopWait, P
  <1>6. CASE LaunchSetup(n)
    <2>1. pc' \in [Names -> P]
      <3>1. pc[n] \in Stages /\ (Go(n, NextStage[pc[n]]) \/ Go(n, "error"))
        BY <1>6, Zenon DEF LaunchSetup
      <3>2. NextStage[pc[n]] \in P
        BY <1>0, <3>1 DEF NextStage, Stages
      <3> QED  BY <1>0, <3>1, <3>2, GoType, Zenon DEF P
    <2>2. setup' \in [Names -> SUBSET Wanted]
      BY <1>6 DEF LaunchSetup, TypeOK
    <2> QED  BY <1>6, <2>1, <2>2, Zenon DEF LaunchSetup, TypeOK, P
  <1>7. CASE StartRequest(n)
    BY <1>0, <1>7, RequestType, Zenon DEF StartRequest
  <1>8. CASE StopGetState(n)
    BY <1>0, <1>1, <1>2, <1>8, Zenon DEF StopGetState
  <1>9. CASE StopRequest(n)
    BY <1>0, <1>2, <1>9, RequestType, Zenon DEF StopRequest
  <1>10. CASE DeleteRequest(n)
    BY <1>0, <1>10, RequestType, Zenon DEF DeleteRequest
  <1>11. CASE DeleteWait(n)
    BY <1>0, <1>2, <1>11, WaitType, Zenon DEF DeleteWait, P
  <1> QED  BY <1>3, <1>4, <1>5, <1>6, <1>7, <1>8, <1>9, <1>10, <1>11, Zenon DEF ClientStep

\* Every step keeps the types.
LEMMA NextType == ASSUME IInv, [Next]_vars PROVE TypeOK'
  <1>0. TypeOK /\ \A n \in Names : OpInv(n)
    BY Zenon DEF IInv, NInv
  <1>1. ASSUME NEW n \in Names, Server(n) PROVE TypeOK'
    BY <1>0, <1>1, ServerType, Zenon
  <1>2. ASSUME NEW n \in Names, Launch(n) \/ Delete(n) PROVE TypeOK'
    <2>1. {"l_state", "d_state"} \subseteq LaunchPcs \cup DeletePcs
      BY Zenon DEF LaunchPcs, DeletePcs
    <2> QED  BY <1>0, <1>2, <2>1, Zenon DEF TypeOK, Launch, Delete, Go, serverVars
  <1>3. ASSUME NEW n \in Names, ClientStep(n) PROVE TypeOK'
    BY <1>0, <1>3, ClientType, Zenon
  <1>4. CASE Crash
    BY <1>0, <1>4, Zenon DEF TypeOK, Crash, serverVars, Contract!Results
  <1>5. CASE UNCHANGED vars
    BY <1>0, <1>5, Zenon DEF TypeOK, vars
  <1> QED  BY <1>1, <1>2, <1>3, <1>4, <1>5, Zenon DEF Next

-----------------------------------------------------------------------------
\* NInv(n) is about the state of n only, and the set-up is not part of it.
LEMMA Frame ==
    ASSUME NEW n \in Names, NInv(n),
           inst'[n] = inst[n], okind'[n] = okind[n], ost'[n] = ost[n], pc'[n] = pc[n],
           missed'[n] = missed[n]
    PROVE  NInv(n)'
  BY Zenon DEF NInv, OpInv, AdoptInv, DeleteInv, CalmInv, Pending

\* Whatever is done about k leaves the state of the others alone.
LEMMA Others ==
    ASSUME TypeOK, NEW k \in Names, NEW n \in Names, n # k,
           Server(k) \/ Launch(k) \/ Delete(k) \/ ClientStep(k)
    PROVE  /\ inst'[n] = inst[n] /\ okind'[n] = okind[n] /\ ost'[n] = ost[n] /\ pc'[n] = pc[n]
           /\ missed'[n] = missed[n] /\ leak'[n] = leak[n]
  <1> USE DEF Go, serverVars
  <1>1. CASE Server(k)
    BY <1>1, Zenon DEF TypeOK, Server, OpDone, OpFail, Expire, AddressUp, Vanish
  <1>2. CASE Launch(k) \/ Delete(k)
    BY <1>2, Zenon DEF TypeOK, Launch, Delete
  <1>3. CASE ClientStep(k)
    BY <1>3, Zenon DEF TypeOK, ClientStep, LaunchGetState, LaunchFind, LaunchCreate, LaunchWait, LaunchSetup,
                StartGetState, StartRequest, StartWait, WaitForInstanceAddress, StopGetState, StopRequest,
                StopWait, DeleteRequest, DeleteWait, ReturnDeleted, Request, Reject, WaitForOperation
  <1> QED  BY <1>1, <1>2, <1>3, Zenon

\* The server keeps the invariant.
LEMMA ServerInv == ASSUME TypeOK, NEW n \in Names, NInv(n), Server(n) PROVE NInv(n)'
  <1> USE Typed DEF NInv, OpInv, AdoptInv, DeleteInv, CalmInv, Pending
  <1>0. /\ inst = [k \in Names |-> inst[k]] /\ okind = [k \in Names |-> okind[k]]
        /\ ost = [k \in Names |-> ost[k]] /\ missed = [k \in Names |-> missed[k]]
    BY Zenon DEF TypeOK
  <1>1. CASE OpDone(n)
    <2>1. /\ Pending(n) /\ ost'[n] = "done" /\ inst'[n] = Contract!After(okind[n])
          /\ UNCHANGED <<okind, pc, missed>>
      BY <1>0, <1>1, Zenon DEF OpDone
    <2>2. /\ okind[n] = "create" => inst'[n] = "stopped"
          /\ okind[n] = "start" => inst'[n] = "running"
          /\ okind[n] = "stop" => inst'[n] = "stopped"
          /\ okind[n] = "delete" => inst'[n] = "absent"
      BY <2>1, Zenon DEF Contract!After
    <2> QED  BY <2>1, <2>2, Zenon DEF Waits, Stages, Contract!Running, Untracked, Calm
  <1>2. CASE OpFail(n)
    <2>1. "error" \in Faults /\ Pending(n) /\ ost'[n] = "failed" /\ UNCHANGED <<inst, okind, pc, missed>>
      BY <1>0, <1>2, Zenon DEF OpFail
    <2>2. ~Calm
      BY <2>1, Zenon DEF Calm
    <2> QED  BY <2>1, <2>2, Zenon
  <1>3. CASE Expire(n)
    <2>1. /\ "expire" \in Faults /\ ost[n] \in {"done", "failed"}
          /\ okind'[n] = "none" /\ ost'[n] = "none" /\ UNCHANGED <<inst, pc>>
          /\ missed'[n] = (missed[n] \/ (pc[n] = "d_wait" /\ ost[n] = "failed"))
      BY <1>0, <1>3, Zenon DEF Expire
    <2>2. ~Calm
      BY <2>1, Zenon DEF Calm
    <2> QED  BY <2>1, <2>2, Zenon
  <1>4. CASE AddressUp(n)
    <2>1. inst[n] = "running" /\ ~Pending(n) /\ inst'[n] = "up" /\ UNCHANGED <<okind, ost, pc, missed>>
      BY <1>0, <1>4, Zenon DEF AddressUp
    <2> QED  BY <2>1, Zenon DEF Contract!Running
  <1>5. CASE Vanish(n)
    <2>1. /\ "vanish" \in Faults /\ ~Pending(n) /\ inst'[n] = "absent"
          /\ UNCHANGED <<okind, ost, pc, missed>>
      BY <1>0, <1>5, Zenon DEF Vanish
    <2>2. ~Calm
      BY <2>1, Zenon DEF Calm
    <2> QED  BY <2>1, <2>2, Zenon
  <1> QED  BY <1>1, <1>2, <1>3, <1>4, <1>5, Zenon DEF Server

\* A call that ends, or starts, is about no operation and no state.
LEMMA RestInv ==
    ASSUME TypeOK, NEW n \in Names, NInv(n),
           pc'[n] \in Contract!Results \cup {"l_state", "d_state"},
           Pending(n) => Untracked,
           UNCHANGED <<inst, okind, ost>>
    PROVE  NInv(n)'
  BY Zenon DEF NInv, OpInv, AdoptInv, DeleteInv, CalmInv, Pending, Contract!Results, Stages

\* A call that is not at a wait, or gives up a wait, has no operation, or was cut
\* off from it.
LEMMA PendingUntracked ==
    ASSUME NEW n \in Names, NInv(n), pc[n] \notin Waits \/ ~Pending(n) \/ "timeout" \in Faults
    PROVE  Pending(n) => Untracked
  BY Zenon DEF NInv, OpInv, Untracked

\* WaitForLaunchInstance keeps the invariant up to its last wait for an operation.
LEMMA LaunchInv ==
    ASSUME TypeOK, NEW n \in Names, NInv(n),
           LaunchGetState(n) \/ LaunchFind(n) \/ LaunchCreate(n) \/ LaunchWait(n) \/ LaunchSetup(n)
    PROVE  NInv(n)'
  <1> USE Typed DEF Go, serverVars
  <1>0. /\ okind = [k \in Names |-> okind[k]] /\ ost = [k \in Names |-> ost[k]]
        /\ pc = [k \in Names |-> pc[k]]
        /\ {"terminal", "error", "deadline"} \subseteq Contract!Results
    BY Zenon DEF TypeOK, Contract!Results
  <1>1. CASE LaunchGetState(n)
    <2>1. /\ pc[n] = "l_state" /\ UNCHANGED <<inst, okind, ost, missed>>
          /\ \/ pc'[n] = "s_state" /\ inst[n] # "absent"
             \/ pc'[n] = "l_find" /\ Refused(n)
      BY <1>0, <1>1, Zenon DEF LaunchGetState
    <2> QED  BY <2>1, Zenon DEF NInv, OpInv, AdoptInv, DeleteInv, CalmInv, Pending, Refused, Calm, Waits, Stages
  <1>2. CASE LaunchFind(n)
    <2>1. /\ pc[n] = "l_find" /\ UNCHANGED <<inst, okind, ost, missed>>
          /\ \/ pc'[n] = "l_wait" /\ okind[n] = "create"
             \/ pc'[n] = "l_create" /\ okind[n] # "create"
             \/ pc'[n] = "l_unlisted" /\ "error" \in Faults
      BY <1>0, <1>2, Zenon DEF LaunchFind, FindsCreate
    <2> QED  BY <2>1, Zenon DEF NInv, OpInv, AdoptInv, DeleteInv, CalmInv, Pending, Calm, Waits, Stages
  <1>3. CASE LaunchCreate(n)
    <2>1. CASE Request(n, "create", {"absent"}, "l_wait")
      <3>1. /\ inst[n] = "absent" /\ UNCHANGED <<inst, missed>>
            /\ okind'[n] = "create" /\ ost'[n] = "pending" /\ pc'[n] = "l_wait"
        BY <1>0, <2>1, Zenon DEF Request
      <3> QED  BY <3>1, Zenon DEF NInv, OpInv, AdoptInv, DeleteInv, CalmInv, Pending, Waits, Stages
    <2>2. CASE (Go(n, "terminal") /\ UNCHANGED <<serverVars, missed, leak>>) \/ Reject(n, {"absent"})
      <3>1. pc[n] \notin Waits /\ pc'[n] \in Contract!Results /\ UNCHANGED <<inst, okind, ost>>
        BY <1>0, <1>3, <2>2, Zenon DEF LaunchCreate, Reject, Waits
      <3> QED  BY <3>1, RestInv, PendingUntracked, Zenon
    <2> QED  BY <1>3, <2>1, <2>2, Zenon DEF LaunchCreate
  <1>4. CASE LaunchWait(n)
    <2>1. pc[n] = "l_wait" /\ UNCHANGED <<inst, okind, ost, missed>>
      BY <1>4, Zenon DEF LaunchWait, WaitForOperation
    <2>2. CASE OpSucceeded(n) /\ Go(n, "templates")
      <3>1. pc'[n] = "templates" /\ ~Pending(n)
        BY <1>0, <2>2, Zenon DEF OpSucceeded, Pending
      <3> QED  BY <2>1, <3>1, Zenon DEF NInv, OpInv, AdoptInv, DeleteInv, CalmInv, Pending, Waits, Stages
    <2>3. CASE ost[n] = "failed" /\ Go(n, "error")
      BY <1>0, <2>1, <2>3, RestInv, PendingUntracked, Zenon DEF Pending
    <2>4. CASE "timeout" \in Faults /\ \E r \in {"error", "deadline"} : Go(n, r)
      BY <1>0, <2>1, <2>4, RestInv, PendingUntracked, Zenon
    <2> QED  BY <1>4, <2>2, <2>3, <2>4, Zenon DEF LaunchWait, WaitForOperation
  <1>5. CASE LaunchSetup(n)
    <2>1. pc[n] \in Stages /\ UNCHANGED <<inst, okind, ost, missed>>
      BY <1>5, Zenon DEF LaunchSetup
    <2>2. CASE Go(n, NextStage[pc[n]])
      <3>1. pc'[n] \in {"files", "replacements", "s_state"}
        BY <1>0, <2>1, <2>2 DEF NextStage, Stages
      <3> QED  BY <2>1, <3>1, Zenon DEF NInv, OpInv, AdoptInv, DeleteInv, CalmInv, Pending, Waits, Stages
    <2>3. CASE Go(n, "error")
      BY <1>0, <2>1, <2>3, RestInv, PendingUntracked, Zenon DEF Waits, Stages
    <2> QED  BY <1>5, <2>2, <2>3, Zenon DEF LaunchSetup
  <1> QED  BY <1>1, <1>2, <1>3, <1>4, <1>5, Zenon

\* WaitForStartInstance keeps the invariant.
LEMMA StartInv ==
    ASSUME TypeOK, NEW n \in Names, NInv(n),
           StartGetState(n) \/ StartRequest(n) \/ StartWait(n) \/ WaitForInstanceAddress(n)
    PROVE  NInv(n)'
  <1> USE Typed DEF Go, serverVars
  <1>0. /\ okind = [k \in Names |-> okind[k]] /\ ost = [k \in Names |-> ost[k]]
        /\ pc = [k \in Names |-> pc[k]]
        /\ {"launched", "error", "deadline"} \subseteq Contract!Results
    BY Zenon DEF TypeOK, Contract!Results
  <1>1. CASE StartGetState(n)
    <2>1. /\ pc[n] = "s_state" /\ UNCHANGED <<inst, okind, ost, missed>>
          /\ \/ pc'[n] = "s_addr" /\ inst[n] \in Contract!Running
             \/ pc'[n] = "s_start" /\ inst[n] = "stopped"
             \/ pc'[n] = "error"
      BY <1>0, <1>1, Zenon DEF StartGetState
    <2>2. CASE pc'[n] = "error"
      BY <1>0, <2>1, <2>2, RestInv, PendingUntracked, Zenon DEF Waits
    <2> QED  BY <2>1, <2>2, Zenon DEF NInv, OpInv, AdoptInv, DeleteInv, CalmInv, Pending, Waits, Stages
  <1>2. CASE StartRequest(n)
    <2>1. CASE Request(n, "start", {"stopped"}, "s_wait")
      <3>1. /\ inst[n] = "stopped" /\ UNCHANGED <<inst, missed>>
            /\ okind'[n] = "start" /\ ost'[n] = "pending" /\ pc'[n] = "s_wait"
        BY <1>0, <2>1, Zenon DEF Request
      <3> QED  BY <3>1, Zenon DEF NInv, OpInv, AdoptInv, DeleteInv, CalmInv, Pending, Waits, Stages
    <2>2. CASE Reject(n, {"stopped"})
      <3>1. pc[n] \notin Waits /\ pc'[n] \in Contract!Results /\ UNCHANGED <<inst, okind, ost>>
        BY <1>0, <1>2, <2>2, Zenon DEF StartRequest, Reject, Waits
      <3> QED  BY <3>1, RestInv, PendingUntracked, Zenon
    <2> QED  BY <1>2, <2>1, <2>2, Zenon DEF StartRequest
  <1>3. CASE StartWait(n)
    <2>1. pc[n] = "s_wait" /\ UNCHANGED <<inst, okind, ost, missed>>
      BY <1>3, Zenon DEF StartWait, WaitForOperation
    <2>2. CASE OpSucceeded(n) /\ Go(n, "s_addr")
      <3>1. pc'[n] = "s_addr" /\ ~Pending(n)
        BY <1>0, <2>2, Zenon DEF OpSucceeded, Pending
      <3> QED  BY <2>1, <3>1, Zenon DEF NInv, OpInv, AdoptInv, DeleteInv, CalmInv, Pending, Waits, Stages
    <2>3. CASE ost[n] = "failed" /\ Go(n, "error")
      BY <1>0, <2>1, <2>3, RestInv, PendingUntracked, Zenon DEF Pending
    <2>4. CASE "timeout" \in Faults /\ \E r \in {"error", "deadline"} : Go(n, r)
      BY <1>0, <2>1, <2>4, RestInv, PendingUntracked, Zenon
    <2> QED  BY <1>3, <2>2, <2>3, <2>4, Zenon DEF StartWait, WaitForOperation
  <1>4. CASE WaitForInstanceAddress(n)
    <2>1. pc[n] \notin Waits /\ pc'[n] \in Contract!Results /\ UNCHANGED <<inst, okind, ost>>
      BY <1>0, <1>4, Zenon DEF WaitForInstanceAddress, Waits
    <2> QED  BY <2>1, RestInv, PendingUntracked, Zenon
  <1> QED  BY <1>1, <1>2, <1>3, <1>4, Zenon

\* WaitForDeleteInstance keeps the invariant.
LEMMA DeletionInv ==
    ASSUME TypeOK, NEW n \in Names, NInv(n),
           StopGetState(n) \/ StopRequest(n) \/ StopWait(n) \/ DeleteRequest(n) \/ DeleteWait(n)
    PROVE  NInv(n)'
  <1> USE Typed DEF Go, serverVars
  <1>0. /\ okind = [k \in Names |-> okind[k]] /\ ost = [k \in Names |-> ost[k]]
        /\ pc = [k \in Names |-> pc[k]]
        /\ {"deleted", "error"} \subseteq Contract!Results
    BY Zenon DEF TypeOK, Contract!Results
  <1>1. ASSUME ReturnDeleted(n) \/ (\E s : Reject(n, s)), pc[n] \notin Waits \/ OpSucceeded(n)
        PROVE  NInv(n)'
    <2>1. pc'[n] \in Contract!Results /\ UNCHANGED <<inst, okind, ost>>
      BY <1>0, <1>1, Zenon DEF ReturnDeleted, Reject
    <2>2. pc[n] \notin Waits \/ ~Pending(n)
      BY <1>1, Zenon DEF OpSucceeded, Pending
    <2> QED  BY <2>1, <2>2, RestInv, PendingUntracked, Zenon
  <1>2. CASE StopGetState(n)
    <2>1. pc[n] = "d_state" /\ pc[n] \notin Waits
      BY <1>2, Zenon DEF StopGetState, Waits
    <2>2. CASE ReturnDeleted(n)
      BY <1>1, <2>1, <2>2, Zenon
    <2>3. CASE ~ReturnDeleted(n)
      <3>1. /\ UNCHANGED <<inst, okind, ost, missed>>
            /\ \/ pc'[n] = "d_delete" /\ inst[n] = "stopped"
               \/ pc'[n] = "d_stop" /\ inst[n] \in Contract!Running
               \/ pc'[n] = "error"
        BY <1>0, <1>2, <2>3, Zenon DEF StopGetState
      <3>2. CASE pc'[n] = "error"
        BY <1>0, <2>1, <3>1, <3>2, RestInv, PendingUntracked, Zenon
      <3> QED  BY <2>1, <3>1, <3>2, Zenon DEF NInv, OpInv, AdoptInv, DeleteInv, CalmInv, Pending, Waits, Stages
    <2> QED  BY <2>2, <2>3, Zenon
  <1>3. CASE StopRequest(n)
    <2>1. pc[n] = "d_stop" /\ pc[n] \notin Waits
      BY <1>3, Zenon DEF StopRequest, Waits
    <2>2. CASE Request(n, "stop", Contract!Running, "d_stopwait")
      <3>1. /\ inst[n] \in Contract!Running /\ UNCHANGED <<inst, missed>>
            /\ okind'[n] = "stop" /\ ost'[n] = "pending" /\ pc'[n] = "d_stopwait"
        BY <1>0, <2>2, Zenon DEF Request
      <3> QED  BY <3>1, Zenon DEF NInv, OpInv, AdoptInv, DeleteInv, CalmInv, Pending, Waits, Stages
    <2> QED  BY <1>1, <1>3, <2>1, <2>2, Zenon DEF StopRequest
  <1>4. CASE StopWait(n)
    <2>1. pc[n] = "d_stopwait" /\ UNCHANGED <<inst, okind, ost, missed>>
      BY <1>4, Zenon DEF StopWait, WaitForOperation
    <2>2. CASE OpSucceeded(n) /\ Go(n, "d_delete")
      <3>1. pc'[n] = "d_delete" /\ ~Pending(n)
        BY <1>0, <2>2, Zenon DEF OpSucceeded, Pending
      <3> QED  BY <2>1, <3>1, Zenon DEF NInv, OpInv, AdoptInv, DeleteInv, CalmInv, Pending, Waits, Stages
    <2>3. CASE ost[n] = "failed" /\ Go(n, "error")
      BY <1>0, <2>1, <2>3, RestInv, PendingUntracked, Zenon DEF Pending
    <2>4. CASE "timeout" \in Faults /\ \E r \in {"error"} : Go(n, r)
      BY <1>0, <2>1, <2>4, RestInv, PendingUntracked, Zenon
    <2> QED  BY <1>4, <2>2, <2>3, <2>4, Zenon DEF StopWait, WaitForOperation
  <1>5. CASE DeleteRequest(n)
    <2>1. pc[n] = "d_delete" /\ pc[n] \notin Waits
      BY <1>5, Zenon DEF DeleteRequest, Waits
    <2>2. CASE Request(n, "delete", {"stopped"}, "d_wait")
      <3>1. /\ inst[n] = "stopped" /\ UNCHANGED <<inst, missed>>
            /\ okind'[n] = "delete" /\ ost'[n] = "pending" /\ pc'[n] = "d_wait"
        BY <1>0, <2>2, Zenon DEF Request
      <3> QED  BY <3>1, Zenon DEF NInv, OpInv, AdoptInv, DeleteInv, CalmInv, Pending, Waits, Stages
    <2> QED  BY <1>1, <1>5, <2>1, <2>2, Zenon DEF DeleteRequest
  <1>6. CASE DeleteWait(n)
    <2>1. CASE OpSucceeded(n) /\ ReturnDeleted(n)
      BY <1>1, <2>1, Zenon
    <2>2. CASE ~OpSucceeded(n) /\ WaitForOperation(n, "error", {"error"})
      <3>1. /\ pc'[n] = "error" /\ UNCHANGED <<inst, okind, ost>>
            /\ ~Pending(n) \/ "timeout" \in Faults
        BY <1>0, <2>2, Zenon DEF WaitForOperation, Pending
      <3> QED  BY <1>0, <3>1, RestInv, PendingUntracked, Zenon
    <2> QED  BY <1>6, <2>1, <2>2, Zenon DEF DeleteWait
  <1> QED  BY <1>2, <1>3, <1>4, <1>5, <1>6, Zenon

\* The initial state satisfies the invariant.
LEMMA InitInv == Init => IInv
  <1> SUFFICES ASSUME Init PROVE IInv
    BY Zenon
  <1>1. TypeOK
    BY Zenon DEF Init, TypeOK, Contract!InstStates, Contract!OpKinds, Contract!Results
  <1>2. ASSUME NEW n \in Names PROVE NInv(n)
    BY Zenon DEF Init, NInv, OpInv, AdoptInv, DeleteInv, CalmInv, Pending, Stages
  <1> QED  BY <1>1, <1>2, Zenon DEF IInv

\* The invariant is inductive.
LEMMA NextInv == IInv /\ [Next]_vars => IInv'
  <1> SUFFICES ASSUME IInv, [Next]_vars, NEW n \in Names PROVE NInv(n)'
    BY NextType, Zenon DEF IInv
  <1>0. TypeOK /\ NInv(n)
    BY Zenon DEF IInv
  <1>1. ASSUME NEW k \in Names, Server(k) \/ Launch(k) \/ Delete(k) \/ ClientStep(k) PROVE NInv(n)'
    <2>1. CASE n # k
      BY <1>0, <1>1, <2>1, Others, Frame, Zenon
    <2>2. CASE n = k /\ Server(k)
      BY <1>0, <2>2, ServerInv, Zenon
    <2>3. CASE n = k /\ (Launch(k) \/ Delete(k))
      <3>1. /\ pc[n] \in Contract!Results /\ pc'[n] \in {"l_state", "d_state"}
            /\ UNCHANGED <<inst, okind, ost>>
        BY <1>0, <2>3, Zenon DEF Launch, Delete, Go, serverVars, TypeOK
      <3>2. pc[n] \notin Waits
        BY <3>1, Zenon DEF Waits, Contract!Results
      <3> QED  BY <1>0, <3>1, <3>2, RestInv, PendingUntracked, Zenon
    <2>4. CASE n = k /\ ClientStep(k)
      BY <1>0, <2>4, LaunchInv, StartInv, DeletionInv, Zenon DEF ClientStep
    <2> QED  BY <1>1, <2>1, <2>2, <2>3, <2>4, Zenon
  <1>2. CASE Crash
    <2>1. /\ "crash" \in Faults /\ pc'[n] \in Contract!Results /\ UNCHANGED <<inst, okind, ost>>
      BY <1>2, Zenon DEF Crash, serverVars, Contract!Results
    <2> QED  BY <1>0, <2>1, RestInv, Zenon DEF Untracked
  <1>3. CASE UNCHANGED vars
    BY <1>0, <1>3, Frame, Zenon DEF vars
  <1> QED  BY <1>1, <1>2, <1>3, Zenon DEF Next

\* The invariant holds in every reachable state.
LEMMA Invariance == Spec => []IInv
  BY InitInv, NextInv, PTL DEF Spec

\* Every variable of the client and of the server keeps its type; a pending
\* operation always has a kind, so OpDone is never at a loss.
THEOREM TypeCorrect == Spec => []TypeOK
  <1>1. IInv => TypeOK
    BY Zenon DEF IInv
  <1> QED  BY <1>1, Invariance, PTL

\* client_instances.go:20, "it will wait for the existing operation": a launch
\* that listed the operations never asks for an instance that is being created.
THEOREM PendingCreateAdopted == Spec => []AdoptsPendingCreate
  <1>1. IInv => AdoptsPendingCreate
    BY Zenon DEF IInv, NInv, AdoptInv, AdoptsPendingCreate
  <1> QED  BY <1>1, Invariance, PTL

-----------------------------------------------------------------------------
\* The refinement mapping of Contract, instance by instance.
Op(n) == IF Pending(n) THEN okind[n] ELSE "none"
Call(n) == CASE pc[n] \in LaunchPcs -> "launch" [] pc[n] \in DeletePcs -> "delete" [] OTHER -> pc[n]

opBar == [n \in Names |-> Op(n)]
callBar == [n \in Names |-> Call(n)]

\* A call is in progress exactly while its pc is inside it.
LEMMA CallOf ==
    ASSUME NEW n \in Names
    PROVE  /\ pc[n] \in LaunchPcs => Call(n) = "launch"
           /\ pc[n] \in DeletePcs => Call(n) = "delete"
           /\ pc[n] \in Contract!Results => Call(n) = pc[n] /\ Call(n) \notin Contract!Calls
  BY Zenon DEF Call, LaunchPcs, DeletePcs, Stages, Contract!Results, Contract!Calls

\* The same after a step.
LEMMA CallOfPrime ==
    ASSUME NEW n \in Names
    PROVE  /\ pc'[n] \in LaunchPcs => Call(n)' = "launch"
           /\ pc'[n] \in DeletePcs => Call(n)' = "delete"
           /\ pc'[n] \in Contract!Results => Call(n)' = pc'[n] /\ Call(n)' \notin Contract!Calls
  BY Zenon DEF Call, LaunchPcs, DeletePcs, Stages, Contract!Results, Contract!Calls

\* A step about k changes the contract's variables at k only.
LEMMA BarStep ==
    ASSUME TypeOK, NEW k \in Names, Server(k) \/ Launch(k) \/ Delete(k) \/ ClientStep(k)
    PROVE  /\ opBar' = [opBar EXCEPT ![k] = Op(k)']
           /\ callBar' = [callBar EXCEPT ![k] = Call(k)']
  <1>1. ASSUME NEW n \in Names, n # k PROVE Op(n)' = Op(n) /\ Call(n)' = Call(n)
    BY <1>1, Others, Zenon DEF Op, Call, Pending
  <1> QED  BY <1>1, Zenon DEF opBar, callBar

\* The steps of the contract that end a call, in terms of Op and Call.
LEMMA ErrorStep ==
    ASSUME NEW k \in Names, Call(k) \in Contract!Calls, Op(k) = "none" \/ Untracked, ~Calm,
           callBar' = [callBar EXCEPT ![k] = "error"], opBar' = opBar, UNCHANGED <<inst, missed, leak>>
    PROVE  Contract!ReturnError(k)
  BY Zenon DEF Contract!ReturnError, callBar, opBar, Op, Call, Untracked, Calm

\* A call that fails: nothing on the server changes with it, it leaves an
\* operation behind only if calls can be cut off, and something has gone wrong.
LEMMA FailureCause ==
    ASSUME TypeOK, NEW n \in Names, NInv(n), ClientStep(n), pc'[n] = "error"
    PROVE  /\ ~Calm
           /\ Pending(n) => Untracked
           /\ UNCHANGED <<inst, okind, ost, missed, leak>>
           /\ pc[n] \in LaunchPcs \cup DeletePcs
  <1>0. pc = [k \in Names |-> pc[k]]
    BY Zenon DEF TypeOK
  <1> USE Typed DEF Go, serverVars
  <1>1. ASSUME NEW states, NEW kind, NEW waiting \in Waits,
               Request(n, kind, states, waiting) \/ Reject(n, states),
               pc[n] \notin Waits, Calm => inst[n] \in states
        PROVE  ~Calm /\ (Pending(n) => Untracked) /\ UNCHANGED <<inst, okind, ost, missed, leak>>
    <2>1. ~Request(n, kind, states, waiting)
      BY <1>0, Zenon DEF Request, Waits
    <2>2. /\ inst[n] \notin states \/ Pending(n) \/ "error" \in Faults
          /\ UNCHANGED <<inst, okind, ost, missed, leak>>
      BY <1>1, <2>1, Zenon DEF Reject
    <2>3. Pending(n) => Untracked
      BY <1>1, PendingUntracked, Zenon
    <2> QED  BY <1>1, <2>2, <2>3, Zenon DEF Calm, Untracked
  <1>2. ASSUME NEW next, next # "error" \/ ~OpSucceeded(n), NEW giveUp, WaitForOperation(n, next, giveUp)
        PROVE  ~Calm /\ (Pending(n) => Untracked) /\ UNCHANGED <<inst, okind, ost, missed, leak>>
    <2>1. ost[n] = "failed" \/ ("timeout" \in Faults /\ Pending(n))
      BY <1>0, <1>2, Zenon DEF WaitForOperation
    <2> QED  BY <1>2, <2>1, Zenon DEF WaitForOperation, NInv, OpInv, Calm, Untracked, Pending
  <1>3. ASSUME Refused(n), Calm => inst[n] # "absent", pc[n] \notin Waits
        PROVE  ~Calm /\ (Pending(n) => Untracked)
    BY <1>3, PendingUntracked, Zenon DEF Refused, Calm
  <1>4. CASE LaunchGetState(n) \/ LaunchFind(n)
    BY <1>0, <1>4, Zenon DEF LaunchGetState, LaunchFind
  <1>5. CASE LaunchCreate(n)
    <2>1. pc[n] \in {"l_create", "l_unlisted"} /\ pc[n] \notin Waits /\ (Calm => inst[n] \in {"absent"})
      BY <1>5, Zenon DEF LaunchCreate, Waits, NInv, CalmInv
    <2>2. Request(n, "create", {"absent"}, "l_wait") \/ Reject(n, {"absent"})
      BY <1>0, <1>5, Zenon DEF LaunchCreate
    <2> QED  BY <1>1, <2>1, <2>2, Zenon DEF Waits, LaunchPcs
  <1>6. CASE LaunchWait(n) \/ StartWait(n) \/ StopWait(n)
    BY <1>2, <1>6, Zenon DEF LaunchWait, StartWait, StopWait, LaunchPcs, DeletePcs
  <1>7. CASE LaunchSetup(n)
    <2>1. /\ pc[n] \in Stages /\ UNCHANGED <<inst, okind, ost, missed, leak>>
          /\ NextStage[pc[n]] # "error"
      BY <1>7, SMTT(30) DEF LaunchSetup, Stages, NextStage
    <2>2. Refused(n)
      BY <1>0, <1>7, <2>1, Zenon DEF LaunchSetup
    <2>3. pc[n] \notin Waits /\ (Calm => inst[n] # "absent")
      BY <2>1, Zenon DEF Waits, Stages, NInv, CalmInv
    <2> QED  BY <1>3, <2>1, <2>2, <2>3, Zenon DEF LaunchPcs
  <1>8. CASE StartGetState(n)
    <2>1. pc[n] = "s_state" /\ Refused(n) /\ UNCHANGED <<inst, okind, ost, missed, leak>>
      BY <1>0, <1>8, Zenon DEF StartGetState
    <2> QED  BY <1>3, <2>1, Zenon DEF NInv, CalmInv, Waits, LaunchPcs
  <1>9. CASE StartRequest(n)
    <2>1. pc[n] = "s_start" /\ pc[n] \notin Waits /\ (Calm => inst[n] \in {"stopped"})
      BY <1>9, Zenon DEF StartRequest, Waits, NInv, CalmInv
    <2> QED  BY <1>1, <1>9, <2>1, Zenon DEF StartRequest, Waits, LaunchPcs
  <1>10. CASE WaitForInstanceAddress(n)
    <2>1. pc[n] = "s_addr" /\ Refused(n) /\ UNCHANGED <<inst, okind, ost, missed, leak>>
      BY <1>0, <1>10, Zenon DEF WaitForInstanceAddress
    <2> QED  BY <1>3, <2>1, Zenon DEF NInv, CalmInv, Waits, LaunchPcs, Contract!Running
  <1>11. CASE StopGetState(n)
    <2>1. pc[n] = "d_state" /\ "error" \in Faults /\ UNCHANGED <<inst, okind, ost, missed, leak>>
      BY <1>0, <1>11, Zenon DEF StopGetState, ReturnDeleted
    <2> QED  BY <2>1, PendingUntracked, Zenon DEF Calm, Waits, DeletePcs
  <1>12. CASE StopRequest(n)
    <2>1. pc[n] = "d_stop" /\ pc[n] \notin Waits /\ (Calm => inst[n] \in Contract!Running)
      BY <1>12, Zenon DEF StopRequest, Waits, NInv, CalmInv
    <2>2. Request(n, "stop", Contract!Running, "d_stopwait") \/ Reject(n, Contract!Running)
      BY <1>0, <1>12, Zenon DEF StopRequest, ReturnDeleted
    <2> QED  BY <1>1, <2>1, <2>2, Zenon DEF Waits, DeletePcs
  <1>13. CASE DeleteRequest(n)
    <2>1. pc[n] = "d_delete" /\ pc[n] \notin Waits /\ (Calm => inst[n] \in {"stopped"})
      BY <1>13, Zenon DEF DeleteRequest, Waits, NInv, CalmInv
    <2> QED  BY <1>1, <1>13, <2>1, Zenon DEF DeleteRequest, Waits, DeletePcs
  <1>14. CASE DeleteWait(n)
    <2>1. pc[n] = "d_wait" /\ ~OpSucceeded(n) /\ WaitForOperation(n, "error", {"error"})
      BY <1>0, <1>14, Zenon DEF DeleteWait, ReturnDeleted
    <2> QED  BY <1>2, <2>1, Zenon DEF DeletePcs
  <1> QED  BY <1>4, <1>5, <1>6, <1>7, <1>8, <1>9, <1>10, <1>11, <1>12, <1>13, <1>14, Zenon DEF ClientStep

\* A move inside a call is no step of the contract.
LEMMA MoveStutters ==
    ASSUME TypeOK, NEW k \in Names, ClientStep(k), UNCHANGED <<inst, okind, ost, missed, leak>>,
           \/ pc[k] \in LaunchPcs /\ pc'[k] \in LaunchPcs
           \/ pc[k] \in DeletePcs /\ pc'[k] \in DeletePcs
    PROVE  UNCHANGED Contract!instVars
  <1>1. Op(k)' = Op(k) /\ Call(k)' = Call(k)
    BY CallOf, CallOfPrime DEF Op, Pending
  <1>2. opBar' = opBar /\ callBar' = callBar
    BY <1>1, BarStep, Zenon DEF opBar, callBar
  <1> QED  BY <1>2, Zenon DEF Contract!instVars, opBar, callBar, Op, Call

\* A request the server takes on is the contract's Accept.
LEMMA RequestAccepted ==
    ASSUME TypeOK, NEW k \in Names, ClientStep(k), NEW c \in {"launch", "delete"}, NEW kind, NEW states, NEW waiting,
           Call(k) = c, Call(k)' = c, Request(k, kind, states, waiting)
    PROVE  Contract!Accept(k, c, kind, states)
  <1>1. Op(k) = "none" /\ Op(k)' = kind
    BY Zenon DEF Request, Op, Pending, TypeOK
  <1>2. opBar' = [opBar EXCEPT ![k] = kind] /\ callBar' = callBar
    BY <1>1, BarStep, Zenon DEF opBar, callBar
  <1> QED  BY <1>1, <1>2, Zenon DEF Contract!Accept, Request, opBar, callBar, Op, Call

\* The end of a call, as the contract sees it.
LEMMA CallEnds ==
    ASSUME TypeOK, NEW k \in Names, ClientStep(k), UNCHANGED <<okind, ost>>, pc'[k] \in Contract!Results
    PROVE  callBar' = [callBar EXCEPT ![k] = pc'[k]] /\ opBar' = opBar
  <1>1. Op(k)' = Op(k) /\ Call(k)' = pc'[k]
    BY CallOfPrime, Zenon DEF Op, Pending
  <1> QED  BY <1>1, BarStep, Zenon DEF opBar, callBar

\* "deleted" is reported of an instance that is gone, or whose failed removal
\* went unread, and leak records whether it left anything.
LEMMA DeletedStep ==
    ASSUME TypeOK, NEW k \in Names, NInv(k), ClientStep(k), ReturnDeleted(k),
           pc[k] \in DeletePcs, inst[k] = "absent" \/ missed[k]
    PROVE  Contract!ReturnDeleted(k)
  <1>1. pc'[k] = "deleted" /\ UNCHANGED <<inst, okind, ost, missed>>
    BY Zenon DEF ReturnDeleted, Go, serverVars, TypeOK
  <1>2. callBar' = [callBar EXCEPT ![k] = "deleted"] /\ opBar' = opBar
    BY <1>1, CallEnds, Zenon DEF Contract!Results
  <1>3. callBar[k] = "delete"
    BY CallOf, Zenon DEF callBar
  <1>4. (Pending(k) /\ okind[k] = "create") <=> opBar[k] = "create"
    BY Zenon DEF opBar, Op
  <1>5. leak' = [leak EXCEPT ![k] = inst[k] # "absent" \/ opBar[k] = "create"]
    BY <1>4, Zenon DEF ReturnDeleted
  <1> QED  BY <1>1, <1>2, <1>3, <1>5, Zenon DEF Contract!ReturnDeleted, opBar, callBar, Op, Call

\* A call that does not fail: it moves on, its request is accepted, or it
\* returns what the contract lets it return.
LEMMA LaunchSimulated ==
    ASSUME TypeOK, NEW k \in Names, NInv(k), ClientStep(k), pc'[k] # "error",
           \/ LaunchGetState(k) \/ LaunchFind(k) \/ LaunchCreate(k) \/ LaunchWait(k) \/ LaunchSetup(k)
           \/ StartGetState(k) \/ StartRequest(k) \/ StartWait(k) \/ WaitForInstanceAddress(k)
    PROVE  Contract!Progress(k) \/ UNCHANGED Contract!instVars
  <1>0. /\ pc = [n \in Names |-> pc[n]] /\ LaunchPcs = LaunchPcs \cup Stages
        /\ {"l_find", "l_create", "l_unlisted", "l_wait", "l_state", "s_state", "s_start", "s_wait", "s_addr",
            "templates", "files", "replacements"} \subseteq LaunchPcs
        /\ {"launched", "terminal", "deadline"} \subseteq Contract!Results
    BY Zenon DEF TypeOK, LaunchPcs, Stages, Contract!Results
  <1> USE DEF Go, serverVars
  <1>1. ASSUME pc[k] \in LaunchPcs, pc'[k] = "deadline", "timeout" \in Faults,
               UNCHANGED <<inst, okind, ost, missed, leak>>
        PROVE  Contract!ReturnDeadline(k)
    <2>1. callBar' = [callBar EXCEPT ![k] = "deadline"] /\ opBar' = opBar /\ callBar[k] = "launch"
      BY <1>0, <1>1, CallEnds, CallOf, Zenon DEF callBar
    <2> QED  BY <1>1, <2>1, Zenon DEF Contract!ReturnDeadline, opBar, callBar, Op, Call
  <1>2. ASSUME pc[k] \in LaunchPcs, pc'[k] \in LaunchPcs, UNCHANGED <<inst, okind, ost, missed, leak>>
        PROVE  UNCHANGED Contract!instVars
    BY <1>2, MoveStutters, Zenon
  <1>3. CASE LaunchGetState(k) \/ LaunchFind(k) \/ StartGetState(k)
    <2>1. pc[k] \in LaunchPcs /\ pc'[k] \in LaunchPcs /\ UNCHANGED <<inst, okind, ost, missed, leak>>
      BY <1>0, <1>3, Zenon DEF LaunchGetState, LaunchFind, StartGetState
    <2> QED  BY <1>2, <2>1, Zenon
  <1>4. CASE LaunchSetup(k)
    <2>1. pc[k] \in Stages /\ UNCHANGED <<inst, okind, ost, missed, leak>>
      BY <1>4, Zenon DEF LaunchSetup
    <2>2. pc'[k] = NextStage[pc[k]]
      BY <1>0, <1>4, Zenon DEF LaunchSetup
    <2>3. pc'[k] \in LaunchPcs
      BY <1>0, <2>1, <2>2 DEF NextStage, Stages
    <2> QED  BY <1>0, <1>2, <2>1, <2>3, Zenon
  <1>5. CASE LaunchWait(k) \/ StartWait(k)
    <2>1. /\ pc[k] \in LaunchPcs /\ UNCHANGED <<inst, okind, ost, missed, leak>>
          /\ \/ pc'[k] \in LaunchPcs
             \/ pc'[k] = "deadline" /\ "timeout" \in Faults
      BY <1>0, <1>5, Zenon DEF LaunchWait, StartWait, WaitForOperation
    <2> QED  BY <1>1, <1>2, <2>1, Zenon DEF Contract!Progress
  <1>6. CASE LaunchCreate(k)
    <2>1. pc[k] \in LaunchPcs
      BY <1>0, <1>6, Zenon DEF LaunchCreate
    <2>2. CASE k \in Unlaunchable /\ Go(k, "terminal") /\ UNCHANGED <<serverVars, missed, leak>>
      <3>1. pc'[k] = "terminal"
        BY <1>0, <2>2, Zenon
      <3>2. callBar' = [callBar EXCEPT ![k] = "terminal"] /\ opBar' = opBar /\ callBar[k] = "launch"
        BY <1>0, <2>1, <2>2, <3>1, CallEnds, CallOf, Zenon DEF callBar
      <3>3. Contract!ReturnTerminal(k)
        BY <2>2, <3>2, Zenon DEF Contract!ReturnTerminal, opBar, callBar, Op, Call
      <3> QED  BY <3>3, Zenon DEF Contract!Progress
    <2>3. CASE k \notin Unlaunchable /\ Request(k, "create", {"absent"}, "l_wait")
      <3>1. Call(k) = "launch" /\ Call(k)' = "launch"
        BY <1>0, <2>1, <2>3, CallOf, CallOfPrime, Zenon DEF Request
      <3>2. Contract!Accept(k, "launch", "create", {"absent"})
        BY <2>3, <3>1, RequestAccepted, Zenon
      <3> QED  BY <2>3, <3>2, Zenon DEF Contract!Progress, Contract!AcceptCreate
    <2> QED  BY <1>0, <1>6, <2>2, <2>3, Zenon DEF LaunchCreate, Reject
  <1>7. CASE StartRequest(k)
    <2>1. pc[k] \in LaunchPcs /\ Request(k, "start", {"stopped"}, "s_wait")
      BY <1>0, <1>7, Zenon DEF StartRequest, Reject
    <2>2. Call(k) = "launch" /\ Call(k)' = "launch"
      BY <1>0, <2>1, CallOf, CallOfPrime, Zenon DEF Request
    <2>3. Contract!Accept(k, "launch", "start", {"stopped"})
      BY <2>1, <2>2, RequestAccepted, Zenon
    <2> QED  BY <2>3, Zenon DEF Contract!Progress, Contract!AcceptStart
  <1>8. CASE WaitForInstanceAddress(k)
    <2>1. /\ pc[k] \in LaunchPcs /\ UNCHANGED <<inst, okind, ost, missed, leak>>
          /\ \/ pc'[k] = "launched" /\ inst[k] = "up"
             \/ pc'[k] = "deadline" /\ "timeout" \in Faults
      BY <1>0, <1>8, Zenon DEF WaitForInstanceAddress
    <2>2. CASE pc'[k] = "launched" /\ inst[k] = "up"
      <3>1. callBar' = [callBar EXCEPT ![k] = "launched"] /\ opBar' = opBar /\ callBar[k] = "launch"
        BY <1>0, <2>1, <2>2, CallEnds, CallOf, Zenon DEF callBar
      <3>2. Contract!ReturnLaunched(k)
        BY <2>1, <2>2, <3>1, Zenon DEF Contract!ReturnLaunched, opBar, callBar, Op, Call
      <3> QED  BY <3>2, Zenon DEF Contract!Progress
    <2> QED  BY <1>1, <2>1, <2>2, Zenon DEF Contract!Progress
  <1> QED  BY <1>3, <1>4, <1>5, <1>6, <1>7, <1>8, Zenon

\* The same for WaitForDeleteInstance: it is only here that "deleted" depends on
\* which operation the call waited for.
LEMMA DeletionSimulated ==
    ASSUME TypeOK, NEW k \in Names, NInv(k), ClientStep(k), pc'[k] # "error",
           StopGetState(k) \/ StopRequest(k) \/ StopWait(k) \/ DeleteRequest(k) \/ DeleteWait(k)
    PROVE  Contract!Progress(k) \/ UNCHANGED Contract!instVars
  <1>0. /\ pc = [n \in Names |-> pc[n]]
        /\ {"d_state", "d_stop", "d_stopwait", "d_delete", "d_wait"} \subseteq DeletePcs
    BY Zenon DEF TypeOK, DeletePcs
  <1> USE DEF Go, serverVars
  <1>1. ASSUME NEW kind, NEW states, NEW waiting \in DeletePcs, pc[k] \in DeletePcs,
               Request(k, kind, states, waiting)
        PROVE  Contract!Accept(k, "delete", kind, states)
    <2>1. Call(k) = "delete" /\ Call(k)' = "delete"
      BY <1>0, <1>1, CallOf, CallOfPrime, Zenon DEF Request
    <2> QED  BY <1>1, <2>1, RequestAccepted, Zenon
  <1>2. CASE StopGetState(k)
    <2>1. CASE inst[k] = "absent" /\ ReturnDeleted(k)
      BY <1>0, <1>2, <2>1, DeletedStep, Zenon DEF StopGetState, Contract!Progress
    <2>2. CASE pc'[k] \in DeletePcs /\ UNCHANGED <<inst, okind, ost, missed, leak>>
      BY <1>0, <1>2, <2>2, MoveStutters, Zenon DEF StopGetState
    <2> QED  BY <1>0, <1>2, <2>1, <2>2, Zenon DEF StopGetState
  <1>3. CASE StopRequest(k)
    <2>1. CASE inst[k] = "absent" /\ ReturnDeleted(k)
      BY <1>0, <1>3, <2>1, DeletedStep, Zenon DEF StopRequest, Contract!Progress
    <2>2. CASE Request(k, "stop", Contract!Running, "d_stopwait")
      <3>1. pc[k] \in DeletePcs
        BY <1>0, <1>3, Zenon DEF StopRequest
      <3>2. Contract!Accept(k, "delete", "stop", Contract!Running)
        BY <1>0, <1>1, <2>2, <3>1, Zenon
      <3> QED  BY <3>2, Zenon DEF Contract!Progress, Contract!AcceptStop
    <2> QED  BY <1>0, <1>3, <2>1, <2>2, Zenon DEF StopRequest, Reject
  <1>4. CASE StopWait(k)
    <2>1. pc[k] \in DeletePcs /\ pc'[k] \in DeletePcs /\ UNCHANGED <<inst, okind, ost, missed, leak>>
      BY <1>0, <1>4, Zenon DEF StopWait, WaitForOperation
    <2> QED  BY <2>1, MoveStutters, Zenon
  <1>5. CASE DeleteRequest(k)
    <2>1. pc[k] \in DeletePcs /\ Request(k, "delete", {"stopped"}, "d_wait")
      BY <1>0, <1>5, Zenon DEF DeleteRequest, Reject
    <2>2. Contract!Accept(k, "delete", "delete", {"stopped"})
      BY <1>0, <1>1, <2>1, Zenon
    <2> QED  BY <2>2, Zenon DEF Contract!Progress, Contract!AcceptDelete
  <1>6. CASE DeleteWait(k)
    <2>1. pc[k] = "d_wait" /\ OpSucceeded(k) /\ ReturnDeleted(k)
      BY <1>0, <1>6, Zenon DEF DeleteWait, WaitForOperation
    <2>2. inst[k] = "absent" \/ missed[k]
      BY <2>1, Zenon DEF NInv, DeleteInv, OpSucceeded, Pending
    <2> QED  BY <1>0, <2>1, <2>2, DeletedStep, Zenon DEF Contract!Progress
  <1> QED  BY <1>2, <1>3, <1>4, <1>5, <1>6, Zenon

\* The server's steps are the contract's; a record that expires is none, unless
\* it takes the failure of a removal with it.
LEMMA ServerSimulated ==
    ASSUME TypeOK, NEW k \in Names, NInv(k), Server(k)
    PROVE  Contract!Server(k) \/ Contract!LoseFailure(k) \/ UNCHANGED Contract!instVars
  <1>0. /\ inst = [n \in Names |-> inst[n]] /\ okind = [n \in Names |-> okind[n]]
        /\ ost = [n \in Names |-> ost[n]] /\ missed = [n \in Names |-> missed[n]]
    BY Zenon DEF TypeOK
  <1>1. UNCHANGED pc
    BY Zenon DEF Server, OpDone, OpFail, Expire, AddressUp, Vanish
  <1>2. callBar' = callBar
    BY <1>1 DEF callBar, Call
  <1>3. opBar' = [opBar EXCEPT ![k] = Op(k)']
    BY BarStep, Zenon
  <1>4. CASE OpDone(k)
    <2>1. Op(k) = okind[k] /\ Op(k) # "none" /\ Op(k)' = "none"
      BY <1>0, <1>4, Zenon DEF OpDone, Op, Pending, NInv, OpInv
    <2>2. Contract!OpDone(k)
      BY <1>2, <1>3, <1>4, <2>1, Zenon DEF OpDone, Contract!OpDone, opBar, callBar, Op, Call
    <2> QED  BY <2>2, Zenon DEF Contract!Server
  <1>5. CASE OpFail(k)
    <2>1. Op(k) # "none" /\ Op(k)' = "none"
      BY <1>0, <1>5, Zenon DEF OpFail, Op, Pending, NInv, OpInv
    <2>2. Contract!OpFail(k)
      BY <1>2, <1>3, <1>5, <2>1, Zenon DEF OpFail, Contract!OpFail, opBar, callBar, Op, Call
    <2> QED  BY <2>2, Zenon DEF Contract!Server
  <1>6. CASE Expire(k)
    <2>1. Op(k) = "none" /\ Op(k)' = "none"
      BY <1>0, <1>6, Zenon DEF Expire, Op, Pending
    <2>2. opBar' = opBar
      BY <1>3, <2>1, Zenon DEF opBar
    <2>3. CASE pc[k] = "d_wait" /\ ost[k] = "failed"
      <3>1. callBar[k] = "delete" /\ opBar[k] = "none"
        BY <2>1, <2>3, CallOf, Zenon DEF callBar, opBar, DeletePcs
      <3>2. missed' = [missed EXCEPT ![k] = TRUE]
        BY <1>6, <2>3, Typed, Zenon DEF Expire
      <3> QED  BY <1>2, <1>6, <2>2, <3>1, <3>2, Zenon DEF Expire, Contract!LoseFailure, opBar, callBar, Op, Call
    <2>4. CASE ~(pc[k] = "d_wait" /\ ost[k] = "failed")
      <3>1. missed' = missed
        BY <1>0, <1>6, <2>4, Typed, Zenon DEF Expire
      <3> QED  BY <1>2, <1>6, <2>2, <3>1, Zenon DEF Expire, Contract!instVars, opBar, callBar, Op, Call
    <2> QED  BY <2>3, <2>4, Zenon
  <1>7. CASE AddressUp(k) \/ Vanish(k)
    <2>1. Op(k) = "none" /\ Op(k)' = "none"
      BY <1>0, <1>7, Zenon DEF AddressUp, Vanish, Op, Pending
    <2>2. opBar' = opBar
      BY <1>3, <2>1, Zenon DEF opBar
    <2>3. Contract!AddressUp(k) \/ Contract!Vanish(k)
      BY <1>2, <1>7, <2>1, <2>2, Zenon DEF AddressUp, Vanish, Contract!AddressUp, Contract!Vanish, opBar, callBar, Op, Call
    <2> QED  BY <2>3, Zenon DEF Contract!Server
  <1> QED  BY <1>4, <1>5, <1>6, <1>7, Zenon DEF Server

\* Every step of the client and of the server is a step of the contract, or none.
LEMMA StepSimulated == IInv /\ [Next]_vars => [Contract!InstNext]_Contract!instVars
  <1> SUFFICES ASSUME IInv, [Next]_vars PROVE Contract!InstNext \/ UNCHANGED Contract!instVars
    BY Zenon
  <1>0. TypeOK /\ \A n \in Names : NInv(n)
    BY Zenon DEF IInv
  <1>1. ASSUME NEW k \in Names, Server(k) PROVE Contract!InstNext \/ UNCHANGED Contract!instVars
    BY <1>0, <1>1, ServerSimulated, Zenon DEF Contract!InstNext, Contract!Progress
  <1>2. ASSUME NEW k \in Names, Launch(k) \/ Delete(k) PROVE Contract!InstNext
    <2>1. /\ pc[k] \in Contract!Results /\ UNCHANGED <<inst, okind, ost, leak>>
          /\ missed' = [missed EXCEPT ![k] = FALSE]
          /\ \/ pc'[k] \in LaunchPcs
             \/ pc'[k] \in DeletePcs
      BY <1>0, <1>2, Zenon DEF Launch, Delete, Go, serverVars, TypeOK, LaunchPcs, DeletePcs
    <2>2. callBar[k] \notin Contract!Calls
      BY <2>1, CallOf, Zenon DEF callBar
    <2>3. opBar' = opBar
      BY <2>1, Zenon DEF opBar, Op, Pending
    <2>4. \/ callBar' = [callBar EXCEPT ![k] = "launch"]
          \/ callBar' = [callBar EXCEPT ![k] = "delete"]
      BY <1>0, <1>2, <2>1, BarStep, CallOfPrime, Zenon
    <2>5. Contract!BeginLaunch(k) \/ Contract!BeginDelete(k)
      BY <2>1, <2>2, <2>3, <2>4, Zenon DEF Contract!BeginLaunch, Contract!BeginDelete, opBar, callBar, Op, Call
    <2> QED  BY <2>5, Zenon DEF Contract!InstNext
  <1>3. ASSUME NEW k \in Names, ClientStep(k) PROVE Contract!InstNext \/ UNCHANGED Contract!instVars
    <2>1. CASE pc'[k] = "error"
      <3>1. /\ ~Calm /\ (Pending(k) => Untracked) /\ UNCHANGED <<inst, okind, ost, missed, leak>>
            /\ pc[k] \in LaunchPcs \cup DeletePcs
        BY <1>0, <1>3, <2>1, FailureCause, Zenon
      <3>2. callBar' = [callBar EXCEPT ![k] = "error"] /\ opBar' = opBar
        BY <1>0, <1>3, <2>1, <3>1, CallEnds, Zenon DEF Contract!Results
      <3>3. Call(k) \in Contract!Calls /\ (Op(k) = "none" \/ Untracked)
        BY <3>1, CallOf, Zenon DEF Contract!Calls, Op
      <3>4. Contract!ReturnError(k)
        BY <3>1, <3>2, <3>3, ErrorStep, Zenon
      <3> QED  BY <3>4, Zenon DEF Contract!InstNext, Contract!Progress
    <2>2. CASE pc'[k] # "error"
      BY <1>0, <1>3, <2>2, LaunchSimulated, DeletionSimulated, Zenon DEF ClientStep, Contract!InstNext
    <2> QED  BY <2>1, <2>2, Zenon
  <1>4. CASE Crash
    <2>1. opBar' = opBar
      BY <1>4, Zenon DEF Crash, serverVars, opBar, Op, Pending
    <2>2. callBar' = [n \in Names |-> "idle"]
      <3>1. ASSUME NEW n \in Names PROVE Call(n)' = "idle"
        BY <1>4, CallOfPrime, Zenon DEF Crash, Contract!Results
      <3> QED  BY <3>1, Zenon DEF callBar
    <2>3. Contract!AbandonCalls
      BY <1>4, <2>1, <2>2, Zenon DEF Crash, serverVars, Contract!AbandonCalls, opBar, callBar, Op, Call
    <2> QED  BY <2>3, Zenon DEF Contract!InstNext
  <1>5. CASE UNCHANGED vars
    BY <1>5 DEF vars, Contract!instVars, Pending
  <1> QED  BY <1>1, <1>2, <1>3, <1>4, <1>5, Zenon DEF Next

\* The calls of internal/lxc implement the contract the controllers are built
\* on, whatever the instances, the launch options and the faults.
THEOREM ContractImplemented == Spec => ImplementsContract
  <1>1. Init => Contract!InstInit
    BY Zenon DEF Init, Contract!InstInit, Pending, LaunchPcs, DeletePcs, Stages
  <1> QED  BY <1>1, Invariance, StepSimulated, PTL DEF Spec, ImplementsContract, Contract!InstSpec
=============================================================================
