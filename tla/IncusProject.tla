---------------------------- MODULE IncusProject ----------------------------
(***************************************************************************)
(* One project of an Incus server as the launchers of this repository see  *)
(* it.  WaitForLaunchInstance and WaitForDeleteInstance are single steps   *)
(* with the outcomes InstanceClient shows them to have; what matters here  *)
(* is which instances exist, and with which configuration.                 *)
(***************************************************************************)
EXTENDS LaunchOptions, FiniteSets

VARIABLES server,   \* [name, oci, tmpfs]: what GetServer says of it, and its extensions
          insts,    \* the instances, by name
          pending   \* instances whose creation goes on after the call gave up

projectVars == <<server, insts, pending>>

ServerInit ==
    /\ server \in {[name |-> "incus", oci |-> TRUE, tmpfs |-> TRUE]}
                  \cup [name : {"incus", "lxd", "unknown"}, oci : {FALSE}, tmpfs : {FALSE}]
                  \cup [name : {"incus"}, oci : {TRUE}, tmpfs : {FALSE}]
    /\ insts = EmptyMap
    /\ pending = EmptyMap

Exists(name) == name \in DOMAIN insts
Without(map, name) == [n \in DOMAIN map \ {name} |-> map[n]]

\* Addresses in the state of an instance, by where they come from.
AddressKinds ==
    [own  |-> [loopback |-> FALSE, hostName |-> TRUE,  scope |-> "global", single |-> FALSE],
     link |-> [loopback |-> FALSE, hostName |-> TRUE,  scope |-> "link",   single |-> FALSE],
     cni  |-> [loopback |-> FALSE, hostName |-> FALSE, scope |-> "global", single |-> FALSE],
     vip  |-> [loopback |-> FALSE, hostName |-> TRUE,  scope |-> "global", single |-> TRUE],
     lo   |-> [loopback |-> TRUE,  hostName |-> FALSE, scope |-> "local",  single |-> TRUE]]

Started == {"own", "link", "lo"}

ParseHostAddresses(name) ==
    {k \in insts[name].net : LET a == AddressKinds[k] IN
        ~a.loopback /\ a.hostName /\ a.scope = "global" /\ ~a.single}

\* WaitForLaunchInstance.  An instance that exists, or is being created, is
\* kept whatever its configuration.
Created(o, by) ==
    [config |-> o.config, image |-> CompleteImage(o, server.name), type |-> o.type,
     devices |-> CompleteDevices(o, server.name), templates |-> o.templates, by |-> by, net |-> {}]

Up(i) == [i EXCEPT !.net = @ \cup Started]

Launch(name, o, by, result) ==
    \/ /\ Exists(name)
       /\ \/ result = "ok" /\ insts' = [insts EXCEPT ![name] = Up(@)]
          \/ result = "error" /\ UNCHANGED insts
       /\ UNCHANGED pending
    \/ /\ ~Exists(name)
       /\ name \in DOMAIN pending
       /\ \/ result = "ok" /\ insts' = name :> Up(pending[name]) @@ insts
          \/ result = "error" /\ insts' = name :> pending[name] @@ insts
       /\ pending' = Without(pending, name)
    \/ /\ ~Exists(name)
       /\ name \notin DOMAIN pending
       /\ CompleteError(o, server.name) # "none"
       /\ result = CompleteError(o, server.name)
       /\ UNCHANGED <<insts, pending>>
    \/ /\ ~Exists(name)
       /\ name \notin DOMAIN pending
       /\ CompleteError(o, server.name) = "none"
       /\ \/ result = "ok" /\ insts' = name :> Up(Created(o, by)) @@ insts /\ UNCHANGED pending
          \/ result = "error" /\ insts' = name :> Created(o, by) @@ insts /\ UNCHANGED pending
          \/ result = "error" /\ pending' = name :> Created(o, by) @@ pending /\ UNCHANGED insts
          \/ result = "error" /\ UNCHANGED <<insts, pending>>

LateCreate ==
    \E name \in DOMAIN pending :
        /\ insts' = name :> pending[name] @@ insts
        /\ pending' = Without(pending, name)

\* WaitForDeleteInstance; a creation that is under way is not seen.
Delete(name, result) ==
    /\ \/ result = "ok" /\ insts' = Without(insts, name)
       \/ result = "error" /\ UNCHANGED insts
    /\ UNCHANGED pending

\* ListInstances with WithConfig and with WithConfigKeys.
Value(config, key) == IF key \in DOMAIN config THEN config[key] ELSE Unset

ListWithConfig(kv) ==
    {n \in DOMAIN insts : \A k \in DOMAIN kv : Value(insts[n].config, k) = kv[k]}
ListWithConfigKeys(keys) == {n \in DOMAIN insts : keys \subseteq DOMAIN insts[n].config}

\* getLoadBalancerConfiguration takes the address that sorts first; any of them may.
BackendServers(names) ==
    UNION {{[name |-> n, address |-> k] : k \in ParseHostAddresses(n)} : n \in names}
=============================================================================
