------------------------- MODULE NodeDevicesProofs -------------------------
(***************************************************************************)
(* What the devices of a kini node are good for.  ProjectLaunchesProofs     *)
(* shows which ones every node has; here they are counted, and docker       *)
(* inspect is shown to find the published ports among them.                 *)
(***************************************************************************)
EXTENDS ProjectLaunchesProofs, FiniteSetTheorems

Tagged(tag, S) == {<<tag, k>> : k \in S}

\* Devices are numbered: each has its own name.
LEMMA TaggedCount ==
  ASSUME NEW tag, NEW S, IsFiniteSet(S)
  PROVE  IsFiniteSet(Tagged(tag, S)) /\ Cardinality(Tagged(tag, S)) = Cardinality(S)
PROOF
  <1> DEFINE f == [k \in S |-> <<tag, k>>]
  <1>1. f \in Bijection(S, Tagged(tag, S))
    <2>1. ASSUME NEW k \in S, NEW j \in S, <<tag, k>> = <<tag, j>> PROVE k = j
      BY <2>1, Zenon
    <2>2. f \in [S -> Tagged(tag, S)]
      BY Zenon DEF Tagged
    <2>3. f \in Injection(S, Tagged(tag, S))
      BY <2>1, <2>2, Zenon DEF Injection, IsInjective
    <2>4. \A x \in Tagged(tag, S) : \E k \in S : f[k] = x
      BY Zenon DEF Tagged
    <2> QED  BY <2>2, <2>3, <2>4, Zenon DEF Bijection, Surjection
  <1>2. ExistsBijection(S, Tagged(tag, S))
    BY <1>1, Zenon DEF ExistsBijection
  <1> QED  BY <1>2, FS_Bijection, Zenon

\* The name of a device tells its kind.
LEMMA TagOf ==
  ASSUME NEW tag, NEW S, NEW x \in Tagged(tag, S)
  PROVE  x[1] = tag
PROOF
  <1>1. PICK k \in S : x = <<tag, k>>
    BY Zenon DEF Tagged
  <1>2. <<tag, k>>[1] = tag
    BY Zenon
  <1> QED  BY <1>1, <1>2, Zenon

\* The size of two sets that are apart.
LEMMA ApartCount ==
  ASSUME NEW S, NEW T, IsFiniteSet(S), IsFiniteSet(T), S \cap T = {}
  PROVE  /\ IsFiniteSet(S \cup T)
         /\ Cardinality(S \cup T) = Cardinality(S) + Cardinality(T)
         /\ Cardinality(S) \in Nat /\ Cardinality(T) \in Nat
PROOF
  <1>1. /\ IsFiniteSet(S \cup T)
        /\ Cardinality(S \cup T) = Cardinality(S) + Cardinality(T) - Cardinality(S \cap T)
    BY FS_Union, Zenon
  <1>2. Cardinality(S \cap T) = 0
    BY FS_EmptySet, Zenon
  <1>3. Cardinality(S) \in Nat /\ Cardinality(T) \in Nat
    BY FS_CardinalityType, Zenon
  <1> QED  BY <1>1, <1>2, <1>3

Mounted(n) == {k \in DOMAIN Nodes[n].volumes : Nodes[n].volumes[k] \notin {"/var", "/lib/modules"}}

\* The devices that kind asks for, and that of the profile.
AskedCount(n, tmpfs) ==
    Len(Nodes[n].devices) + (IF tmpfs THEN Len(Nodes[n].tmpfs) ELSE 0) + Cardinality(Mounted(n)) + Len(Nodes[n].publish)
    + (IF IsNode(n) THEN 1 ELSE 0)

\* As many names as there are items in a list.
LEMMA ListCount ==
  ASSUME NEW tag, NEW s, IsList(s)
  PROVE  /\ IsFiniteSet(DOMAIN s) /\ Len(s) \in Nat
         /\ IsFiniteSet(Tagged(tag, DOMAIN s)) /\ Cardinality(Tagged(tag, DOMAIN s)) = Len(s)
PROOF
  <1>1. s \in Seq({s[k] : k \in DOMAIN s})
    BY Zenon DEF IsList
  <1>2. DOMAIN s = 1..Len(s) /\ Len(s) \in Nat
    BY <1>1
  <1>3. IsFiniteSet(1..Len(s)) /\ Cardinality(1..Len(s)) = Len(s)
    <2>1. ASSUME NEW l \in Nat PROVE IsFiniteSet(1..l) /\ Cardinality(1..l) = l
      <3>1. IsFiniteSet(1..l) /\ Cardinality(1..l) = IF 1 > l THEN 0 ELSE l - 1 + 1
        BY FS_Interval
      <3> QED  BY <3>1
    <2> QED  BY <1>2, <2>1, Zenon
  <1>4. IsFiniteSet(DOMAIN s) /\ Cardinality(DOMAIN s) = Len(s)
    BY <1>2, <1>3, Zenon
  <1> QED  BY <1>2, <1>4, TaggedCount, Zenon

\* The names of a node's devices.
NodeNames(n, tmpfs) ==
    Tagged("docker-device", DOMAIN Nodes[n].devices)
    \cup (Tagged("docker-tmpfs", IF tmpfs THEN DOMAIN Nodes[n].tmpfs ELSE {})
          \cup (Tagged("docker-volume", Mounted(n))
                \cup (Tagged("docker-proxy", DOMAIN Nodes[n].publish)
                      \cup Tagged("profile", IF IsNode(n) THEN {1} ELSE {}))))

\* A node has as many devices as were asked for, and that of its profile.
LEMMA NamesCounted ==
  ASSUME NEW n \in DOMAIN Nodes, NEW tmpfs
  PROVE  /\ IsFiniteSet(NodeNames(n, tmpfs)) /\ Cardinality(NodeNames(n, tmpfs)) = AskedCount(n, tmpfs)
         /\ Cardinality(Mounted(n)) \in Nat /\ Len(Nodes[n].publish) \in Nat
         /\ Len(Nodes[n].tmpfs) \in Nat /\ Len(Nodes[n].devices) \in Nat
PROOF
  <1> DEFINE U == Tagged("docker-device", DOMAIN Nodes[n].devices)
             T == Tagged("docker-tmpfs", IF tmpfs THEN DOMAIN Nodes[n].tmpfs ELSE {})
             V == Tagged("docker-volume", Mounted(n))
             P == Tagged("docker-proxy", DOMAIN Nodes[n].publish)
             B == Tagged("profile", IF IsNode(n) THEN {1} ELSE {})
             t == IF tmpfs THEN Len(Nodes[n].tmpfs) ELSE 0
             b == IF IsNode(n) THEN 1 ELSE 0
  <1>1. IsList(Nodes[n].publish) /\ IsList(Nodes[n].volumes) /\ IsList(Nodes[n].tmpfs) /\ IsList(Nodes[n].devices)
    BY NodesAssumption, Zenon
  <1>2. IsFiniteSet(U) /\ Cardinality(U) = Len(Nodes[n].devices) /\ Len(Nodes[n].devices) \in Nat
    BY <1>1, ListCount, Zenon
  <1>3. IsFiniteSet(T) /\ Cardinality(T) = t /\ Len(Nodes[n].tmpfs) \in Nat
    <2>1. Len(Nodes[n].tmpfs) \in Nat
      BY <1>1, ListCount, Zenon
    <2>2. CASE tmpfs
      BY <1>1, <2>1, <2>2, ListCount, Zenon
    <2>3. CASE ~tmpfs
      <3>1. IsFiniteSet(Tagged("docker-tmpfs", {})) /\ Cardinality(Tagged("docker-tmpfs", {})) = 0
        BY FS_EmptySet, TaggedCount, Zenon
      <3> QED  BY <2>1, <2>3, <3>1, Zenon
    <2> QED  BY <2>2, <2>3, Zenon
  <1>4. IsFiniteSet(V) /\ Cardinality(V) = Cardinality(Mounted(n)) /\ Cardinality(Mounted(n)) \in Nat
    <2>1. IsFiniteSet(DOMAIN Nodes[n].volumes)
      BY <1>1, ListCount, Zenon
    <2>2. IsFiniteSet(Mounted(n))
      BY <2>1, FS_Subset, Zenon DEF Mounted
    <2> QED  BY <2>2, TaggedCount, FS_CardinalityType, Zenon
  <1>5. IsFiniteSet(P) /\ Cardinality(P) = Len(Nodes[n].publish) /\ Len(Nodes[n].publish) \in Nat
    BY <1>1, ListCount, Zenon
  <1>6. IsFiniteSet(B) /\ Cardinality(B) = b
    <2> DEFINE S == IF IsNode(n) THEN {1} ELSE {}
    <2>1. IsFiniteSet(S) /\ Cardinality(S) = b
      BY FS_EmptySet, FS_Singleton, Zenon
    <2> HIDE DEF S
    <2> QED  BY <2>1, TaggedCount, Zenon DEF S
  <1>7. /\ U \cap (T \cup (V \cup (P \cup B))) = {} /\ T \cap (V \cup (P \cup B)) = {}
        /\ V \cap (P \cup B) = {} /\ P \cap B = {}
    <2>1. \A x \in U : x[1] = "docker-device"
      BY TagOf, Zenon
    <2>2. \A x \in T : x[1] = "docker-tmpfs"
      BY TagOf, Zenon
    <2>3. \A x \in V : x[1] = "docker-volume"
      BY TagOf, Zenon
    <2>4. \A x \in P : x[1] = "docker-proxy"
      BY TagOf, Zenon
    <2>5. \A x \in B : x[1] = "profile"
      BY TagOf, Zenon
    <2> HIDE DEF U, T, V, P, B
    <2> QED  BY <2>1, <2>2, <2>3, <2>4, <2>5
  <1>8. NodeNames(n, tmpfs) = U \cup (T \cup (V \cup (P \cup B)))
    BY Zenon DEF NodeNames
  <1> HIDE DEF U, T, V, P, B
  <1>9. IsFiniteSet(P \cup B) /\ Cardinality(P \cup B) = Cardinality(P) + Cardinality(B)
    BY <1>5, <1>6, <1>7, ApartCount, Zenon
  <1>10. IsFiniteSet(V \cup (P \cup B)) /\ Cardinality(V \cup (P \cup B)) = Cardinality(V) + Cardinality(P \cup B)
    BY <1>4, <1>7, <1>9, ApartCount, Zenon
  <1>11. /\ IsFiniteSet(T \cup (V \cup (P \cup B)))
         /\ Cardinality(T \cup (V \cup (P \cup B))) = Cardinality(T) + Cardinality(V \cup (P \cup B))
    BY <1>3, <1>7, <1>10, ApartCount, Zenon
  <1>12. /\ IsFiniteSet(NodeNames(n, tmpfs))
         /\ Cardinality(NodeNames(n, tmpfs)) = Cardinality(U) + Cardinality(T \cup (V \cup (P \cup B)))
    <2> DEFINE R == T \cup (V \cup (P \cup B))
    <2>1. IsFiniteSet(U) /\ IsFiniteSet(R) /\ U \cap R = {} /\ NodeNames(n, tmpfs) = U \cup R
      BY <1>2, <1>7, <1>8, <1>11, Zenon
    <2> HIDE DEF R
    <2>2. IsFiniteSet(U \cup R) /\ Cardinality(U \cup R) = Cardinality(U) + Cardinality(R)
      BY <2>1, ApartCount, Zenon
    <2> QED  BY <2>1, <2>2, Zenon DEF R
  <1>13. t \in Nat /\ b \in Nat
    BY <1>3
  <1> HIDE DEF t, b
  <1>14. ASSUME NEW u \in Nat, NEW v \in Nat, NEW p \in Nat
         PROVE  u + (t + (v + (p + b))) = u + t + v + p + b
    BY <1>13
  <1>15. Cardinality(NodeNames(n, tmpfs))
             = Len(Nodes[n].devices) + t + Cardinality(Mounted(n)) + Len(Nodes[n].publish) + b
    <2>1. Cardinality(NodeNames(n, tmpfs))
             = Len(Nodes[n].devices) + (t + (Cardinality(Mounted(n)) + (Len(Nodes[n].publish) + b)))
      BY <1>2, <1>3, <1>4, <1>5, <1>6, <1>9, <1>10, <1>11, <1>12, Zenon
    <2> QED  BY <1>2, <1>4, <1>5, <1>14, <2>1, Zenon
  <1> QED  BY <1>2, <1>3, <1>4, <1>5, <1>12, <1>15, Zenon DEF AskedCount, t, b

\* Those are the names that its devices have.
LEMMA DevicesNamed ==
  ASSUME NEW n \in DOMAIN Nodes, NEW s, NEW d, BaseDevices(n, d)
  PROVE  DOMAIN (Asked(n, s) @@ d) = NodeNames(n, s.tmpfs)
PROOF
  <1>1. /\ DOMAIN UnixDevices(n) = Tagged("docker-device", DOMAIN Nodes[n].devices)
        /\ DOMAIN TmpfsOn(n, s) = Tagged("docker-tmpfs", IF s.tmpfs THEN DOMAIN Nodes[n].tmpfs ELSE {})
        /\ DOMAIN VolumeDevices(n) = Tagged("docker-volume", Mounted(n))
        /\ DOMAIN ProxyDevices(n) = Tagged("docker-proxy", DOMAIN Nodes[n].publish)
    BY Zenon DEF UnixDevices, TmpfsOn, VolumeDevices, ProxyDevices, Tagged, Mounted
  <1>2. DOMAIN d = Tagged("profile", IF IsNode(n) THEN {1} ELSE {})
    BY Zenon DEF BaseDevices, IsProfile, Tagged
  <1>3. DOMAIN (Asked(n, s) @@ d)
            = (DOMAIN UnixDevices(n) \cup (DOMAIN TmpfsOn(n, s) \cup (DOMAIN VolumeDevices(n) \cup DOMAIN ProxyDevices(n))))
              \cup DOMAIN d
    <2>1. ASSUME NEW f, NEW g PROVE DOMAIN (f @@ g) = DOMAIN f \cup DOMAIN g
      BY MapOver, Zenon
    <2> DEFINE vp == VolumeDevices(n) @@ ProxyDevices(n)
               tvp == TmpfsOn(n, s) @@ vp
    <2>2. DOMAIN vp = DOMAIN VolumeDevices(n) \cup DOMAIN ProxyDevices(n)
      BY <2>1, Zenon
    <2> HIDE DEF vp
    <2>3. DOMAIN tvp = DOMAIN TmpfsOn(n, s) \cup DOMAIN vp
      BY <2>1, Zenon
    <2> HIDE DEF tvp
    <2>4. Asked(n, s) = UnixDevices(n) @@ tvp
      BY Zenon DEF Asked, tvp, vp
    <2>5. DOMAIN (UnixDevices(n) @@ tvp) = DOMAIN UnixDevices(n) \cup DOMAIN tvp
      BY <2>1, Zenon
    <2>6. DOMAIN (Asked(n, s) @@ d) = DOMAIN Asked(n, s) \cup DOMAIN d
      BY <2>1, Zenon
    <2> QED  BY <2>2, <2>3, <2>4, <2>5, <2>6, Zenon
  <1>4. ASSUME NEW U, NEW T, NEW V, NEW P, NEW B
        PROVE  (U \cup (T \cup (V \cup P))) \cup B = U \cup (T \cup (V \cup (P \cup B)))
    BY Zenon
  <1> QED  BY <1>1, <1>2, <1>3, <1>4, Zenon DEF NodeNames

PortDevice(p) == Device("proxy", <<p.protocol, p.address, p.host>>, <<p.protocol, Unset, p.node>>)

\* What docker inspect would find among some devices, and what was asked for.
PortsOf(devices) ==
    {<<d.from[2], d.from[3]>> : d \in
        {e \in {devices[k] : k \in DOMAIN devices} :
            e.type = "proxy" /\ e.to = <<"tcp", Unset, "6443">> /\ e.from[1] = "tcp"}}

PortsAsked(n) ==
    {<<p.address, p.host>> : p \in
        {q \in {Nodes[n].publish[k] : k \in DOMAIN Nodes[n].publish} : q.protocol = "tcp" /\ q.node = "6443"}}

\* The parts of the device of a port.
LEMMA PortDeviceParts ==
  ASSUME NEW p
  PROVE  LET e == PortDevice(p) IN
         /\ e.type = "proxy" /\ e.from[2] = p.address /\ e.from[3] = p.host
         /\ e.to = <<"tcp", Unset, "6443">> /\ e.from[1] = "tcp" <=> p.protocol = "tcp" /\ p.node = "6443"
PROOF
  <1> DEFINE e == PortDevice(p)
  <1>1. /\ e.type = "proxy" /\ e.from = <<p.protocol, p.address, p.host>>
        /\ e.to = <<p.protocol, Unset, p.node>>
    BY Zenon DEF PortDevice, Device
  <1> HIDE DEF e
  <1>2. ASSUME NEW x, NEW y, NEW z PROVE <<x, y, z>>[1] = x /\ <<x, y, z>>[2] = y /\ <<x, y, z>>[3] = z
    BY Zenon
  <1>3. e.from[1] = p.protocol /\ e.from[2] = p.address /\ e.from[3] = p.host
    BY <1>1, <1>2
  <1>4. <<p.protocol, Unset, p.node>> = <<"tcp", Unset, "6443">> <=> p.protocol = "tcp" /\ p.node = "6443"
    <2>1. ASSUME <<p.protocol, Unset, p.node>> = <<"tcp", Unset, "6443">> PROVE p.protocol = "tcp" /\ p.node = "6443"
      <3>1. <<p.protocol, Unset, p.node>>[1] = p.protocol /\ <<p.protocol, Unset, p.node>>[3] = p.node
        BY <1>2, Zenon
      <3>2. <<"tcp", Unset, "6443">>[1] = "tcp" /\ <<"tcp", Unset, "6443">>[3] = "6443"
        BY <1>2, Zenon
      <3> QED  BY <2>1, <3>1, <3>2, Zenon
    <2> QED  BY <2>1, Zenon
  <1> QED  BY <1>1, <1>3, <1>4, Zenon DEF e

\* The proxy devices among some devices are those of the ports of a node.
HasPorts(n, D) ==
    /\ \A k \in DOMAIN D : D[k].type = "proxy" =>
          \E j \in DOMAIN Nodes[n].publish : D[k] = PortDevice(Nodes[n].publish[j])
    /\ \A j \in DOMAIN Nodes[n].publish : \E k \in DOMAIN D : D[k] = PortDevice(Nodes[n].publish[j])

\* Then docker inspect finds the ports.
LEMMA PortsFound ==
  ASSUME NEW n, NEW D, HasPorts(n, D)
  PROVE  PortsOf(D) = PortsAsked(n)
PROOF
  <1>1. ASSUME NEW x \in PortsOf(D) PROVE x \in PortsAsked(n)
    <2>1. PICK k \in DOMAIN D : /\ x = <<D[k].from[2], D[k].from[3]>> /\ D[k].type = "proxy"
                                /\ D[k].to = <<"tcp", Unset, "6443">> /\ D[k].from[1] = "tcp"
      <3>1. PICK e \in {D[k] : k \in DOMAIN D} :
               /\ x = <<e.from[2], e.from[3]>> /\ e.type = "proxy"
               /\ e.to = <<"tcp", Unset, "6443">> /\ e.from[1] = "tcp"
        BY <1>1, SMTT(30) DEF PortsOf
      <3>2. PICK k \in DOMAIN D : e = D[k]
        BY <3>1, Zenon
      <3> QED  BY <3>1, <3>2, Zenon
    <2>2. PICK j \in DOMAIN Nodes[n].publish : D[k] = PortDevice(Nodes[n].publish[j])
      BY <2>1, Zenon DEF HasPorts
    <2> DEFINE p == Nodes[n].publish[j]
    <2>3. x = <<p.address, p.host>> /\ p.protocol = "tcp" /\ p.node = "6443"
      <3> DEFINE e == PortDevice(p)
      <3>1. /\ e.from[2] = p.address /\ e.from[3] = p.host
            /\ e.to = <<"tcp", Unset, "6443">> /\ e.from[1] = "tcp" <=> p.protocol = "tcp" /\ p.node = "6443"
        BY PortDeviceParts, Zenon
      <3>2. D[k] = e
        BY <2>2, Zenon
      <3> HIDE DEF e, p
      <3>3. /\ x = <<e.from[2], e.from[3]>>
            /\ e.to = <<"tcp", Unset, "6443">> /\ e.from[1] = "tcp"
        BY <2>1, <3>2, Zenon
      <3> QED  BY <3>1, <3>3, Zenon
    <2> QED  BY <2>3, Zenon DEF PortsAsked
  <1>2. ASSUME NEW x \in PortsAsked(n) PROVE x \in PortsOf(D)
    <2>1. PICK j \in DOMAIN Nodes[n].publish :
             LET p == Nodes[n].publish[j] IN x = <<p.address, p.host>> /\ p.protocol = "tcp" /\ p.node = "6443"
      BY <1>2, SMTT(30) DEF PortsAsked
    <2>2. PICK k \in DOMAIN D : D[k] = PortDevice(Nodes[n].publish[j])
      BY Zenon DEF HasPorts
    <2> DEFINE e == D[k]
               p == Nodes[n].publish[j]
    <2>3. x = <<e.from[2], e.from[3]>> /\ e.type = "proxy" /\ e.to = <<"tcp", Unset, "6443">> /\ e.from[1] = "tcp"
      <3>1. /\ e.type = "proxy" /\ e.from[2] = p.address /\ e.from[3] = p.host
            /\ e.to = <<"tcp", Unset, "6443">> /\ e.from[1] = "tcp" <=> p.protocol = "tcp" /\ p.node = "6443"
        <4>1. e = PortDevice(p)
          BY <2>2, Zenon
        <4> HIDE DEF e, p
        <4> QED  BY <4>1, PortDeviceParts, Zenon
      <3>2. x = <<p.address, p.host>> /\ p.protocol = "tcp" /\ p.node = "6443"
        BY <2>1, Zenon
      <3> HIDE DEF e, p
      <3> QED  BY <3>1, <3>2, Zenon
    <2> QED  BY <2>3, Zenon DEF PortsOf
  <1> QED  BY <1>1, <1>2, Zenon

\* That holds of the devices of a node.
LEMMA NodePorts ==
  ASSUME NEW n \in DOMAIN Nodes, NEW s, NEW d, BaseDevices(n, d)
  PROVE  HasPorts(n, Asked(n, s) @@ d)
PROOF
  <1> DEFINE u == UnixDevices(n)
             t == TmpfsOn(n, s)
             v == VolumeDevices(n)
             p == ProxyDevices(n)
             D == (u @@ (t @@ (v @@ p))) @@ d
             Others == DOMAIN u \cup DOMAIN t \cup DOMAIN v
  <1>1. ASSUME NEW k \in DOMAIN D
        PROVE  D[k] = IF k \in DOMAIN u THEN u[k] ELSE IF k \in DOMAIN t THEN t[k] ELSE IF k \in DOMAIN v THEN v[k]
                      ELSE IF k \in DOMAIN p THEN p[k] ELSE d[k]
    <2> HIDE DEF u, t, v, p
    <2> QED  BY Zenon DEF @@
  <1>2. DOMAIN D = Others \cup DOMAIN p \cup DOMAIN d
    <2> HIDE DEF u, t, v, p
    <2> QED  BY Zenon DEF @@
  <1>3. /\ \A k \in DOMAIN u : u[k].type = "unix-char"
        /\ \A k \in DOMAIN t : t[k].type = "disk"
        /\ \A k \in DOMAIN v : v[k].type = "disk"
    BY Zenon DEF UnixDevices, TmpfsOn, VolumeDevices, Device
  <1>4. \A k \in Others : k[1] # "docker-proxy"
    <2>1. /\ DOMAIN u = Tagged("docker-device", DOMAIN Nodes[n].devices)
          /\ DOMAIN t = Tagged("docker-tmpfs", IF s.tmpfs THEN DOMAIN Nodes[n].tmpfs ELSE {})
          /\ DOMAIN v = Tagged("docker-volume", Mounted(n))
      BY Zenon DEF UnixDevices, TmpfsOn, VolumeDevices, Tagged, Mounted
    <2> HIDE DEF u, t, v
    <2>2. ASSUME NEW k \in Others PROVE k[1] \in {"docker-device", "docker-tmpfs", "docker-volume"}
      BY <2>1, TagOf, Zenon
    <2> QED  BY <2>2, Zenon
  <1>5. ASSUME NEW j \in DOMAIN Nodes[n].publish
        PROVE  LET k == <<"docker-proxy", j>> IN
               k \in DOMAIN p /\ p[k] = PortDevice(Nodes[n].publish[j]) /\ k \notin Others
    <2> DEFINE k == <<"docker-proxy", j>>
    <2>1. k[1] = "docker-proxy" /\ k[2] = j
      BY Zenon
    <2>2. k \in DOMAIN p /\ p[k] = PortDevice(Nodes[n].publish[j])
      <3>1. k \in {<<"docker-proxy", x>> : x \in DOMAIN Nodes[n].publish}
        BY Zenon
      <3> HIDE DEF k
      <3> QED  BY <2>1, <3>1, Zenon DEF ProxyDevices, PortDevice
    <2> HIDE DEF k, Others
    <2>3. k \notin Others
      BY <1>4, <2>1, Zenon
    <2> QED  BY <2>2, <2>3, Zenon DEF k
  <1>6. \A k \in DOMAIN p : \E j \in DOMAIN Nodes[n].publish : k = <<"docker-proxy", j>>
    BY Zenon DEF ProxyDevices
  <1>7. \A k \in DOMAIN d : d[k].type = "profile"
    BY Zenon DEF BaseDevices, IsProfile
  <1> HIDE DEF u, t, v, p, D
  <1>8. ASSUME NEW k \in DOMAIN D, D[k].type = "proxy"
        PROVE  \E j \in DOMAIN Nodes[n].publish : D[k] = PortDevice(Nodes[n].publish[j])
    <2>1. k \notin Others
      BY <1>1, <1>3, <1>8, Zenon
    <2>2. CASE k \in DOMAIN p
      <3>1. PICK j \in DOMAIN Nodes[n].publish : k = <<"docker-proxy", j>>
        BY <1>6, <2>2, Zenon
      <3>2. p[k] = PortDevice(Nodes[n].publish[j])
        BY <1>5, <3>1, Zenon
      <3>3. D[k] = p[k]
        BY <1>1, <2>1, <2>2, Zenon
      <3> QED  BY <3>2, <3>3, Zenon
    <2>3. CASE k \notin DOMAIN p
      BY <1>1, <1>2, <1>7, <1>8, <2>1, <2>3, Zenon
    <2> QED  BY <2>2, <2>3, Zenon
  <1>9. \A j \in DOMAIN Nodes[n].publish : \E k \in DOMAIN D : D[k] = PortDevice(Nodes[n].publish[j])
    BY <1>1, <1>2, <1>5, Zenon
  <1>10. HasPorts(n, D)
    BY <1>8, <1>9, Zenon DEF HasPorts
  <1> QED  BY <1>10, Zenon DEF Asked, u, t, v, p, D

\* The device of the server's socket is one more, and no port.
LEMMA SocketAdded ==
  ASSUME NEW n \in DOMAIN Nodes, NEW s, NEW d, BaseDevices(n, d), NEW name
  PROVE  LET D == Asked(n, s) @@ d
             E == SocketDevice(name) @@ D
         IN  HasPorts(n, E) /\ Cardinality(DOMAIN E) = AskedCount(n, s.tmpfs) + 1
PROOF
  <1> DEFINE D == Asked(n, s) @@ d
             new == <<"00-unix-socket", 1>>
             E == SocketDevice(name) @@ D
  <1>1. HasPorts(n, D) /\ DOMAIN D = NodeNames(n, s.tmpfs)
    BY NodePorts, DevicesNamed, Zenon
  <1>2. new \notin DOMAIN D
    <2>1. new[1] = "00-unix-socket"
      BY Zenon
    <2>2. \A x \in NodeNames(n, s.tmpfs) :
              x[1] \in {"docker-device", "docker-tmpfs", "docker-volume", "docker-proxy", "profile"}
      BY TagOf, Zenon DEF NodeNames
    <2> HIDE DEF new, D
    <2> QED  BY <1>1, <2>1, <2>2, Zenon
  <1>3. /\ DOMAIN SocketDevice(name) = {new} /\ SocketDevice(name)[new].type = "disk"
    BY Zenon DEF SocketDevice, Device, :>
  <1> HIDE DEF D, new
  <1>4. /\ DOMAIN E = {new} \cup DOMAIN D
        /\ \A k \in DOMAIN D : E[k] = D[k]
        /\ E[new].type = "disk"
    BY <1>2, <1>3, Zenon DEF @@
  <1> HIDE DEF E
  <1>5. HasPorts(n, E)
    BY <1>1, <1>4, Zenon DEF HasPorts
  <1>6. Cardinality(DOMAIN E) = AskedCount(n, s.tmpfs) + 1
    <2>1. IsFiniteSet(DOMAIN D) /\ Cardinality(DOMAIN D) = AskedCount(n, s.tmpfs)
      BY <1>1, NamesCounted, Zenon
    <2>2. DOMAIN E = DOMAIN D \cup {new}
      BY <1>4, Zenon
    <2> QED  BY <1>2, <2>1, <2>2, FS_AddElement, Zenon
  <1> QED  BY <1>5, <1>6, Zenon DEF E, D

-----------------------------------------------------------------------------
\* docker inspect finds a node's API server where docker run published it, and no
\* device of a node displaces another one, however many ports, volumes, mounts and
\* devices kind asks for, with and without the server's socket (docker_run.go,
\* docker_inspect.go).
THEOREM EndpointsArePublished == Spec => []EndpointIsPublished
PROOF
  <1>1. ASSUME Inv, NEW n \in DOMAIN insts, insts[n].by \in DOMAIN Nodes
        PROVE  /\ PortsOf(insts[n].devices) = PortsAsked(n)
               /\ Cardinality(DOMAIN insts[n].devices) =
                     Len(Nodes[n].publish) + Len(Nodes[n].devices) + Cardinality(Mounted(n))
                     + (IF server.tmpfs THEN Len(Nodes[n].tmpfs) ELSE 0)
                     + (IF ~IsNode(n) THEN 0 ELSE IF kiniEnv.socket THEN 2 ELSE 1)
    <2>1. NodeRecord(n, insts[n], <<server, kiniEnv>>)
      BY <1>1, OwnerByName, Zenon DEF Inv, InstsInv, Owned
    <2>2. PICK d : /\ BaseDevices(n, d)
                   /\ insts[n].devices = IF IsNode(n) /\ kiniEnv.socket
                                         THEN SocketDevice(server.name) @@ (Asked(n, server) @@ d)
                                         ELSE Asked(n, server) @@ d
      BY <2>1, Zenon DEF NodeRecord, RunDevices
    <2>3. n \in DOMAIN Nodes
      BY <2>1, Zenon DEF NodeRecord
    <2> DEFINE extra == IF IsNode(n) /\ kiniEnv.socket THEN 1 ELSE 0
               a == IF server.tmpfs THEN Len(Nodes[n].tmpfs) ELSE 0
               b == IF IsNode(n) THEN 1 ELSE 0
    <2>4. /\ Cardinality(Mounted(n)) \in Nat /\ Len(Nodes[n].publish) \in Nat
          /\ Len(Nodes[n].tmpfs) \in Nat /\ Len(Nodes[n].devices) \in Nat
      BY <2>3, NamesCounted, Zenon
    <2>5. a \in Nat /\ b \in Nat /\ extra \in Nat
      BY <2>4
    <2>6. HasPorts(n, insts[n].devices) /\ Cardinality(DOMAIN insts[n].devices) = AskedCount(n, server.tmpfs) + extra
      <3>1. CASE IsNode(n) /\ kiniEnv.socket
        <4>1. extra = 1
          BY <3>1, Zenon
        <4>2. insts[n].devices = SocketDevice(server.name) @@ (Asked(n, server) @@ d)
          BY <2>2, <3>1, Zenon
        <4> QED  BY <2>2, <2>3, <4>1, <4>2, SocketAdded, Zenon
      <3>2. CASE ~(IsNode(n) /\ kiniEnv.socket)
        <4>1. HasPorts(n, insts[n].devices) /\ Cardinality(DOMAIN insts[n].devices) = AskedCount(n, server.tmpfs)
          BY <2>2, <2>3, <3>2, NodePorts, DevicesNamed, NamesCounted, Zenon
        <4>2. AskedCount(n, server.tmpfs) = Len(Nodes[n].devices) + a + Cardinality(Mounted(n)) + Len(Nodes[n].publish) + b
          BY Zenon DEF AskedCount
        <4>3. extra = 0
          BY <3>2, Zenon
        <4> DEFINE u == Len(Nodes[n].devices)
                   v == Cardinality(Mounted(n))
                   p == Len(Nodes[n].publish)
        <4>4. u \in Nat /\ v \in Nat /\ p \in Nat
          BY <2>4, Zenon
        <4> HIDE DEF extra, a, b, u, v, p
        <4>5. u + a + v + p + b + 0 = u + a + v + p + b
          BY <2>5, <4>4
        <4>6. AskedCount(n, server.tmpfs) = u + a + v + p + b
          BY <4>2, Zenon DEF u, v, p
        <4> QED  BY <4>1, <4>3, <4>5, <4>6, Zenon
      <3> QED  BY <3>1, <3>2, Zenon
    <2>7. AskedCount(n, server.tmpfs) + extra
            = Len(Nodes[n].publish) + Len(Nodes[n].devices) + Cardinality(Mounted(n)) + a + (extra + b)
      <3>1. AskedCount(n, server.tmpfs) = Len(Nodes[n].devices) + a + Cardinality(Mounted(n)) + Len(Nodes[n].publish) + b
        BY Zenon DEF AskedCount
      <3> HIDE DEF extra, a, b
      <3>2. Len(Nodes[n].devices) + a + Cardinality(Mounted(n)) + Len(Nodes[n].publish) + b + extra
              = Len(Nodes[n].publish) + Len(Nodes[n].devices) + Cardinality(Mounted(n)) + a + (extra + b)
        <4> DEFINE u == Len(Nodes[n].devices)
                   v == Cardinality(Mounted(n))
                   p == Len(Nodes[n].publish)
        <4>1. u \in Nat /\ v \in Nat /\ p \in Nat
          BY <2>4, Zenon
        <4> HIDE DEF u, v, p
        <4>2. u + a + v + p + b + extra = p + u + v + a + (extra + b)
          BY <2>5, <4>1
        <4> QED  BY <4>2, Zenon DEF u, v, p
      <3> QED  BY <3>1, <3>2, Zenon
    <2>8. extra + b = IF ~IsNode(n) THEN 0 ELSE IF kiniEnv.socket THEN 2 ELSE 1
      BY SMT
    <2>9. PortsOf(insts[n].devices) = PortsAsked(n)
      BY <2>6, PortsFound, Zenon
    <2> HIDE DEF extra, b
    <2> QED  BY <2>6, <2>7, <2>8, <2>9, Zenon DEF a
  <1>2. Inv => EndpointIsPublished
    BY <1>1, Zenon DEF EndpointIsPublished, InspectPort, PortsOf, PortsAsked, Mounted
  <1> QED  BY SpecInv, <1>2, PTL
=============================================================================
