------------------------ MODULE ComposeBuilderProofs ------------------------
(***************************************************************************)
(* The addresses handed out by ComposeBuilder are distinct, for any        *)
(* networks, any containers and any number of calls of the builder; and    *)
(* what create_container makes of a ContainerSpec is what was asked for,   *)
(* for any images and any number of setters.                               *)
(***************************************************************************)
EXTENDS ComposeBuilder, ContainerSpec, TLAPS

(* The addresses docker reported are of different containers: what makes   *)
(* OwnAddress inductive.                                                   *)
ExistingApart == ~loadedLate => OneEach(existing)

BuilderInv == BuilderTypeOK /\ ExistingApart /\ OwnAddress

LEMMA AddressKinds ==
  /\ None \notin Ips \cup {Loopback}
  /\ Loopback \notin Ips
<1>1. ASSUME NEW n \in Networks, NEW k \in Numbers
      PROVE  Ip(n, k) # None /\ Ip(n, k) # Loopback
  <2>1. k # 0
    BY BuilderAssumption DEF Numbers, BuilderAssumption
  <2>2. <<n, k>> # <<>>
    OBVIOUS
  <2>3. <<n, k>> = <<"127.0.0.1", 0>> => k = 0
    OBVIOUS
  <2> QED BY <2>1, <2>2, <2>3 DEF Ip, Loopback, None
<1>2. None # Loopback
  BY DEF None, Loopback
<1> QED BY <1>1, <1>2 DEF Ips

(* What a container appended to the sequence changes. *)
LEMMA AppendIs ==
  ASSUME NEW S, NEW s \in Seq(S), NEW e \in S
  PROVE  /\ Append(s, e) \in Seq(S)
         /\ DOMAIN Append(s, e) = DOMAIN s \cup {Len(s) + 1}
         /\ Len(s) + 1 \notin DOMAIN s
         /\ \A i \in DOMAIN s : Append(s, e)[i] = s[i]
         /\ Append(s, e)[Len(s) + 1] = e
<1>1. DOMAIN s = 1..Len(s) /\ Len(s) \in Nat
  OBVIOUS
<1>2. Append(s, e) \in Seq(S) /\ Len(Append(s, e)) = Len(s) + 1
  OBVIOUS
<1>3. DOMAIN Append(s, e) = 1..(Len(s) + 1)
  BY <1>2
<1>4. 1..(Len(s) + 1) = (1..Len(s)) \cup {Len(s) + 1}
  BY <1>1
<1>5. \A i \in 1..Len(s) : Append(s, e)[i] = s[i]
  OBVIOUS
<1>6. Append(s, e)[Len(s) + 1] = e
  OBVIOUS
<1> QED BY <1>1, <1>2, <1>3, <1>4, <1>5, <1>6

LEMMA ElementIs ==
  ASSUME NEW S, NEW s \in Seq(S), NEW i \in DOMAIN s
  PROVE  s[i] \in S
OBVIOUS

(* The builder's state has its types. *)
LEMMA TypeStep == BuilderTypeOK /\ [BuilderNext]_builderVars => BuilderTypeOK'
<1> SUFFICES ASSUME BuilderTypeOK, [BuilderNext]_builderVars PROVE BuilderTypeOK'
  OBVIOUS
<1> USE DEF BuilderTypeOK
<1> DEFINE Entry == [name : Names, ip : Ips \cup {Loopback}]
<1>1. ASSUME NEW n \in Networks, SetNetwork(n) PROVE BuilderTypeOK'
  BY <1>1 DEF SetNetwork
<1>2. CASE SetHostMode
  BY <1>2 DEF SetHostMode
<1>3. ASSUME NEW found \in [Names -> Ips \cup {None}], LoadExistingContainers(found)
      PROVE  BuilderTypeOK'
  <2>1. existing' \in [Names -> Ips \cup {None}]
    BY <1>3 DEF LoadExistingContainers, Loaded
  <2> QED BY <1>3, <2>1 DEF LoadExistingContainers
<1>4. ASSUME NEW c \in Names, AddContainerSpec(c) PROVE BuilderTypeOK'
  <2>1. CASE AddExisting(c)
    <3>1. existing[c] \in Ips
      BY <2>1 DEF AddExisting
    <3>2. [name |-> c, ip |-> existing[c]] \in Entry
      BY <3>1
    <3>3. containers' \in Seq(Entry)
      BY <2>1, <3>2, AppendIs DEF AddExisting
    <3>4. existing' \in [Names -> Ips \cup {None}]
      BY <2>1 DEF AddExisting
    <3> QED BY <2>1, <3>3, <3>4 DEF AddExisting
  <2>2. CASE AddOnHost(c)
    <3>1. containers' \in Seq(Entry)
      BY <2>2, AppendIs DEF AddOnHost
    <3> QED BY <2>2, <3>1 DEF AddOnHost
  <2>3. CASE AddNew(c)
    <3>1. PICK k \in Numbers :
            containers' = Append(containers, [name |-> c, ip |-> Ip(network, k)])
      BY <2>3 DEF AddNew
    <3>2. [name |-> c, ip |-> Ip(network, k)] \in Entry
      BY DEF Ips
    <3>3. containers' \in Seq(Entry)
      BY <3>1, <3>2, AppendIs
    <3> QED BY <2>3, <3>3 DEF AddNew
  <2>4. CASE AddFails(c)
    BY <2>4 DEF AddFails
  <2> QED BY <1>4, <2>1, <2>2, <2>3, <2>4 DEF AddContainerSpec
<1>5. CASE UNCHANGED builderVars
  BY <1>5 DEF builderVars
<1> QED BY <1>1, <1>2, <1>3, <1>4, <1>5 DEF BuilderNext

(* A container appended with an address that no container in reach has, of *)
(* those docker has or those added, keeps the addresses apart.             *)
LEMMA OwnAfterAppend ==
  ASSUME BuilderTypeOK, BuilderTypeOK', OwnAddress,
         NEW e \in [name : Names, ip : Ips \cup {Loopback}],
         containers' = Append(containers, e), loadedLate' = loadedLate,
         \A c \in Names : existing'[c] \in {None, existing[c]},
         e.ip # Loopback =>
           /\ \A j \in DOMAIN containers : containers[j].ip # e.ip
           /\ \A c \in Names : existing'[c] # e.ip
  PROVE  OwnAddress'
<1> DEFINE Entry == [name : Names, ip : Ips \cup {Loopback}]
<1> DEFINE n == Len(containers) + 1
<1>1. containers \in Seq(Entry)
  BY DEF BuilderTypeOK
<1>2. /\ DOMAIN containers' = DOMAIN containers \cup {n}
      /\ n \notin DOMAIN containers
      /\ \A i \in DOMAIN containers : containers'[i] = containers[i]
      /\ containers'[n] = e
  BY <1>1, AppendIs
<1>3. \A i \in DOMAIN containers : containers[i].ip \in Ips \cup {Loopback}
  <2>1. \A i \in DOMAIN containers : containers[i] \in Entry
    <3> HIDE DEF Entry
    <3> QED BY <1>1, ElementIs
  <2> QED BY <2>1
<1> SUFFICES ASSUME ~loadedLate',
                    NEW i \in DOMAIN containers', containers'[i].ip # Loopback
             PROVE  /\ \A j \in DOMAIN containers' :
                         containers'[j].ip = containers'[i].ip => i = j
                    /\ \A c \in Names : existing'[c] # containers'[i].ip
  BY DEF OwnAddress
<1>4. CASE i = n
  BY <1>2, <1>4
<1>5. CASE i \in DOMAIN containers
  <2>1. /\ \A j \in DOMAIN containers : containers[j].ip = containers[i].ip => i = j
        /\ \A c \in Names : existing[c] # containers[i].ip
    BY <1>2, <1>5 DEF OwnAddress
  <2>2. containers[i].ip # None
    BY <1>3, <1>5, AddressKinds
  <2>3. \A c \in Names : existing'[c] # containers'[i].ip
    BY <2>1, <2>2, <1>2, <1>5
  <2>4. e.ip # containers[i].ip
    BY <1>2, <1>5
  <2> QED BY <1>2, <1>5, <2>1, <2>3, <2>4
<1> QED BY <1>2, <1>4, <1>5

LEMMA ControlStep == BuilderInv /\ [BuilderNext]_builderVars => (ExistingApart /\ OwnAddress)'
<1> SUFFICES ASSUME BuilderInv, [BuilderNext]_builderVars PROVE (ExistingApart /\ OwnAddress)'
  OBVIOUS
<1>0. BuilderTypeOK /\ BuilderTypeOK' /\ ExistingApart /\ OwnAddress
  BY TypeStep DEF BuilderInv
<1>1. ASSUME NEW n \in Networks, SetNetwork(n) PROVE (ExistingApart /\ OwnAddress)'
  BY <1>0, <1>1 DEF SetNetwork, ExistingApart, OwnAddress, OneEach
<1>2. CASE SetHostMode
  BY <1>0, <1>2 DEF SetHostMode, ExistingApart, OwnAddress, OneEach
<1>3. ASSUME NEW found \in [Names -> Ips \cup {None}], LoadExistingContainers(found)
      PROVE  (ExistingApart /\ OwnAddress)'
  <2> SUFFICES ASSUME ~loadedLate' PROVE (ExistingApart /\ OwnAddress)'
    BY DEF ExistingApart, OwnAddress
  <2>1. containers = <<>> /\ \A c \in Names : existing[c] = None
    BY <1>3 DEF LoadExistingContainers
  <2>2. \A c \in Names : existing'[c] = found[c]
    BY <1>3, <2>1 DEF LoadExistingContainers, Loaded
  <2>3. OneEach(existing')
    BY <1>3, <2>2 DEF LoadExistingContainers, OneEach
  <2>4. containers' = <<>>
    BY <1>3, <2>1 DEF LoadExistingContainers
  <2> QED BY <2>3, <2>4 DEF ExistingApart, OwnAddress, OneEach
<1>4. ASSUME NEW c \in Names, AddContainerSpec(c)
      PROVE  (ExistingApart /\ OwnAddress)'
  <2>1. CASE AddExisting(c)
    <3>1. \A d \in Names : existing'[d] = IF d = c THEN None ELSE existing[d]
      BY <1>0, <2>1 DEF AddExisting, BuilderTypeOK
    <3>2. existing[c] \in Ips /\ existing[c] # None
      BY <1>0, <2>1 DEF AddExisting, BuilderTypeOK
    <3>3. ExistingApart'
      BY <1>0, <2>1, <3>1 DEF AddExisting, ExistingApart, OneEach
    <3> DEFINE e == [name |-> c, ip |-> existing[c]]
    <3>4. e \in [name : Names, ip : Ips \cup {Loopback}] /\ e.ip = existing[c]
      BY <3>2
    <3>5. CASE loadedLate
      BY <3>3, <3>5, <2>1 DEF AddExisting, OwnAddress
    <3>6. CASE ~loadedLate
      <4>1. \A j \in DOMAIN containers :
              containers[j].ip # Loopback => existing[c] # containers[j].ip
        BY <1>0, <3>6 DEF OwnAddress
      <4>2. \A j \in DOMAIN containers : containers[j].ip # e.ip
        BY <3>2, <3>4, <4>1, AddressKinds
      <4>3. \A d \in Names : existing'[d] # e.ip
        BY <1>0, <3>1, <3>2, <3>4, <3>6, AddressKinds DEF ExistingApart, OneEach
      <4>4. containers' = Append(containers, e) /\ loadedLate' = loadedLate
        BY <2>1 DEF AddExisting
      <4>5. \A d \in Names : existing'[d] \in {None, existing[d]}
        BY <3>1
      <4> HIDE DEF e
      <4> QED BY <1>0, <3>3, <3>4, <4>2, <4>3, <4>4, <4>5, OwnAfterAppend
    <3> QED BY <3>5, <3>6
  <2>2. CASE AddOnHost(c)
    <3> DEFINE e == [name |-> c, ip |-> Loopback]
    <3>1. e \in [name : Names, ip : Ips \cup {Loopback}] /\ e.ip = Loopback
      OBVIOUS
    <3>2. containers' = Append(containers, e) /\ loadedLate' = loadedLate
          /\ existing' = existing
      BY <2>2 DEF AddOnHost
    <3>3. ExistingApart'
      BY <1>0, <3>2 DEF ExistingApart, OneEach
    <3> HIDE DEF e
    <3> QED BY <1>0, <3>1, <3>2, <3>3, OwnAfterAppend
  <2>3. CASE AddNew(c)
    <3>1. PICK k \in Numbers :
            /\ IsNextIp(k)
            /\ containers' = Append(containers, [name |-> c, ip |-> Ip(network, k)])
      BY <2>3 DEF AddNew
    <3> DEFINE e == [name |-> c, ip |-> Ip(network, k)]
    <3>2. e \in [name : Names, ip : Ips \cup {Loopback}] /\ e.ip = Ip(network, k)
      BY <1>0 DEF BuilderTypeOK, Ips
    <3>3. /\ \A j \in DOMAIN containers : containers[j].ip # e.ip
          /\ \A d \in Names : existing[d] # e.ip
      BY <3>1, <3>2 DEF IsNextIp, Available, Unused
    <3>4. existing' = existing /\ loadedLate' = loadedLate
      BY <2>3 DEF AddNew
    <3>5. ExistingApart'
      BY <1>0, <3>4 DEF ExistingApart, OneEach
    <3>6. containers' = Append(containers, e)
      BY <3>1
    <3> HIDE DEF e
    <3> QED BY <1>0, <3>2, <3>3, <3>4, <3>5, <3>6, OwnAfterAppend
  <2>4. CASE AddFails(c)
    BY <1>0, <2>4 DEF AddFails, ExistingApart, OwnAddress, OneEach
  <2> QED BY <1>4, <2>1, <2>2, <2>3, <2>4 DEF AddContainerSpec
<1>5. CASE UNCHANGED builderVars
  BY <1>0, <1>5 DEF builderVars, ExistingApart, OwnAddress, OneEach
<1> QED BY <1>1, <1>2, <1>3, <1>4, <1>5 DEF BuilderNext

(* The invariant holds in every state of the builder. *)
THEOREM BuilderInvariant == BuilderSpec => []BuilderInv
<1>1. BuilderInit => BuilderInv
  <2> SUFFICES ASSUME BuilderInit PROVE BuilderInv
    OBVIOUS
  <2>1. BuilderTypeOK
    <3>1. containers \in Seq([name : Names, ip : Ips \cup {Loopback}])
      BY DEF BuilderInit
    <3>2. existing \in [Names -> Ips \cup {None}]
      BY DEF BuilderInit
    <3> QED BY <3>1, <3>2 DEF BuilderInit, BuilderTypeOK
  <2>2. ExistingApart
    BY DEF BuilderInit, ExistingApart, OneEach
  <2>3. OwnAddress
    BY DEF BuilderInit, OwnAddress
  <2> QED BY <2>1, <2>2, <2>3 DEF BuilderInv
<1>2. BuilderInv /\ [BuilderNext]_builderVars => BuilderInv'
  BY TypeStep, ControlStep DEF BuilderInv
<1> QED BY <1>1, <1>2, PTL DEF BuilderSpec

(* Builder::next_ip and add_container_spec never configure two containers  *)
(* with one address, nor one with an address that docker has given away,   *)
(* if the existing containers are loaded once and first.                   *)
THEOREM AddressesDistinct == BuilderSpec => [](BuilderTypeOK /\ OwnAddress)
<1>1. BuilderInv => BuilderTypeOK /\ OwnAddress
  BY DEF BuilderInv
<1> QED BY <1>1, BuilderInvariant, PTL

(* add_container_spec gives a container that docker has the address docker *)
(* reported, and no other call of the builder drops such an address.       *)
THEOREM AddressesKept == BuilderSpec => AddressKept
<1> DEFINE Kept == \A c \in Names : existing[c] # None /\ existing'[c] = None =>
                    \E i \in DOMAIN containers' :
                      containers'[i] = [name |-> c, ip |-> existing[c]]
<1>1. ASSUME BuilderInv, [BuilderNext]_builderVars PROVE Kept
  <2> SUFFICES ASSUME NEW c \in Names, existing[c] # None, existing'[c] = None
               PROVE  \E i \in DOMAIN containers' :
                        containers'[i] = [name |-> c, ip |-> existing[c]]
    OBVIOUS
  <2>0. BuilderTypeOK
    BY <1>1 DEF BuilderInv
  <2>1. ASSUME NEW n \in Networks, SetNetwork(n) PROVE FALSE
    BY <2>1 DEF SetNetwork
  <2>2. CASE SetHostMode
    BY <2>2 DEF SetHostMode
  <2>3. ASSUME NEW found \in [Names -> Ips \cup {None}], LoadExistingContainers(found)
        PROVE  FALSE
    BY <2>3 DEF LoadExistingContainers, Loaded
  <2>4. ASSUME NEW d \in Names, AddContainerSpec(d)
        PROVE  \E i \in DOMAIN containers' :
                 containers'[i] = [name |-> c, ip |-> existing[c]]
    <3>1. CASE AddExisting(d)
      <4> DEFINE e == [name |-> d, ip |-> existing[d]]
      <4>1. d = c
        BY <2>0, <3>1 DEF AddExisting, BuilderTypeOK
      <4>2. e \in [name : Names, ip : Ips \cup {Loopback}]
        BY <2>0, <4>1 DEF BuilderTypeOK
      <4>3. containers' = Append(containers, e)
        BY <3>1 DEF AddExisting
      <4>4. containers \in Seq([name : Names, ip : Ips \cup {Loopback}])
        BY <2>0 DEF BuilderTypeOK
      <4>5. /\ Len(containers) + 1 \in DOMAIN containers'
            /\ containers'[Len(containers) + 1] = e
        <5> HIDE DEF e
        <5> QED BY <4>2, <4>3, <4>4, AppendIs
      <4> QED BY <4>1, <4>5
    <3>2. CASE AddOnHost(d)
      BY <3>2 DEF AddOnHost
    <3>3. CASE AddNew(d)
      BY <3>3 DEF AddNew
    <3>4. CASE AddFails(d)
      BY <3>4 DEF AddFails
    <3> QED BY <2>4, <3>1, <3>2, <3>3, <3>4 DEF AddContainerSpec
  <2>5. CASE UNCHANGED builderVars
    BY <2>5 DEF builderVars
  <2> QED BY <1>1, <2>1, <2>2, <2>3, <2>4, <2>5 DEF BuilderNext
<1>2. BuilderInv /\ [BuilderNext]_builderVars => [Kept]_builderVars
  BY <1>1
<1> QED BY <1>2, BuilderInvariant, PTL DEF BuilderSpec, AddressKept

(* The unwrap of next_ip's error in add_container_spec fails only when     *)
(* every number of the network that next_ip may use is taken.              *)
THEOREM BuilderSound == BuilderSpec => []BuilderIsSound
<1>1. BuilderInit => PanicsOnlyWhenFull
  BY DEF BuilderInit, PanicsOnlyWhenFull
<1>2. BuilderTypeOK /\ PanicsOnlyWhenFull /\ [BuilderNext]_builderVars => PanicsOnlyWhenFull'
  <2> SUFFICES ASSUME BuilderTypeOK, PanicsOnlyWhenFull, [BuilderNext]_builderVars
               PROVE  PanicsOnlyWhenFull'
    OBVIOUS
  <2>1. CASE \E c \in Names : AddFails(c)
    <3>1. UNCHANGED <<network, existing, containers>>
      BY <2>1 DEF AddFails
    <3>2. \A k \in Numbers : k < Size[network] => Taken(k)
      BY <2>1 DEF AddFails, Available, Unused, Taken
    <3>3. \A k \in Numbers : k < Size[network]' => Taken(k)'
      BY <3>1, <3>2 DEF Taken
    <3> QED BY <3>3 DEF PanicsOnlyWhenFull
  <2>2. CASE ~panicked /\ panicked' = panicked
    BY <2>2 DEF PanicsOnlyWhenFull
  <2>3. CASE UNCHANGED builderVars
    BY <2>3 DEF builderVars, PanicsOnlyWhenFull, Taken
  <2>4. \/ \E c \in Names : AddFails(c)
        \/ ~panicked /\ panicked' = panicked
        \/ UNCHANGED builderVars
    BY DEF BuilderNext, SetNetwork, SetHostMode, LoadExistingContainers,
           AddContainerSpec, AddExisting, AddOnHost, AddNew
  <2> QED BY <2>1, <2>2, <2>3, <2>4
<1>3. BuilderTypeOK /\ PanicsOnlyWhenFull => BuilderIsSound
  BY DEF BuilderIsSound
<1>4. BuilderInv => BuilderTypeOK
  BY DEF BuilderInv
<1> QED BY <1>1, <1>2, <1>3, <1>4, BuilderInvariant, PTL DEF BuilderSpec

-----------------------------------------------------------------------------
(* What create_container makes of a specification, for any number of setters *)
(* and any images.                                                           *)

OwnWords == {"arg", "binary", "--nats", "nats.network:4222", "own_command",
             "own_entrypoint", "/sbin/tini", "--"}
Words == OwnWords \cup {"image_command", "image_entrypoint"}

SpecFields == DOMAIN FromBinary

SpecTypeOK ==
  /\ DOMAIN spec = SpecFields
  /\ spec.binary \in BOOLEAN /\ spec.nats \in BOOLEAN
  /\ spec.image \in {NoImage, OwnImage}
  /\ spec.policy \in {"IfNotPresent", "Always"}
  /\ spec.command \in {<<>>, <<"own_command">>}
  /\ spec.entrypoint \in {<<>>, <<"own_entrypoint">>}
  /\ spec.arguments \in Seq({"arg"})
  /\ builder.image \in {NoImage, BaseImage} /\ builder.tini \in BOOLEAN
  /\ config \in ImageConfigs
  /\ present \subseteq {BaseImage, OwnImage}
  /\ step \in {"build", "pull", "inspect", "created", "panicked"}

(* What was pulled is there, if nobody has removed it.                       *)
PulledInv ==
  /\ step = "inspect" /\ spec.image # NoImage => trouble \/ spec.image \in present
  /\ PanicHasReason

(* The container is that of the specification, merged with the image.        *)
Wanted ==
  IF ImageOf(spec) = NoImage
  THEN ContainerOf(spec, [cmd |-> Commands(spec), entrypoint |-> Entrypoint(spec)],
                   spec.port_map)
  ELSE ContainerOf(spec, Merged(spec), BoundPorts(spec))

CreatedInv == step = "created" => container = Wanted

SpecInv == SpecTypeOK /\ PulledInv /\ CreatedInv

-----------------------------------------------------------------------------
LEMMA FieldSet ==
  ASSUME NEW s, NEW f \in DOMAIN s, NEW v
  PROVE  LET t == [s EXCEPT ![f] = v]
         IN /\ DOMAIN t = DOMAIN s /\ t[f] = v
            /\ \A g \in DOMAIN s \ {f} : t[g] = s[g]
  OBVIOUS

LEMMA Fields ==
  /\ SpecFields = {"binary", "image", "command", "arguments", "nats", "entrypoint",
                   "env", "port_map", "bypass", "policy"}
  /\ DOMAIN FromImage = SpecFields
  /\ FromImage.binary = FALSE /\ FromImage.image = OwnImage /\ FromImage.nats = FALSE
  /\ FromImage.command = <<>> /\ FromImage.arguments = <<>>
  /\ FromImage.entrypoint = <<>> /\ FromImage.policy = "IfNotPresent"
  BY DEF SpecFields, FromBinary, FromImage

LEMMA ConcatIndex ==
  ASSUME NEW a \in Seq(Words), NEW b \in Seq(Words)
  PROVE  /\ a \o b \in Seq(Words) /\ Len(a \o b) = Len(a) + Len(b)
         /\ Len(a) \in Nat /\ Len(b) \in Nat
         /\ \A i \in 1..Len(a) : (a \o b)[i] = a[i]
         /\ \A i \in 1..Len(b) : (a \o b)[Len(a) + i] = b[i]
  OBVIOUS

LEMMA ConcatPrefix ==
  ASSUME NEW a \in Seq(Words), NEW b \in Seq(Words)
  PROVE  IsPrefix(a, a \o b)
  <1>1. SubSeq(a, 1, Len(a)) = SubSeq(a \o b, 1, Len(a))
    BY ConcatIndex
  <1> QED BY <1>1, ConcatIndex DEF IsPrefix

LEMMA ConcatSuffix ==
  ASSUME NEW a \in Seq(Words), NEW b \in Seq(Words)
  PROVE  IsSuffix(b, a \o b)
  <1> DEFINE t == a \o b
             rb == Reverse(b)
             rt == Reverse(t)
  <1>1. /\ t \in Seq(Words) /\ Len(t) = Len(a) + Len(b)
        /\ Len(a) \in Nat /\ Len(b) \in Nat
        /\ \A i \in 1..Len(b) : t[Len(a) + i] = b[i]
    BY ConcatIndex
  <1> HIDE DEF t
  <1>2. /\ rb = [i \in 1..Len(b) |-> b[(Len(b) - i) + 1]]
        /\ rt = [i \in 1..Len(t) |-> t[(Len(t) - i) + 1]]
    BY DEF Reverse
  <1>3. rb \in Seq(Words) /\ Len(rb) = Len(b)
    BY <1>1, <1>2
  <1>4. rt \in Seq(Words) /\ Len(rt) = Len(t)
    BY <1>1, <1>2
  <1>5. ASSUME NEW i \in 1..Len(b)
        PROVE  rb[i] = rt[i]
    <2>1. /\ (Len(b) - i) + 1 \in 1..Len(b) /\ i \in 1..Len(t)
          /\ (Len(t) - i) + 1 = Len(a) + ((Len(b) - i) + 1)
      BY <1>1
    <2> QED BY <1>1, <1>2, <2>1
  <1> HIDE DEF rb, rt
  <1>6. SubSeq(rb, 1, Len(rb)) = SubSeq(rt, 1, Len(rb))
    BY <1>1, <1>3, <1>4, <1>5
  <1>7. IsPrefix(rb, rt)
    BY <1>1, <1>3, <1>4, <1>6 DEF IsPrefix
  <1> QED BY <1>7 DEF IsSuffix, rb, rt, t

LEMMA ConcatEmpty ==
  ASSUME NEW a \in Seq(Words)
  PROVE  <<>> \o a = a /\ a \o <<>> = a /\ <<>> \in Seq(Words) /\ IsSuffix(a, a)
  <1>1. <<>> \o a = a /\ a \o <<>> = a /\ <<>> \in Seq(Words)
    OBVIOUS
  <1> QED BY <1>1, ConcatSuffix

LEMMA ConcatContains ==
  ASSUME NEW a \in Seq(Words), NEW b \in Seq(Words), NEW w,
         Contains(a \o b, w)
  PROVE  Contains(a, w) \/ Contains(b, w)
  <1>1. PICK i \in 1..(Len(a) + Len(b)) : (a \o b)[i] = w
    BY ConcatIndex DEF Contains
  <1>2. CASE i <= Len(a)
    BY <1>1, <1>2, ConcatIndex DEF Contains
  <1>3. CASE i > Len(a)
    <2>1. i - Len(a) \in 1..Len(b) /\ i = Len(a) + (i - Len(a))
      BY <1>1, <1>3
    <2>2. b[i - Len(a)] = w
      BY <1>1, <2>1, ConcatIndex
    <2> QED BY <2>1, <2>2 DEF Contains
  <1> QED BY <1>2, <1>3

-----------------------------------------------------------------------------
(* The words of what is executed.                                            *)

LEMMA WordsOf ==
  ASSUME SpecTypeOK
  PROVE  /\ Commands(spec) \in Seq(Words) /\ ~Contains(Commands(spec), "image_command")
         /\ Entrypoint(spec) \in Seq(Words)
         /\ ~Contains(Entrypoint(spec), "image_command")
         /\ spec.entrypoint # <<>> => Entrypoint(spec) = spec.entrypoint
         /\ Contains(Entrypoint(spec), "/sbin/tini") => Tini(spec)
         /\ config.cmd \in Seq(Words) /\ config.entrypoint \in Seq(Words)
         /\ ~Contains(config.entrypoint, "image_command")
         /\ ~Contains(config.entrypoint, "/sbin/tini")
  <1> USE DEF SpecTypeOK
  <1>1. /\ OwnCommand(spec) \in Seq(Words)
        /\ ~Contains(OwnCommand(spec), "image_command")
    <2>1. CASE spec.binary
      <3> DEFINE a == <<"binary">>
                 b == IF spec.nats THEN <<"--nats", "nats.network:4222">> ELSE <<>>
      <3>1. a \in Seq(Words) /\ ~Contains(a, "image_command")
        BY DEF Words, OwnWords, Contains
      <3>2. b \in Seq(Words) /\ ~Contains(b, "image_command")
        <4>1. CASE spec.nats
          BY <4>1 DEF Words, OwnWords, Contains
        <4>2. CASE ~spec.nats
          BY <4>2 DEF Contains
        <4> QED BY <4>1, <4>2
      <3>3. OwnCommand(spec) = a \o b
        BY <2>1 DEF OwnCommand
      <3> HIDE DEF a, b
      <3> QED BY <3>1, <3>2, <3>3, ConcatIndex, ConcatContains
    <2>2. CASE ~spec.binary /\ spec.command = <<>>
      <3>1. OwnCommand(spec) = <<>>
        BY <2>2 DEF OwnCommand
      <3> QED BY <3>1 DEF Contains
    <2>3. CASE ~spec.binary /\ spec.command = <<"own_command">>
      <3>1. OwnCommand(spec) = <<"own_command">>
        BY <2>3 DEF OwnCommand
      <3> QED BY <3>1 DEF Words, OwnWords, Contains
    <2> QED BY <2>1, <2>2, <2>3
  <1>2. /\ spec.arguments \in Seq(Words)
        /\ ~Contains(spec.arguments, "image_command")
    BY DEF Words, OwnWords, Contains
  <1>3. /\ Commands(spec) \in Seq(Words)
        /\ ~Contains(Commands(spec), "image_command")
    BY <1>1, <1>2, ConcatIndex, ConcatContains DEF Commands
  <1>4. Entrypoint(spec) \in {<<>>, <<"own_entrypoint">>, <<"/sbin/tini", "--">>}
    BY DEF Entrypoint
  <1>5. /\ Entrypoint(spec) \in Seq(Words)
        /\ ~Contains(Entrypoint(spec), "image_command")
    <2>1. CASE Entrypoint(spec) = <<>>
      BY <2>1 DEF Contains
    <2>2. CASE Entrypoint(spec) = <<"own_entrypoint">>
      BY <2>2 DEF Words, OwnWords, Contains
    <2>3. CASE Entrypoint(spec) = <<"/sbin/tini", "--">>
      BY <2>3 DEF Words, OwnWords, Contains
    <2> QED BY <1>4, <2>1, <2>2, <2>3
  <1>6. Contains(Entrypoint(spec), "/sbin/tini") => Tini(spec)
    <2>1. ASSUME ~Tini(spec)
          PROVE  ~Contains(Entrypoint(spec), "/sbin/tini")
      <3>1. Entrypoint(spec) \in {<<>>, <<"own_entrypoint">>}
        BY <2>1 DEF Entrypoint
      <3> QED BY <3>1 DEF Contains
    <2> QED BY <2>1
  <1>7. /\ config.cmd \in {<<>>, <<"image_command">>}
        /\ config.entrypoint \in {<<>>, <<"image_entrypoint">>}
    BY SpecAssumption DEF SpecAssumption
  <1>8. /\ config.cmd \in Seq(Words) /\ config.entrypoint \in Seq(Words)
        /\ ~Contains(config.entrypoint, "image_command")
        /\ ~Contains(config.entrypoint, "/sbin/tini")
    <2>1. config.cmd \in Seq(Words)
      <3>1. CASE config.cmd = <<>>
        BY <3>1
      <3>2. CASE config.cmd = <<"image_command">>
        BY <3>2 DEF Words
      <3> QED BY <1>7, <3>1, <3>2
    <2>2. CASE config.entrypoint = <<>>
      BY <2>1, <2>2 DEF Contains
    <2>3. CASE config.entrypoint = <<"image_entrypoint">>
      BY <2>1, <2>3 DEF Words, Contains
    <2> QED BY <1>7, <2>2, <2>3
  <1>9. spec.entrypoint # <<>> => Entrypoint(spec) = spec.entrypoint
    BY DEF Entrypoint
  <1> QED BY <1>3, <1>5, <1>6, <1>8, <1>9

(* The command with which the container is created, behind that of the image *)
(* if the specification has none.                                            *)
LEMMA MergedCmdIs ==
  ASSUME SpecTypeOK
  PROVE  /\ MergedCmd(spec) \in Seq(Words)
         /\ HasCommand(spec) => MergedCmd(spec) = Commands(spec)
         /\ ~HasCommand(spec) => MergedCmd(spec) = config.cmd \o Commands(spec)
         /\ \E before \in Seq(Words) : MergedCmd(spec) = before \o Commands(spec)
  <1>1. Commands(spec) \in Seq(Words) /\ config.cmd \in Seq(Words)
    BY WordsOf
  <1>2. CASE MergedCmd(spec) = Commands(spec) /\ (HasCommand(spec) \/ config.cmd = <<>>)
    BY <1>1, <1>2, ConcatEmpty
  <1>3. CASE MergedCmd(spec) = config.cmd \o Commands(spec) /\ ~HasCommand(spec)
    BY <1>1, <1>3, ConcatIndex
  <1> QED BY <1>2, <1>3 DEF MergedCmd

LEMMA ArgvIs ==
  ASSUME SpecTypeOK, CreatedInv, Created
  PROVE  /\ UserCommandRuns /\ ImageCommandRuns /\ TiniIsBound
  <1> DEFINE own == Entrypoint(spec)
             cmds == Commands(spec)
             ep == config.entrypoint
             cc == config.cmd
             mc == MergedCmd(spec)
  <1>1. /\ own \in Seq(Words) /\ cmds \in Seq(Words) /\ ep \in Seq(Words)
        /\ cc \in Seq(Words) /\ mc \in Seq(Words)
        /\ ~Contains(own, "image_command") /\ ~Contains(cmds, "image_command")
        /\ ~Contains(ep, "image_command") /\ ~Contains(ep, "/sbin/tini")
        /\ HasCommand(spec) => mc = cmds
        /\ ~HasCommand(spec) => mc = cc \o cmds
        /\ spec.entrypoint # <<>> => own = spec.entrypoint
    BY WordsOf, MergedCmdIs
  <1>2. PICK before \in Seq(Words) : mc = before \o cmds
    BY MergedCmdIs
  <1>3. /\ container.env = spec.env
        /\ container.tini = (spec.binary /\ ImageOf(spec) # NoImage /\ builder.tini)
    BY DEF CreatedInv, Wanted, Created, ContainerOf
  <1>4. \/ /\ ImageOf(spec) = NoImage
           /\ container.entrypoint = own /\ container.cmd = cmds
        \/ /\ ep # <<>> /\ own = <<>>
           /\ container.entrypoint = ep /\ container.cmd = mc
        \/ /\ own # <<>> /\ ~HasCommand(spec)
           /\ container.entrypoint = own /\ container.cmd = ep \o mc
        \/ /\ HasCommand(spec) \/ (own = <<>> /\ ep = <<>>)
           /\ container.entrypoint = own /\ container.cmd = mc
    <2>1. CASE ImageOf(spec) = NoImage
      BY <2>1 DEF CreatedInv, Wanted, Created, ContainerOf
    <2>2. CASE ImageOf(spec) # NoImage
      <3>1. /\ container.entrypoint = Merged(spec).entrypoint
            /\ container.cmd = Merged(spec).cmd
        BY <2>2 DEF CreatedInv, Wanted, Created, ContainerOf
      <3>2. CASE ep # <<>> /\ own = <<>>
        BY <3>1, <3>2 DEF Merged
      <3>3. CASE own # <<>> /\ ~HasCommand(spec)
        BY <3>1, <3>3 DEF Merged
      <3>4. CASE ~(ep # <<>> /\ own = <<>>) /\ ~(own # <<>> /\ ~HasCommand(spec))
        BY <3>1, <3>4 DEF Merged
      <3> QED BY <3>2, <3>3, <3>4
    <2> QED BY <2>1, <2>2
  <1> HIDE DEF own, cmds, ep, cc, mc
  <1>5. \E b \in Seq(Words) : Argv = b \o cmds
    <2>1. CASE Argv = own \o cmds
      BY <1>1, <2>1
    <2>2. ASSUME NEW e \in Seq(Words), Argv = e \o mc
          PROVE  \E b \in Seq(Words) : Argv = b \o cmds
      <3>1. Argv = (e \o before) \o cmds /\ e \o before \in Seq(Words)
        <4>1. (e \o before) \o cmds = e \o (before \o cmds)
          BY <1>1
        <4>2. e \o before \in Seq(Words)
          OBVIOUS
        <4> QED BY <1>2, <2>2, <4>1, <4>2
      <3> QED BY <3>1
    <2>3. CASE Argv = own \o (ep \o mc)
      <3>1. Argv = (own \o ep) \o mc /\ own \o ep \in Seq(Words)
        <4>1. (own \o ep) \o mc = own \o (ep \o mc)
          BY <1>1
        <4>2. own \o ep \in Seq(Words)
          BY <1>1
        <4> QED BY <2>3, <4>1, <4>2
      <3> QED BY <2>2, <3>1
    <2> QED BY <1>1, <1>4, <2>1, <2>2, <2>3 DEF Argv
  <1>6. IsSuffix(cmds, Argv)
    BY <1>1, <1>5, ConcatSuffix
  <1>7. ASSUME spec.entrypoint # <<>>
        PROVE  IsPrefix(spec.entrypoint, Argv)
    <2>1. own = spec.entrypoint /\ own # <<>>
      BY <1>1, <1>7
    <2>2. \E c \in Seq(Words) : Argv = own \o c
      <3>1. ep \o mc \in Seq(Words)
        BY <1>1, ConcatIndex
      <3> QED BY <1>1, <1>4, <2>1, <3>1 DEF Argv
    <2> QED BY <1>1, <2>1, <2>2, ConcatPrefix
  <1>8. ASSUME HasCommand(spec)
        PROVE  ~Contains(Argv, "image_command")
    <2>1. mc = cmds
      BY <1>1, <1>8
    <2>2. Argv = own \o cmds \/ Argv = ep \o cmds
      BY <1>4, <1>8, <2>1 DEF Argv
    <2>3. CASE Argv = own \o cmds
      BY <1>1, <2>3, ConcatContains
    <2>4. CASE Argv = ep \o cmds
      BY <1>1, <2>4, ConcatContains
    <2> QED BY <2>2, <2>3, <2>4
  <1>9. ASSUME ImageOf(spec) # NoImage, ~HasCommand(spec)
        PROVE  IsSuffix(ep \o cc \o cmds, Argv)
    <2> DEFINE all == ep \o mc
    <2>1. all = ep \o cc \o cmds /\ all \in Seq(Words)
      <3>1. (ep \o cc) \o cmds = ep \o (cc \o cmds)
        BY <1>1, SMTT(20)
      <3>2. ep \o mc \in Seq(Words)
        BY <1>1
      <3> QED BY <1>1, <1>9, <3>1, <3>2
    <2>2. \/ Argv = all
          \/ Argv = own \o all
          \/ Argv = own \o mc /\ own = <<>> /\ ep = <<>>
      BY <1>4, <1>9 DEF Argv
    <2>3. own = <<>> /\ ep = <<>> => own \o mc = all
      OBVIOUS
    <2> HIDE DEF all
    <2> QED BY <1>1, <2>1, <2>2, <2>3, ConcatSuffix, ConcatEmpty
  <1>10. ASSUME Contains(container.entrypoint, "/sbin/tini"), builder.tini
         PROVE  container.tini
    <2>1. container.entrypoint = own
      BY <1>1, <1>4, <1>10
    <2>2. Tini(spec)
      BY <1>10, <2>1, WordsOf DEF own
    <2>3. ImageOf(spec) # NoImage
      BY <2>2 DEF Tini, ImageOf
    <2> QED BY <1>3, <1>10, <2>2, <2>3 DEF Tini
  <1>11. UserCommandRuns
    BY <1>6, <1>7, <1>8 DEF UserCommandRuns, cmds
  <1>12. ImageCommandRuns
    BY <1>9 DEF ImageCommandRuns, cmds, ep, cc
  <1>13. TiniIsBound
    BY <1>10 DEF TiniIsBound
  <1> QED BY <1>11, <1>12, <1>13

(* What the variables are in the container.                                  *)
LEMMA EnvironmentIs ==
  ASSUME SpecTypeOK, CreatedInv, Created
  PROVE  EnvironmentIsMerged
  <1>1. /\ container.env2 = Append(Pushed(spec), <<"MY_POD_IP", "address">>)
        /\ container.env = spec.env
    BY DEF CreatedInv, Wanted, Created, ContainerOf
  <1> DEFINE log == <<"RUST_LOG", builder.rust_log>>
             silence == <<"RUST_LOG_SILENCE", "builder">>
             ip == <<"MY_POD_IP", "address">>
             Pairs == {log, silence, ip}
             setsLog == "RUST_LOG" \notin DOMAIN spec.env
             setsSilence == builder.silence /\ "RUST_LOG_SILENCE" \notin DOMAIN spec.env
             a == IF setsLog THEN <<log>> ELSE <<>>
             b == IF setsSilence THEN <<silence>> ELSE <<>>
             e == Append(a \o b, ip)
  <1>2. /\ log[1] = "RUST_LOG" /\ silence[1] = "RUST_LOG_SILENCE"
        /\ ip[1] = "MY_POD_IP" /\ {log, silence, ip} \subseteq Pairs
    OBVIOUS
  <1>3. container.env2 = e
    BY <1>1 DEF Pushed
  <1> HIDE DEF log, silence, ip, Pairs
  <1>4. \/ setsLog /\ a \in Seq(Pairs) /\ Len(a) = 1 /\ a[1] = log
        \/ ~setsLog /\ a \in Seq(Pairs) /\ Len(a) = 0
    BY <1>2
  <1>5. \/ setsSilence /\ b \in Seq(Pairs) /\ Len(b) = 1 /\ b[1] = silence
        \/ ~setsSilence /\ b \in Seq(Pairs) /\ Len(b) = 0
    BY <1>2
  <1> HIDE DEF a, b
  <1>6. /\ e \in Seq(Pairs) /\ Len(e) = Len(a) + Len(b) + 1 /\ e[Len(e)] = ip
        /\ \A i \in 1..Len(a) : e[i] = a[i]
        /\ \A i \in 1..Len(b) : e[Len(a) + i] = b[i]
    <2>1. /\ a \o b \in Seq(Pairs) /\ Len(a \o b) = Len(a) + Len(b)
          /\ Len(a) \in Nat /\ Len(b) \in Nat
          /\ \A i \in 1..Len(a) : (a \o b)[i] = a[i]
          /\ \A i \in 1..Len(b) : (a \o b)[Len(a) + i] = b[i]
      BY <1>4, <1>5
    <2> DEFINE c == a \o b
    <2> HIDE DEF c
    <2>2. /\ e \in Seq(Pairs) /\ Len(e) = Len(c) + 1 /\ e[Len(e)] = ip
          /\ \A i \in 1..Len(c) : e[i] = c[i]
      BY <1>2, <2>1 DEF c
    <2>3. /\ \A i \in 1..Len(a) : i \in 1..Len(c)
          /\ \A i \in 1..Len(b) : Len(a) + i \in 1..Len(c)
      BY <2>1 DEF c
    <2> QED BY <2>1, <2>2, <2>3 DEF c
  <1> HIDE DEF e
  <1>7. ASSUME NEW i \in DOMAIN e
        PROVE  \/ i = Len(e) /\ e[i] = ip
               \/ i = 1 /\ e[i] = log /\ setsLog
               \/ i = Len(a) + 1 /\ e[i] = silence /\ setsSilence
    BY <1>4, <1>5, <1>6
  <1>8. DOMAIN e = 1..Len(e) /\ Len(e) \in Nat /\ Len(e) > 0
    BY <1>4, <1>5, <1>6
  <1>9. HasValue("MY_POD_IP", "address")
    <2>1. \A j \in DOMAIN e : j <= Len(e)
      BY <1>8
    <2> QED BY <1>3, <1>6, <1>8, <2>1 DEF HasValue, ip
  <1>10. ASSUME NEW k \in DOMAIN spec.env \ {"MY_POD_IP"}
         PROVE  HasValue(k, spec.env[k])
    <2>1. \A j \in DOMAIN e : e[j][1] # k
      BY <1>2, <1>7
    <2> QED BY <1>1, <1>3, <2>1 DEF HasValue, IsFor
  <1>11. ASSUME setsLog
         PROVE  HasValue("RUST_LOG", builder.rust_log)
    <2>1. 1 \in DOMAIN e /\ e[1] = log
      BY <1>4, <1>6, <1>8, <1>11
    <2>2. \A j \in DOMAIN e : e[j][1] = "RUST_LOG" => j <= 1
      BY <1>2, <1>7
    <2> QED BY <1>3, <2>1, <2>2 DEF HasValue, IsFor, log
  <1>12. ASSUME setsSilence
         PROVE  HasValue("RUST_LOG_SILENCE", "builder")
    <2>1. /\ Len(a) + 1 \in DOMAIN e /\ e[Len(a) + 1] = silence
          /\ Len(a) \in Nat
      BY <1>4, <1>5, <1>6, <1>8, <1>12
    <2>2. \A j \in DOMAIN e : e[j][1] = "RUST_LOG_SILENCE" => j <= Len(a) + 1
      BY <1>2, <1>7, <2>1
    <2> QED BY <1>3, <2>1, <2>2 DEF HasValue, IsFor, silence
  <1> QED BY <1>9, <1>10, <1>11, <1>12 DEF EnvironmentIsMerged

-----------------------------------------------------------------------------
(* The steps of create_container.                                            *)

LEMMA SetterTypes ==
  ASSUME SpecTypeOK, Setter
  PROVE  SpecTypeOK'
  <1> DEFINE Sets(f, v) == spec' = [spec EXCEPT ![f] = v]
  <1>0. /\ UNCHANGED <<builder, config, present, step>>
        /\ DOMAIN spec = SpecFields /\ spec.arguments \in Seq({"arg"})
    BY DEF Setter, SpecTypeOK
  <1>1. ASSUME NEW f \in SpecFields, NEW v, Sets(f, v)
        PROVE  /\ DOMAIN spec' = SpecFields /\ spec'[f] = v
               /\ \A g \in SpecFields \ {f} : spec'[g] = spec[g]
    BY <1>0, <1>1
  <1>2. \/ \E v : Sets("policy", v) /\ v = "Always"
        \/ \E v : Sets("port_map", v)
        \/ \E v : Sets("bypass", v)
        \/ \E v : Sets("arguments", v) /\ v = Append(spec.arguments, "arg")
        \/ \E v : Sets("entrypoint", v) /\ v = <<"own_entrypoint">>
        \/ \E v : Sets("env", v)
        \/ \E v : Sets("nats", v) /\ v = TRUE
        \/ \E v : Sets("command", v) /\ v = <<"own_command">>
    BY DEF Setter, Setters, PortSetters, PolicySetter
  <1> HIDE DEF Sets
  <1>3. Append(spec.arguments, "arg") \in Seq({"arg"})
    BY <1>0
  <1>4. DOMAIN spec' = SpecFields
    BY <1>1, <1>2, Fields
  <1>5. spec'.binary = spec.binary /\ spec'.image = spec.image
    BY <1>1, <1>2, Fields
  <1>6. /\ spec'.nats = spec.nats \/ spec'.nats = TRUE
        /\ spec'.policy = spec.policy \/ spec'.policy = "Always"
    <2>1. spec'.nats = spec.nats \/ spec'.nats = TRUE
      BY <1>1, <1>2, Fields
    <2>2. spec'.policy = spec.policy \/ spec'.policy = "Always"
      BY <1>1, <1>2, Fields
    <2> QED BY <2>1, <2>2
  <1>7. \/ spec'.command = spec.command
        \/ spec'.command = <<"own_command">>
    BY <1>1, <1>2, Fields
  <1>8. \/ spec'.entrypoint = spec.entrypoint
        \/ spec'.entrypoint = <<"own_entrypoint">>
    BY <1>1, <1>2, Fields
  <1>9. \/ spec'.arguments = spec.arguments
        \/ spec'.arguments = Append(spec.arguments, "arg")
    BY <1>1, <1>2, Fields
  <1>10. spec'.arguments \in Seq({"arg"})
    BY <1>0, <1>3, <1>9
  <1> QED BY <1>0, <1>4, <1>5, <1>6, <1>7, <1>8, <1>10 DEF SpecTypeOK

(* Where the specification, the builder and the image stay, so does what is *)
(* asked for.                                                                *)
LEMMA WantedStays ==
  ASSUME spec' = spec, builder' = builder, config' = config
  PROVE  Wanted' = Wanted
  <1>1. Commands(spec)' = Commands(spec) /\ HasCommand(spec)' = HasCommand(spec)
    BY DEF Commands, OwnCommand, HasCommand
  <1>2. Entrypoint(spec)' = Entrypoint(spec) /\ ImageOf(spec)' = ImageOf(spec)
    BY DEF Entrypoint, Tini, ImageOf
  <1>3. MergedCmd(spec)' = MergedCmd(spec)
    BY <1>1 DEF MergedCmd
  <1>4. Merged(spec)' = Merged(spec)
    BY <1>1, <1>2, <1>3 DEF Merged
  <1>5. BoundPorts(spec)' = BoundPorts(spec) /\ Pushed(spec)' = Pushed(spec)
    BY DEF BoundPorts, WithImagePorts, Pushed
  <1> QED BY <1>1, <1>2, <1>4, <1>5 DEF Wanted, ContainerOf

LEMMA SpecInvStep == SpecInv /\ [SpecNext]_specVars => SpecInv'
  <1> SUFFICES ASSUME SpecInv, [SpecNext]_specVars PROVE SpecInv'
    OBVIOUS
  <1> USE DEF SpecInv
  <1>1. CASE Setter
    <2>1. step' = "build"
      BY <1>1 DEF Setter
    <2> QED BY <1>1, <2>1, SetterTypes DEF PulledInv, PanicHasReason, CreatedInv
  <1>2. CASE CreateContainer
    BY <1>2 DEF CreateContainer, SpecTypeOK, PulledInv, PanicHasReason, CreatedInv
  <1>3. CASE PullImage
    BY <1>3
    DEF PullImage, Panics, Pulls, SpecTypeOK, PulledInv, PanicHasReason, CreatedInv,
        ImageOf, NoImage, OwnImage, BaseImage
  <1>4. CASE Inspect
    <2>1. SpecTypeOK'
      BY <1>4 DEF Inspect, Panics, SpecTypeOK
    <2>2. UNCHANGED <<spec, builder, config, present>> /\ step = "inspect"
      BY <1>4 DEF Inspect
    <2>3. ASSUME step' = "panicked"
          PROVE  trouble' \/ (ImageOf(spec) = BaseImage /\ BaseImage \notin present)
      <3>1. \/ trouble'
            \/ (trouble' <=> trouble) /\ ImageOf(spec) \notin present \cup {NoImage}
        BY <1>4, <2>3 DEF Inspect, Panics
      <3> QED BY <2>2, <3>1 DEF SpecTypeOK, PulledInv, ImageOf
    <2>4. ASSUME step' = "created"
          PROVE  container' = Wanted
      <3>1. CASE ImageOf(spec) = NoImage
        <4>1. NoImage \notin present
          BY DEF SpecTypeOK, NoImage, BaseImage, OwnImage
        <4> QED BY <1>4, <2>4, <3>1, <4>1 DEF Inspect, Panics, Wanted
      <3>2. CASE ImageOf(spec) # NoImage
        BY <1>4, <2>4, <3>2 DEF Inspect, Panics, Wanted
      <3> QED BY <3>1, <3>2
    <2>5. CreatedInv'
      BY <2>2, <2>4, WantedStays DEF CreatedInv
    <2>6. PulledInv'
      BY <1>4, <2>2, <2>3 DEF Inspect, Panics, PulledInv, PanicHasReason, ImageOf
    <2> QED BY <2>1, <2>5, <2>6
  <1>5. CASE RemoveImage
    BY <1>5 DEF RemoveImage, SpecTypeOK, PulledInv, PanicHasReason, CreatedInv
  <1>6. CASE UNCHANGED specVars
    <2>1. SpecTypeOK' /\ PulledInv'
      BY <1>6 DEF specVars, SpecTypeOK, PulledInv, PanicHasReason, ImageOf
    <2>2. CreatedInv'
      BY <1>6, WantedStays DEF specVars, CreatedInv
    <2> QED BY <2>1, <2>2
  <1> QED BY <1>1, <1>2, <1>3, <1>4, <1>5, <1>6 DEF SpecNext

LEMMA SpecInvInit == SpecInit => SpecInv
  <1> SUFFICES ASSUME SpecInit PROVE SpecInv
    OBVIOUS
  <1>1. spec \in {FromBinary, FromImage}
    BY DEF SpecInit
  <1>2. /\ DOMAIN spec = SpecFields /\ spec.binary \in BOOLEAN /\ spec.nats = FALSE
        /\ spec.image \in {NoImage, OwnImage} /\ spec.policy = "IfNotPresent"
        /\ spec.command = <<>> /\ spec.entrypoint = <<>> /\ spec.arguments = <<>>
    <2>1. CASE spec = FromBinary
      BY <2>1 DEF FromBinary, SpecFields
    <2>2. CASE spec = FromImage
      BY <2>2, Fields
    <2> QED BY <1>1, <2>1, <2>2
  <1>3. /\ builder.image \in {NoImage, BaseImage} /\ builder.tini \in BOOLEAN
        /\ config \in ImageConfigs /\ present \subseteq {BaseImage, OwnImage}
        /\ step = "build"
    BY DEF SpecInit
  <1>4. /\ spec.arguments \in Seq({"arg"})
        /\ spec.command \in {<<>>, <<"own_command">>}
        /\ spec.entrypoint \in {<<>>, <<"own_entrypoint">>}
        /\ spec.nats \in BOOLEAN /\ spec.policy \in {"IfNotPresent", "Always"}
    <2>1. <<>> \in Seq({"arg"})
      OBVIOUS
    <2> QED BY ONLY <1>2, <2>1, Zenon
  <1>5. SpecTypeOK
    BY <1>2, <1>3, <1>4 DEF SpecTypeOK
  <1>6. PulledInv /\ CreatedInv
    BY <1>3 DEF PulledInv, PanicHasReason, CreatedInv
  <1> QED BY <1>5, <1>6 DEF SpecInv

LEMMA SpecInvAlways == ContainerSpecSpec => []SpecInv
  BY SpecInvInit, SpecInvStep, PTL DEF ContainerSpecSpec

(* What runs in a container is what its specification and its image say, and *)
(* can run, or there is a reason that nothing does (ContainerSpec,           *)
(* create_container, pull_image_if_required).                                *)
THEOREM ContainerIsRight == ContainerSpecSpec => []ContainerRuns
  <1>1. ASSUME SpecInv
        PROVE  ContainerRuns
    <2>1. PanicHasReason
      BY <1>1 DEF SpecInv, PulledInv, PanicHasReason
    <2>2. CASE Created
      BY <1>1, <2>1, <2>2, ArgvIs DEF SpecInv, ContainerRuns
    <2>3. CASE ~Created
      BY <2>1, <2>3
      DEF ContainerRuns, UserCommandRuns, ImageCommandRuns, TiniIsBound
    <2> QED BY <2>2, <2>3
  <1> QED BY <1>1, SpecInvAlways, PTL

(* What each variable of the environment is in the container: what the user  *)
(* has set, but for MY_POD_IP, and what the builder says only where he has   *)
(* set nothing (spec_environment, create_container).                         *)
THEOREM EnvironmentMerged == ContainerSpecSpec => []EnvironmentIsMerged
  <1>1. ASSUME SpecInv
        PROVE  EnvironmentIsMerged
    <2>1. CASE Created
      BY <1>1, <2>1, EnvironmentIs DEF SpecInv
    <2>2. CASE ~Created
      BY <2>2 DEF EnvironmentIsMerged
    <2> QED BY <2>1, <2>2
  <1> QED BY <1>1, SpecInvAlways, PTL
=============================================================================
