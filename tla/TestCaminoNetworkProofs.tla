---------------------- MODULE TestCaminoNetworkProofs ----------------------
(***************************************************************************)
(* Proofs about TestCaminoNetwork for every genesis and every test.        *)
(***************************************************************************)
EXTENDS TestCaminoNetwork, FiniteSetTheorems, SequenceTheorems, TLAPS

N == Len(Stakers)

-----------------------------------------------------------------------------
(* Lemmas about the boot nodes.                                            *)

LEMMA StakersType ==
  /\ N \in Nat
  /\ DOMAIN Stakers = 1..N
  BY StakersAssumption DEF N

\* The boot nodes are all different.
LEMMA BootServiceInjective ==
  ASSUME NEW i, NEW j, BootService(i) = BootService(j)
  PROVE  i = j
  BY DEF BootService

\* As many dependencies as boot nodes before the n-th.
LEMMA CountBootServices ==
  ASSUME NEW n \in Nat
  PROVE  Cardinality({BootService(i) : i \in 0..n - 1}) = n
<1> DEFINE B == {BootService(i) : i \in 0..n - 1}
           f == [m \in 1..n |-> BootService(m - 1)]
<1>1. f \in [1..n -> B]
  <2>1. \A m \in 1..n : m - 1 \in 0..n - 1
    OBVIOUS
  <2> QED
    BY <2>1
<1>2. ASSUME NEW a \in 1..n, NEW b \in 1..n, f[a] = f[b] PROVE a = b
  <2>1. a - 1 = b - 1
    BY <1>2, BootServiceInjective
  <2> QED
    BY <2>1
<1>3. ASSUME NEW t \in B PROVE \E m \in 1..n : f[m] = t
  <2>1. PICK i \in 0..n - 1 : t = BootService(i)
    OBVIOUS
  <2>2. i + 1 \in 1..n /\ (i + 1) - 1 = i
    OBVIOUS
  <2> QED
    BY <2>1, <2>2
<1>4. f \in Bijection(1..n, B)
  <2> HIDE DEF f, B
  <2> QED
    BY <1>1, <1>2, <1>3 DEF Bijection, Injection, Surjection, IsInjective
<1>5. ExistsBijection(1..n, B)
  BY <1>4 DEF ExistsBijection
<1> QED
  BY <1>5, FS_CountingElements

\* The node IDs boot node i is told to trust are those of the i before it.
LEMMA BootNodeIDsAre ==
  ASSUME NEW i \in BootNumbers
  PROVE  /\ Len(BootNodeIDs(i)) = i
         /\ DOMAIN BootNodeIDs(i) = 1..i
         /\ \A n \in 1..i : BootNodeIDs(i)[n] = Stakers[n]
<1> DEFINE T == {Stakers[n] : n \in DOMAIN Stakers}
<1>1. i \in Nat /\ i < N
  BY StakersType DEF BootNumbers, N
<1>2. \A n \in 1..i : Stakers[n] \in T
  BY <1>1, StakersType
<1>3. /\ SubSeq(Stakers, 1, i) \in Seq(T)
      /\ Len(SubSeq(Stakers, 1, i)) = IF 1 <= i THEN i - 1 + 1 ELSE 0
      /\ \A n \in 1..i - 1 + 1 : SubSeq(Stakers, 1, i)[n] = Stakers[1 + n - 1]
  BY <1>1, <1>2, SubSeqProperties
<1>4. i - 1 + 1 = i /\ \A n \in 1..i : 1 + n - 1 = n
  BY <1>1
<1> QED
  BY <1>1, <1>3, <1>4 DEF BootNodeIDs

-----------------------------------------------------------------------------
(* The inductive invariant.                                                *)

Early == {"new", "refused", "configure"}

\* Nothing runs before there are configurations, and these are the boot
\* nodes' and the user's, who could not replace any of the former.
ConfigInv ==
  /\ stage \in Early => started = {} /\ bootNodes = 0
  /\ stage \notin {"new", "refused"} => ~Reserved(test)
  /\ stage \notin Early =>
       /\ DOMAIN configs =
            {BootConfig(i) : i \in BootNumbers} \cup DOMAIN test.serviceConfigs
       /\ \A i \in BootNumbers : configs[BootConfig(i)] = BootNodeConfig(i)
       /\ \A c \in DOMAIN test.serviceConfigs :
            configs[c] = UserConfig(test.serviceConfigs[c])

\* The boot nodes that run are those the loader has added, each with the
\* identity of its staker.
BootInv ==
  /\ DOMAIN nodeID = Services
  /\ DOMAIN bootstrapIDs = Services
  /\ GetAllBootServiceIDs \cap started = bootstrapperServiceIDs
  /\ \A i \in 0..bootNodes - 1 : nodeID[BootService(i)] = Stakers[i + 1]
  /\ toAdd \cap started = {}
  /\ stage \in {"startup", "test"} => bootNodes = N

IInv == TypeOK /\ ConfigInv /\ BootInv /\ BootstrapIDsMatch

IDsOf(ids) == {ids[n] : n \in DOMAIN ids}
NodeIDsOf(services) == {nodeID[b] : b \in services}

LEMMA InitIInv == Init => IInv
<1> SUFFICES ASSUME Init PROVE IInv
  OBVIOUS
<1> USE DEF Init
<1>1. TypeOK
  BY StakersType DEF TypeOK, Stages, N
<1>2. ConfigInv
  BY DEF ConfigInv, Early
<1>3. BootInv
  BY StakersType DEF BootInv, bootstrapperServiceIDs
<1>4. BootstrapIDsMatch
  BY DEF BootstrapIDsMatch
<1> QED
  BY <1>1, <1>2, <1>3, <1>4 DEF IInv

\* The boot nodes that are added are those before the next one.
LEMMA BootServicesAdded ==
  ASSUME IInv
  PROVE  /\ bootNodes \in 0..N
         /\ bootstrapperServiceIDs \subseteq GetAllBootServiceIDs \cap started
         /\ bootNodes = N => bootstrapperServiceIDs = GetAllBootServiceIDs
         /\ bootNodes < N => BootService(bootNodes) \in GetAllBootServiceIDs \ started
<1>1. bootNodes \in 0..N /\ N \in Nat
  BY StakersType DEF IInv, TypeOK, N
<1>2. bootstrapperServiceIDs = GetAllBootServiceIDs \cap started
  BY DEF IInv, BootInv
<1>3. bootNodes = N => bootstrapperServiceIDs = GetAllBootServiceIDs
  BY DEF bootstrapperServiceIDs, GetAllBootServiceIDs, BootNumbers, N
<1>4. ASSUME bootNodes < N PROVE BootService(bootNodes) \in GetAllBootServiceIDs \ started
  <2>1. bootNodes \in BootNumbers
    BY <1>1, <1>4 DEF BootNumbers, N
  <2>2. BootService(bootNodes) \notin bootstrapperServiceIDs
    <3> SUFFICES ASSUME NEW j \in 0..bootNodes - 1, BootService(bootNodes) = BootService(j)
                 PROVE  FALSE
      BY DEF bootstrapperServiceIDs
    <3>1. bootNodes = j
      BY BootServiceInjective
    <3> QED
      BY <1>1, <3>1
  <2> QED
    BY <1>2, <2>1, <2>2 DEF GetAllBootServiceIDs
<1> QED
  BY <1>1, <1>2, <1>3, <1>4

\* The configuration of the next boot node has the IDs of those before it.
LEMMA NextBootConfigMatches ==
  ASSUME IInv, stage \notin Early, bootNodes < N
  PROVE  /\ BootConfig(bootNodes) \in DOMAIN configs
         /\ IDsOf(configs[BootConfig(bootNodes)].bootIDs)
              = NodeIDsOf(bootstrapperServiceIDs)
         /\ Len(configs[BootConfig(bootNodes)].bootIDs) = bootNodes
         /\ NodeID(configs[BootConfig(bootNodes)]) = Stakers[bootNodes + 1]
         /\ configs[BootConfig(bootNodes)].provider = "static"
<1>1. bootNodes \in BootNumbers /\ bootNodes \in Nat
  BY BootServicesAdded, StakersType DEF BootNumbers, N
<1>2. /\ configs[BootConfig(bootNodes)] = BootNodeConfig(bootNodes)
      /\ BootConfig(bootNodes) \in DOMAIN configs
  BY <1>1 DEF IInv, ConfigInv
<1> DEFINE ids == BootNodeIDs(bootNodes)
<1>3. /\ DOMAIN ids = 1..bootNodes /\ Len(ids) = bootNodes
      /\ \A n \in 1..bootNodes : ids[n] = Stakers[n]
  BY <1>1, BootNodeIDsAre
<1>4. \A j \in 0..bootNodes - 1 : nodeID[BootService(j)] = Stakers[j + 1]
  BY DEF IInv, BootInv
<1> HIDE DEF ids
<1>5. IDsOf(ids) = NodeIDsOf(bootstrapperServiceIDs)
  <2>1. ASSUME NEW n \in 1..bootNodes
        PROVE  ids[n] \in NodeIDsOf(bootstrapperServiceIDs)
    <3>1. n - 1 \in 0..bootNodes - 1 /\ (n - 1) + 1 = n
      BY <1>1
    <3>2. nodeID[BootService(n - 1)] = ids[n]
      BY <1>3, <1>4, <3>1
    <3> QED
      BY <3>1, <3>2 DEF NodeIDsOf, bootstrapperServiceIDs
  <2>2. ASSUME NEW j \in 0..bootNodes - 1
        PROVE  nodeID[BootService(j)] \in IDsOf(ids)
    <3>1. j + 1 \in 1..bootNodes
      BY <1>1
    <3> QED
      BY <1>3, <1>4, <3>1 DEF IDsOf
  <2> QED
    BY <1>3, <2>1, <2>2 DEF IDsOf, NodeIDsOf, bootstrapperServiceIDs
<1> QED
  BY <1>2, <1>3, <1>5 DEF BootNodeConfig, NodeID, StaticCertAndKey, ids

\* When all boot nodes run, only a configuration of the user has as many IDs
\* as there are boot nodes, and they are theirs.
LEMMA LaterConfigMatches ==
  ASSUME IInv, stage \notin Early, bootNodes = N,
         NEW c \in DOMAIN configs,
         Cardinality(GetAllBootServiceIDs) <= Len(configs[c].bootIDs)
  PROVE  /\ IDsOf(configs[c].bootIDs) = NodeIDsOf(GetAllBootServiceIDs)
         /\ configs[c].provider = "random"
<1>1. N \in Nat
  BY StakersType
<1>2. Cardinality(GetAllBootServiceIDs) = N
  BY <1>1, CountBootServices DEF GetAllBootServiceIDs, BootNumbers, N
<1>3. c \in DOMAIN test.serviceConfigs
  <2> SUFFICES ASSUME NEW i \in BootNumbers, c = BootConfig(i) PROVE FALSE
    BY DEF IInv, ConfigInv
  <2>1. configs[c] = BootNodeConfig(i)
    BY DEF IInv, ConfigInv
  <2>2. Len(configs[c].bootIDs) = i
    BY <2>1, BootNodeIDsAre DEF BootNodeConfig
  <2> QED
    BY <1>1, <1>2, <2>2 DEF BootNumbers, N
<1>4. configs[c].bootIDs = Stakers /\ configs[c].provider = "random"
  <2>1. configs[c] = UserConfig(test.serviceConfigs[c])
    BY <1>3 DEF IInv, ConfigInv
  <2> QED
    BY <2>1 DEF UserConfig
<1>5. \A j \in 0..N - 1 : nodeID[BootService(j)] = Stakers[j + 1]
  BY DEF IInv, BootInv
<1>6. ASSUME NEW n \in 1..N PROVE Stakers[n] \in NodeIDsOf(GetAllBootServiceIDs)
  <2>1. n - 1 \in 0..N - 1 /\ (n - 1) + 1 = n
    BY <1>1
  <2>2. nodeID[BootService(n - 1)] = Stakers[n]
    BY <1>5, <2>1
  <2> QED
    BY <2>1, <2>2 DEF NodeIDsOf, GetAllBootServiceIDs, BootNumbers, N
<1>7. ASSUME NEW j \in 0..N - 1 PROVE nodeID[BootService(j)] \in IDsOf(Stakers)
  <2>1. j + 1 \in DOMAIN Stakers
    BY StakersType
  <2> QED
    BY <1>5, <2>1 DEF IDsOf
<1>8. GetAllBootServiceIDs = {BootService(j) : j \in 0..N - 1}
  BY DEF GetAllBootServiceIDs, BootNumbers, N
<1>9. IDsOf(Stakers) = {Stakers[n] : n \in 1..N}
  BY StakersType DEF IDsOf
<1>10. IDsOf(Stakers) \subseteq NodeIDsOf(GetAllBootServiceIDs)
  BY <1>6, <1>9
<1>11. NodeIDsOf(GetAllBootServiceIDs) \subseteq IDsOf(Stakers)
  BY <1>7, <1>8 DEF NodeIDsOf
<1> QED
  BY <1>4, <1>10, <1>11

-----------------------------------------------------------------------------
(* The steps.                                                              *)

\* Adding a service whose configuration matches its dependencies.
LEMMA AddServiceKeeps ==
  ASSUME IInv, NEW s \in Services, NEW c, NEW deps \in SUBSET GetAllBootServiceIDs,
         AddService(s, c, deps),
         stage' \in Stages, bootNodes' \in 0..N, toAdd' \subseteq DOMAIN test.desired,
         IDsOf(configs[c].bootIDs) = NodeIDsOf(deps)
  PROVE  /\ TypeOK'
         /\ BootstrapIDsMatch'
         /\ DOMAIN nodeID' = Services /\ DOMAIN bootstrapIDs' = Services
         /\ s \notin started /\ started' = started \cup {s}
         /\ nodeID'[s] = NodeID(configs[c])
         /\ \A t \in started : nodeID'[t] = nodeID[t]
<1>1. TypeOK /\ s \notin started /\ deps \subseteq started
  BY DEF IInv, AddService, CanStart, Running
<1>2. /\ DOMAIN nodeID' = Services /\ DOMAIN bootstrapIDs' = Services
      /\ nodeID'[s] = NodeID(configs[c])
      /\ bootstrapIDs'[s] = configs[c].bootIDs
      /\ \A t \in started : nodeID'[t] = nodeID[t] /\ bootstrapIDs'[t] = bootstrapIDs[t]
  BY <1>1 DEF AddService, IInv, BootInv, TypeOK
<1>3. /\ bootstrapIPs'[s] = deps
      /\ \A t \in started : bootstrapIPs'[t] = bootstrapIPs[t]
  BY <1>1 DEF AddService, TypeOK
<1>4. started' = started \cup {s}
  BY DEF AddService
<1>5. TypeOK'
  <2>1. bootstrapIPs' \in [Services -> SUBSET (GetAllBootServiceIDs \cap started')]
    BY <1>1, <1>4 DEF AddService, TypeOK
  <2>2. generated' \in Nat
    BY <1>1 DEF AddService, TypeOK
  <2> QED
    BY <1>1, <1>4, <2>1, <2>2 DEF AddService, TypeOK, N, constVars
<1>6. BootstrapIDsMatch'
  <2> SUFFICES ASSUME NEW t \in started'
               PROVE  BootstrapperIDs(t)' = {nodeID'[b] : b \in bootstrapIPs'[t]}
    BY DEF BootstrapIDsMatch
  <2>1. CASE t = s
    <3>1. BootstrapperIDs(t)' = IDsOf(configs[c].bootIDs)
      BY <1>2, <2>1 DEF BootstrapperIDs, IDsOf
    <3>2. {nodeID'[b] : b \in bootstrapIPs'[t]} = NodeIDsOf(deps)
      BY <1>1, <1>2, <1>3, <2>1 DEF NodeIDsOf
    <3> QED
      BY <3>1, <3>2
  <2>2. CASE t \in started
    <3>1. BootstrapperIDs(t)' = BootstrapperIDs(t)
      BY <1>2, <2>2 DEF BootstrapperIDs
    <3>2. bootstrapIPs[t] \subseteq started
      BY <1>1, <2>2 DEF TypeOK
    <3>3. BootstrapperIDs(t) = {nodeID[b] : b \in bootstrapIPs[t]}
      BY <2>2 DEF IInv, BootstrapIDsMatch
    <3>4. \A b \in bootstrapIPs[t] : nodeID'[b] = nodeID[b]
      BY <1>2, <3>2
    <3>5. bootstrapIPs'[t] = bootstrapIPs[t]
      BY <1>3, <2>2
    <3> QED
      BY <3>1, <3>3, <3>4, <3>5
  <2> QED
    BY <1>4, <2>1, <2>2
<1> QED
  BY <1>1, <1>2, <1>4, <1>5, <1>6

\* Steps that neither add services nor make configurations.
LEMMA OtherStepKeeps ==
  ASSUME IInv, TypeOK',
         UNCHANGED <<test, configs, bootNodes, toAdd, started, nodeID,
                     bootstrapIDs, bootstrapIPs>>,
         stage' = stage \/ (stage \notin Early /\ stage' \notin Early),
         stage' \in {"startup", "test"} => bootNodes = N
  PROVE  IInv'
<1>1. ConfigInv'
  BY DEF IInv, ConfigInv, Early
<1>2. BootInv'
  BY DEF IInv, BootInv, bootstrapperServiceIDs
<1>3. BootstrapIDsMatch'
  BY DEF IInv, BootstrapIDsMatch, BootstrapperIDs
<1> QED
  BY <1>1, <1>2, <1>3 DEF IInv

\* GoTo changes the stage only.
LEMMA GoToKeeps ==
  ASSUME IInv, stage \notin Early, NEW next \in Stages \ Early, GoTo(next),
         next \in {"startup", "test"} => bootNodes = N
  PROVE  IInv'
<1>1. TypeOK'
  BY DEF IInv, TypeOK, GoTo, constVars, loaderVars, serviceVars, checkVars
<1> QED
  BY <1>1, OtherStepKeeps
     DEF GoTo, constVars, loaderVars, serviceVars, checkVars

LEMMA NewLoaderKeeps == IInv /\ NewTestCaminoNetworkLoader => IInv'
<1> SUFFICES ASSUME IInv, NewTestCaminoNetworkLoader PROVE IInv'
  OBVIOUS
<1> USE DEF NewTestCaminoNetworkLoader, GoTo, constVars, loaderVars,
            serviceVars, checkVars
<1>1. TypeOK'
  BY DEF IInv, TypeOK, Stages
<1>2. ConfigInv'
  BY DEF IInv, ConfigInv, Early
<1>3. BootInv'
  BY DEF IInv, BootInv, bootstrapperServiceIDs
<1>4. BootstrapIDsMatch'
  BY DEF IInv, BootstrapIDsMatch, BootstrapperIDs
<1> QED
  BY <1>1, <1>2, <1>3, <1>4 DEF IInv

\* The user's configurations are not taken for boot nodes', which begin with
\* a prefix he may not use.
LEMMA ConfigureNetworkKeeps == IInv /\ ConfigureNetwork => IInv'
<1> SUFFICES ASSUME IInv, ConfigureNetwork PROVE IInv'
  OBVIOUS
<1> USE DEF ConfigureNetwork, constVars, serviceVars, checkVars
<1>1. TypeOK'
  BY DEF IInv, TypeOK, Stages
<1>2. ConfigInv'
  <2>1. ~Reserved(test)
    BY DEF IInv, ConfigInv
  <2>2. \A c \in DOMAIN test.serviceConfigs : ~HasPrefix(c, bootNodeConfigIDPrefix)
    BY <2>1 DEF Reserved
  <2>3. \A i \in BootNumbers :
          HasPrefix(BootConfig(i), bootNodeConfigIDPrefix) /\ BootConfig(i)[2] = i
    BY DEF HasPrefix, BootConfig
  <2>4. \A i \in BootNumbers : configs'[BootConfig(i)] = BootNodeConfig(i)
    BY <2>3
  <2>5. \A c \in DOMAIN test.serviceConfigs :
          configs'[c] = UserConfig(test.serviceConfigs[c])
    BY <2>2
  <2>6. stage' = "bootNodes" /\ test' = test
    OBVIOUS
  <2>7. DOMAIN configs' =
          {BootConfig(i) : i \in BootNumbers} \cup DOMAIN test.serviceConfigs
    OBVIOUS
  <2> QED
    BY <2>1, <2>4, <2>5, <2>6, <2>7 DEF ConfigInv, Early
<1>3. BootInv'
  BY DEF IInv, BootInv, bootstrapperServiceIDs
<1>4. BootstrapIDsMatch'
  <2>1. started' = {}
    BY DEF IInv, ConfigInv, Early
  <2> QED
    BY <2>1 DEF BootstrapIDsMatch
<1> QED
  BY <1>1, <1>2, <1>3, <1>4 DEF IInv

LEMMA AddBootNodeKeeps == IInv /\ AddBootNode => IInv'
<1> SUFFICES ASSUME IInv, AddBootNode PROVE IInv'
  OBVIOUS
<1> DEFINE s == BootService(bootNodes)
           c == BootConfig(bootNodes)
<1>1. /\ stage \notin Early /\ stage' = stage /\ stage \in Stages
      /\ bootNodes \in Nat /\ bootNodes < N /\ bootNodes' = bootNodes + 1
      /\ toAdd' = toAdd
      /\ UNCHANGED <<test, configs>>
      /\ AddService(s, c, bootstrapperServiceIDs)
  BY BootServicesAdded
     DEF AddBootNode, AddingBootNodes, Early, Stages, AddService, constVars, N
<1>2. s \in GetAllBootServiceIDs /\ s \in Services
  BY <1>1, BootServicesAdded DEF Services
<1>3. /\ bootstrapperServiceIDs \in SUBSET GetAllBootServiceIDs
      /\ bootNodes' \in 0..N
      /\ toAdd' \subseteq DOMAIN test.desired
  BY <1>1, BootServicesAdded, StakersType DEF IInv, TypeOK
<1>4. /\ IDsOf(configs[c].bootIDs) = NodeIDsOf(bootstrapperServiceIDs)
      /\ NodeID(configs[c]) = Stakers[bootNodes + 1]
  BY <1>1, NextBootConfigMatches
<1> HIDE DEF s, c
<1>5. /\ TypeOK' /\ BootstrapIDsMatch'
      /\ DOMAIN nodeID' = Services /\ DOMAIN bootstrapIDs' = Services
      /\ started' = started \cup {s}
      /\ nodeID'[s] = Stakers[bootNodes + 1]
      /\ \A t \in started : nodeID'[t] = nodeID[t]
  BY <1>1, <1>2, <1>3, <1>4, AddServiceKeeps
<1>6. ConfigInv'
  BY <1>1 DEF IInv, ConfigInv, Early
<1>7. \A j \in 0..bootNodes' - 1 : j = bootNodes \/ j \in 0..bootNodes - 1
  BY <1>1
<1>8. bootstrapperServiceIDs' = bootstrapperServiceIDs \cup {s}
  <2>1. bootNodes \in 0..bootNodes' - 1
    BY <1>1
  <2>2. \A j \in 0..bootNodes - 1 : j \in 0..bootNodes' - 1
    BY <1>1
  <2> QED
    BY <1>7, <2>1, <2>2 DEF bootstrapperServiceIDs, s
<1>9. BootInv'
  <2>1. GetAllBootServiceIDs \cap started' = bootstrapperServiceIDs'
    BY <1>2, <1>5, <1>8 DEF IInv, BootInv
  <2>2. ASSUME NEW j \in 0..bootNodes' - 1
        PROVE  nodeID'[BootService(j)] = Stakers[j + 1]
    <3>1. CASE j = bootNodes
      BY <1>5, <3>1 DEF s
    <3>2. CASE j \in 0..bootNodes - 1
      <4>1. BootService(j) \in started
        BY <3>2, BootServicesAdded DEF bootstrapperServiceIDs
      <4> QED
        BY <1>5, <3>2, <4>1 DEF IInv, BootInv
    <3> QED
      BY <1>7, <3>1, <3>2
  <2>3. s \notin toAdd
    <3>1. \A t \in DOMAIN test.desired : ~HasPrefix(t, bootNodeServiceIDPrefix)
      BY <1>1 DEF IInv, ConfigInv, Reserved, Early
    <3>2. HasPrefix(s, bootNodeServiceIDPrefix)
      BY DEF s, BootService, HasPrefix
    <3> QED
      BY <3>1, <3>2 DEF IInv, TypeOK
  <2>4. toAdd' \cap started' = {}
    BY <1>1, <1>5, <2>3 DEF IInv, BootInv
  <2>5. stage' \notin {"startup", "test"}
    BY <1>1 DEF AddBootNode, AddingBootNodes
  <2> QED
    BY <1>5, <2>1, <2>2, <2>4, <2>5 DEF BootInv
<1> QED
  BY <1>5, <1>6, <1>9 DEF IInv

\* A service the user asks for depends on all the boot nodes, and is none.
LEMMA AddLaterKeeps ==
  ASSUME IInv, NEW s \in Services, NEW c,
         stage \in Stages \ Early, bootNodes = N,
         s \notin GetAllBootServiceIDs,
         AddService(s, c, GetAllBootServiceIDs),
         toAdd' \subseteq toAdd \ {s},
         UNCHANGED <<stage, bootNodes>>
  PROVE  IInv'
<1>1. c \in DOMAIN configs /\ Cardinality(GetAllBootServiceIDs) <= Len(configs[c].bootIDs)
  BY DEF AddService, CanStart
<1>2. IDsOf(configs[c].bootIDs) = NodeIDsOf(GetAllBootServiceIDs)
  BY <1>1, LaterConfigMatches
<1>3. bootNodes' \in 0..N /\ toAdd' \subseteq DOMAIN test.desired /\ stage' \in Stages
  BY StakersType DEF IInv, TypeOK
<1>4. /\ TypeOK' /\ BootstrapIDsMatch'
      /\ DOMAIN nodeID' = Services /\ DOMAIN bootstrapIDs' = Services
      /\ started' = started \cup {s}
      /\ \A t \in started : nodeID'[t] = nodeID[t]
  BY <1>2, <1>3, AddServiceKeeps
<1>5. UNCHANGED <<test, configs>>
  BY DEF AddService, constVars
<1>6. ConfigInv'
  BY <1>5 DEF IInv, ConfigInv, Early
<1>7. bootstrapperServiceIDs' = bootstrapperServiceIDs
  BY DEF bootstrapperServiceIDs
<1>8. ASSUME NEW j \in 0..bootNodes' - 1
      PROVE  nodeID'[BootService(j)] = Stakers[j + 1]
  <2>1. BootService(j) \in started
    BY BootServicesAdded DEF bootstrapperServiceIDs
  <2> QED
    BY <1>4, <2>1 DEF IInv, BootInv
<1>9. GetAllBootServiceIDs \cap started' = bootstrapperServiceIDs'
  BY <1>4, <1>7 DEF IInv, BootInv
<1>10. toAdd' \cap started' = {}
  BY <1>4 DEF IInv, BootInv
<1>11. BootInv'
  BY <1>4, <1>8, <1>9, <1>10 DEF BootInv
<1> QED
  BY <1>4, <1>6, <1>11 DEF IInv

LEMMA AddDesiredKeeps ==
  ASSUME IInv, NEW s \in Services, AddDesired(s)
  PROVE  IInv'
<1>1. /\ stage \in Stages \ Early /\ bootNodes = N
      /\ UNCHANGED <<stage, bootNodes>>
      /\ s \in toAdd /\ toAdd' \subseteq toAdd \ {s}
  BY DEF AddDesired, BootNodesAdded, Stages, Early, N
<1>2. AddService(s, test.desired[s], GetAllBootServiceIDs)
  BY <1>1, BootServicesAdded DEF AddDesired
<1>3. s \notin GetAllBootServiceIDs
  <2>1. ~HasPrefix(s, bootNodeServiceIDPrefix)
    BY <1>1 DEF IInv, ConfigInv, TypeOK, Reserved, Early
  <2> QED
    BY <2>1 DEF GetAllBootServiceIDs, BootService, HasPrefix
<1> QED
  BY <1>1, <1>2, <1>3, AddLaterKeeps

LEMMA TestAddsServiceKeeps ==
  ASSUME IInv, NEW s \in Services, TestAddsService(s)
  PROVE  IInv'
<1>1. /\ stage \in Stages \ Early /\ bootNodes = N
      /\ UNCHANGED <<stage, bootNodes, toAdd>>
      /\ s \in DOMAIN test.additional
      /\ AddService(s, test.additional[s], GetAllBootServiceIDs)
  BY DEF TestAddsService, IInv, BootInv, Stages, Early
<1>2. /\ s \notin DOMAIN test.desired
      /\ ~HasPrefix(s, bootNodeServiceIDPrefix)
  BY <1>1, TestAssumption DEF IInv, TypeOK
<1>3. s \notin GetAllBootServiceIDs
  BY <1>2 DEF GetAllBootServiceIDs, BootService, HasPrefix
<1>4. toAdd' \subseteq toAdd \ {s}
  BY <1>1, <1>2 DEF IInv, TypeOK
<1> QED
  BY <1>1, <1>3, <1>4, AddLaterKeeps

\* A call that fails, wherever it is made.
LEMMA FailKeeps ==
  ASSUME IInv, stage \notin Early, NEW s, NEW c, NEW deps,
         AddServiceFails(s, c, deps)
  PROVE  IInv'
<1> DEFINE next == IF CanStart(s, c, deps) THEN "startFailed" ELSE "failed"
<1>1. GoTo(next)
  BY DEF AddServiceFails
<1>2. next \in Stages \ Early /\ next \notin {"startup", "test"}
  BY DEF Stages, Early
<1> HIDE DEF next
<1> QED
  BY <1>1, <1>2, GoToKeeps

LEMMA NetworkInitializedKeeps == IInv /\ NetworkInitialized => IInv'
  BY GoToKeeps DEF NetworkInitialized, BootNodesAdded, Stages, Early, N

\* Waiting for a service.
LEMMA WaitKeeps ==
  ASSUME IInv,
         \/ \E s \in Services : WaitForStartup(s)
         \/ IsBootstrapped
         \/ NotYetUp
         \/ ServiceUp
  PROVE  IInv'
<1>1. TypeOK
  BY DEF IInv
<1>2. TypeOK' /\ stage' = stage
  <2>1. CASE \E s \in Services : WaitForStartup(s)
    BY <1>1, <2>1
       DEF WaitForStartup, TypeOK, constVars, loaderVars, serviceVars
  <2>2. CASE IsBootstrapped
    BY <1>1, <2>2 DEF IsBootstrapped, TypeOK, constVars, loaderVars, serviceVars
  <2>3. CASE NotYetUp
    BY <1>1, <2>3 DEF NotYetUp, TypeOK, constVars, loaderVars, serviceVars
  <2>4. CASE ServiceUp
    BY <1>1, <2>4 DEF ServiceUp, TypeOK, constVars, loaderVars, serviceVars
  <2> QED
    BY <2>1, <2>2, <2>3, <2>4
<1>3. UNCHANGED <<test, configs, bootNodes, toAdd, started, nodeID,
                  bootstrapIDs, bootstrapIPs>>
  BY DEF WaitForStartup, IsBootstrapped, NotYetUp, ServiceUp, constVars,
         loaderVars, serviceVars
<1> QED
  BY <1>2, <1>3, OtherStepKeeps DEF IInv, BootInv

LEMMA StageChangeKeeps ==
  ASSUME IInv,
         StartupTimesOut \/ NetworkUp \/ \E s \in Services : RemoveServiceFails(s)
  PROVE  IInv'
<1>1. CASE StartupTimesOut
  BY <1>1, GoToKeeps DEF StartupTimesOut, Stages, Early
<1>2. CASE NetworkUp
  <2>1. bootNodes = N
    BY <1>2 DEF NetworkUp, IInv, BootInv
  <2> QED
    BY <1>2, <2>1, GoToKeeps DEF NetworkUp, Stages, Early
<1>3. CASE \E s \in Services : RemoveServiceFails(s)
  BY <1>3, GoToKeeps DEF RemoveServiceFails, Stages, Early
<1> QED
  BY <1>1, <1>2, <1>3

LEMMA RemoveServiceKeeps ==
  ASSUME IInv, NEW s \in Services, RemoveService(s)
  PROVE  IInv'
<1>1. s \in DOMAIN test.additional /\ test \in Tests
  BY DEF RemoveService, IInv, TypeOK
<1>2. s \notin GetAllBootServiceIDs
  BY <1>1, TestAssumption DEF GetAllBootServiceIDs, BootService, HasPrefix
<1>3. TypeOK'
  BY <1>2 DEF RemoveService, IInv, TypeOK, constVars, loaderVars, checkVars
<1> QED
  BY <1>3, OtherStepKeeps
     DEF RemoveService, IInv, BootInv, constVars, loaderVars

LEMMA BootstrapKeeps ==
  ASSUME IInv, Nodes
  PROVE  IInv'
<1>1. PICK s \in Services, i \in DOMAIN Chains : Bootstrap(s, Chains[i])
  BY DEF Nodes
<1>2. s \in started
  BY <1>1 DEF Bootstrap, Running
<1>3. TypeOK'
  BY <1>1, <1>2 DEF Bootstrap, IInv, TypeOK, constVars, loaderVars,
                    serviceVars, checkVars
<1> QED
  BY <1>1, <1>3, OtherStepKeeps
     DEF Bootstrap, IInv, BootInv, constVars, loaderVars, serviceVars

LEMMA KurtosisKeeps == IInv /\ Kurtosis => IInv'
<1> SUFFICES ASSUME IInv, Kurtosis PROVE IInv'
  OBVIOUS
<1>1. CASE NewTestCaminoNetworkLoader
  BY <1>1, NewLoaderKeeps
<1>2. CASE ConfigureNetwork
  BY <1>2, ConfigureNetworkKeeps
<1>3. CASE AddBootNode
  BY <1>3, AddBootNodeKeeps
<1>4. CASE AddBootNodeFails
  BY <1>4, FailKeeps DEF AddBootNodeFails, AddingBootNodes, Early
<1>5. CASE \E s \in Services : AddDesired(s)
  BY <1>5, AddDesiredKeeps
<1>6. CASE \E s \in Services : AddDesiredFails(s)
  BY <1>6, FailKeeps DEF AddDesiredFails, BootNodesAdded, Early
<1>7. CASE NetworkInitialized
  BY <1>7, NetworkInitializedKeeps
<1>8. CASE \/ \E s \in Services : WaitForStartup(s)
           \/ IsBootstrapped
           \/ NotYetUp
           \/ ServiceUp
  BY <1>8, WaitKeeps
<1>9. CASE StartupTimesOut \/ NetworkUp
  BY <1>9, StageChangeKeeps
<1> QED
  BY <1>1, <1>2, <1>3, <1>4, <1>5, <1>6, <1>7, <1>8, <1>9 DEF Kurtosis

LEMMA TestKeeps == IInv /\ Test => IInv'
<1> SUFFICES ASSUME IInv, NEW s \in Services,
                    \/ TestAddsService(s)
                    \/ TestAddServiceFails(s)
                    \/ RemoveService(s)
                    \/ RemoveServiceFails(s)
             PROVE  IInv'
  BY DEF Test
<1>1. CASE TestAddsService(s)
  BY <1>1, TestAddsServiceKeeps
<1>2. CASE TestAddServiceFails(s)
  BY <1>2, FailKeeps DEF TestAddServiceFails, Early
<1>3. CASE RemoveService(s)
  BY <1>3, RemoveServiceKeeps
<1>4. CASE RemoveServiceFails(s)
  BY <1>4, StageChangeKeeps
<1> QED
  BY <1>1, <1>2, <1>3, <1>4

LEMMA NextKeeps == IInv /\ [Next]_vars => IInv'
<1> SUFFICES ASSUME IInv, [Next]_vars PROVE IInv'
  OBVIOUS
<1>1. CASE UNCHANGED vars
  <2>1. TypeOK'
    BY <1>1 DEF IInv, TypeOK, vars, constVars, loaderVars, serviceVars, checkVars
  <2> QED
    BY <1>1, <2>1, OtherStepKeeps
       DEF IInv, BootInv, vars, constVars, loaderVars, serviceVars
<1> QED
  BY <1>1, KurtosisKeeps, TestKeeps, BootstrapKeeps DEF Next

LEMMA SpecIInv == Spec => []IInv
  BY InitIInv, NextKeeps, PTL DEF Spec

-----------------------------------------------------------------------------
(* Theorems.                                                               *)

\* In every network only started services are removed, bootstrapped, waited
\* for or found up, and a service bootstraps from boot nodes that run
\* (camino_network.go:255-346).
THEOREM NetworkTypeOK == Spec => []TypeOK
<1>1. IInv => TypeOK
  BY DEF IInv
<1> QED
  BY <1>1, SpecIInv, PTL

\* However many stakers the genesis has, whatever the test asks for and
\* whatever fails, a service is told the node IDs of just the nodes it is
\* told to contact (camino_network.go:279 and 322-343).
THEOREM NetworkBootstrapIDsMatch == Spec => []BootstrapIDsMatch
<1>1. IInv => BootstrapIDsMatch
  BY DEF IInv
<1> QED
  BY <1>1, SpecIInv, PTL

-----------------------------------------------------------------------------
(* What is refused.                                                        *)

BadArguments ==
  \/ ~test.isStaking
  \/ \E s \in DOMAIN test.desired : test.desired[s] \notin DOMAIN test.serviceConfigs
  \/ \E s \in DOMAIN test.additional :
       test.additional[s] \notin DOMAIN test.serviceConfigs

\* The next boot node can be added in every network with staking.
LEMMA BootNodeCanStart ==
  ASSUME IInv, stage \notin Early, bootNodes < N, test.isStaking
  PROVE  CanStart(BootService(bootNodes), BootConfig(bootNodes),
                  bootstrapperServiceIDs)
<1>1. bootNodes \in Nat
  BY BootServicesAdded, StakersType
<1>2. Cardinality(bootstrapperServiceIDs) = bootNodes
  BY <1>1, CountBootServices DEF bootstrapperServiceIDs
<1>3. bootstrapperServiceIDs \subseteq Running
  BY BootServicesAdded DEF IInv, TypeOK, Running
<1>4. BootService(bootNodes) \notin started
  BY BootServicesAdded
<1> QED
  BY <1>1, <1>2, <1>3, <1>4, NextBootConfigMatches DEF CanStart

\* So can a new service with a registered configuration.
LEMMA LaterCanStart ==
  ASSUME IInv, stage \notin Early, bootNodes = N, test.isStaking,
         NEW s, s \notin started, NEW c \in DOMAIN test.serviceConfigs
  PROVE  CanStart(s, c, GetAllBootServiceIDs)
<1>1. N \in Nat
  BY StakersType
<1>2. Cardinality(GetAllBootServiceIDs) = N
  BY <1>1, CountBootServices DEF GetAllBootServiceIDs, BootNumbers, N
<1>3. GetAllBootServiceIDs \subseteq Running
  BY BootServicesAdded DEF IInv, TypeOK, Running
<1>4. c \in DOMAIN configs
  BY DEF IInv, ConfigInv
<1>5. configs[c].bootIDs = Stakers
  <2>1. configs[c] = UserConfig(test.serviceConfigs[c])
    BY DEF IInv, ConfigInv
  <2> QED
    BY <2>1 DEF UserConfig
<1> QED
  BY <1>1, <1>2, <1>3, <1>4, <1>5 DEF CanStart, N

\* Only bad arguments make a step end in "failed".
LEMMA FailedMeansBadArguments ==
  ASSUME IInv, Next, stage' = "failed", stage # "failed"
  PROVE  BadArguments /\ test' = test
<1>1. \/ AddBootNodeFails
      \/ \E s \in Services : AddDesiredFails(s)
      \/ \E s \in Services : TestAddServiceFails(s)
  BY DEF Next, Kurtosis, Test, Nodes, NewTestCaminoNetworkLoader, GoTo,
         ConfigureNetwork, AddBootNode, AddDesired, NetworkInitialized,
         WaitForStartup, IsBootstrapped, NotYetUp, ServiceUp, StartupTimesOut,
         NetworkUp, TestAddsService, RemoveService, RemoveServiceFails, Bootstrap
<1>2. CASE AddBootNodeFails
  <2>1. ~CanStart(BootService(bootNodes), BootConfig(bootNodes),
                  bootstrapperServiceIDs)
    BY <1>2 DEF AddBootNodeFails, AddServiceFails, GoTo
  <2>2. stage \notin Early /\ bootNodes < N /\ test' = test
    BY <1>2 DEF AddBootNodeFails, AddingBootNodes, AddServiceFails, GoTo,
                constVars, Early, N
  <2> QED
    BY <2>1, <2>2, BootNodeCanStart DEF BadArguments
<1>3. ASSUME NEW s \in Services, AddDesiredFails(s) PROVE BadArguments /\ test' = test
  <2>1. stage \notin Early /\ bootNodes = N /\ test' = test /\ s \in toAdd
    BY <1>3 DEF AddDesiredFails, BootNodesAdded, AddServiceFails, GoTo,
                constVars, Early, N
  <2>2. ~CanStart(s, test.desired[s], GetAllBootServiceIDs)
    BY <1>3, <2>1, BootServicesAdded DEF AddDesiredFails, AddServiceFails, GoTo
  <2>3. s \in DOMAIN test.desired /\ s \notin started
    BY <2>1 DEF IInv, TypeOK, BootInv
  <2> QED
    BY <2>1, <2>2, <2>3, LaterCanStart DEF BadArguments
<1>4. ASSUME NEW s \in Services, TestAddServiceFails(s)
      PROVE  BadArguments /\ test' = test
  <2>1. /\ stage \notin Early /\ bootNodes = N /\ test' = test
        /\ s \in DOMAIN test.additional \ started
    BY <1>4 DEF TestAddServiceFails, AddServiceFails, GoTo, constVars, Early,
                IInv, BootInv
  <2>2. ~CanStart(s, test.additional[s], GetAllBootServiceIDs)
    BY <1>4 DEF TestAddServiceFails, AddServiceFails, GoTo
  <2> QED
    BY <2>1, <2>2, LaterCanStart DEF BadArguments
<1> QED
  BY <1>1, <1>2, <1>3, <1>4

LEMMA TestIsConstant == [Next]_vars => test' = test
  BY DEF Next, Kurtosis, Test, Nodes, NewTestCaminoNetworkLoader, GoTo,
         ConfigureNetwork, AddService, AddServiceFails,
         AddBootNode, AddBootNodeFails, AddDesired, AddDesiredFails,
         NetworkInitialized, WaitForStartup, IsBootstrapped, NotYetUp,
         ServiceUp, StartupTimesOut, NetworkUp, TestAddsService,
         TestAddServiceFails, RemoveService, RemoveServiceFails, Bootstrap,
         constVars, vars

\* However many stakers the genesis has, adding a service fails only for want
\* of staking or of a configuration, if the container starts: an ID is never
\* taken, a dependency never missing, and there are never more dependencies
\* than node IDs (camino_service_initializer_core.go:160).
THEOREM NetworkOnlyArgumentsFail == Spec => []OnlyArgumentsFail
<1> DEFINE Inv == IInv /\ OnlyArgumentsFail
<1>1. Init => Inv
  BY InitIInv DEF Init, OnlyArgumentsFail
<1>2. Inv /\ [Next]_vars => Inv'
  <2> SUFFICES ASSUME Inv, [Next]_vars PROVE Inv'
    OBVIOUS
  <2>1. IInv'
    BY NextKeeps
  <2>2. test' = test
    BY TestIsConstant
  <2>3. ASSUME stage' = "failed" PROVE BadArguments
    <3>1. CASE stage = "failed"
      BY <3>1 DEF OnlyArgumentsFail, BadArguments
    <3>2. CASE stage # "failed"
      BY <2>3, <3>2, FailedMeansBadArguments DEF vars
    <3> QED
      BY <3>1, <3>2
  <2> QED
    BY <2>1, <2>2, <2>3 DEF OnlyArgumentsFail, BadArguments
<1>3. Inv => OnlyArgumentsFail
  OBVIOUS
<1> QED
  BY <1>1, <1>2, <1>3, PTL DEF Spec

-----------------------------------------------------------------------------
(* What is up.                                                             *)

ChainIDs == {Chains[n] : n \in DOMAIN Chains}

\* Nobody bootstraps a chain before those it bootstraps from, and the chains
\* that were found ready are.
ReadyInv ==
  /\ \A s \in Services : \A chain \in bootstrapped[s] : \A b \in bootstrapIPs[s] :
       chain \in bootstrapped[b]
  /\ checking = None => asked = 0
  /\ checking # None => \A n \in 1..asked : Chains[n] \in bootstrapped[checking]
  /\ \A s \in ready : ChainIDs \subseteq bootstrapped[s]

\* Steps that leave the nodes and the checks alone, but for new services.
LEMMA NoCheckKeepsReady ==
  ASSUME TypeOK, ReadyInv,
         UNCHANGED <<bootstrapped, checking, asked, ready>>,
         \A s \in started : bootstrapIPs'[s] = bootstrapIPs[s]
  PROVE  ReadyInv'
<1>1. \A s \in Services : bootstrapped[s] # {} => s \in started
  BY DEF TypeOK
<1> QED
  BY <1>1 DEF ReadyInv

LEMMA AddServiceKeepsReady ==
  ASSUME TypeOK, ReadyInv, NEW s \in Services, NEW c, NEW deps,
         AddService(s, c, deps)
  PROVE  ReadyInv'
<1>1. \A t \in started : bootstrapIPs'[t] = bootstrapIPs[t]
  BY DEF AddService, CanStart, TypeOK
<1> QED
  BY <1>1, NoCheckKeepsReady DEF AddService

LEMMA CheckKeepsReady ==
  ASSUME TypeOK, ReadyInv,
         \/ \E s \in Services : WaitForStartup(s)
         \/ IsBootstrapped
         \/ NotYetUp
         \/ ServiceUp
  PROVE  ReadyInv'
<1> USE DEF serviceVars
<1>0. asked \in Nat
  BY DEF TypeOK
<1>1. CASE \E s \in Services : WaitForStartup(s)
  BY <1>1 DEF WaitForStartup, ReadyInv
<1>2. CASE IsBootstrapped
  <2>1. \A n \in 1..asked' : n \in 1..asked \/ n = asked + 1
    BY <1>0, <1>2 DEF IsBootstrapped
  <2> QED
    BY <1>2, <2>1 DEF IsBootstrapped, ReadyInv
<1>3. CASE NotYetUp
  BY <1>3 DEF NotYetUp, ReadyInv
<1>4. CASE ServiceUp
  <2>1. DOMAIN Chains = 1..3
    BY DEF Chains
  <2>2. ChainIDs \subseteq bootstrapped[checking]
    BY <1>4, <2>1 DEF ServiceUp, ReadyInv, ChainIDs
  <2> QED
    BY <1>4, <2>2 DEF ServiceUp, ReadyInv
<1> QED
  BY <1>1, <1>2, <1>3, <1>4

LEMMA BootstrapKeepsReady ==
  ASSUME TypeOK, ReadyInv, Nodes
  PROVE  ReadyInv'
<1>1. PICK s \in Services, i \in DOMAIN Chains : Bootstrap(s, Chains[i])
  BY DEF Nodes
<1>2. UNCHANGED <<bootstrapIPs, checking, asked, ready>>
  BY <1>1 DEF Bootstrap, serviceVars, checkVars
<1>3. \A t \in Services : bootstrapped[t] \subseteq bootstrapped'[t]
  BY <1>1 DEF Bootstrap, TypeOK
<1>4. bootstrapped'[s] = bootstrapped[s] \cup {Chains[i]}
  BY <1>1 DEF Bootstrap, TypeOK
<1>5. \A t \in Services : t # s => bootstrapped'[t] = bootstrapped[t]
  BY <1>1 DEF Bootstrap, TypeOK
<1>6. \A b \in bootstrapIPs[s] : Chains[i] \in bootstrapped[b]
  BY <1>1 DEF Bootstrap
<1>7. /\ \A t \in Services : bootstrapIPs[t] \subseteq Services
      /\ ready \subseteq Services
      /\ checking # None => checking \in Services
  BY DEF TypeOK, Services
<1>8. ASSUME NEW t \in Services, NEW chain \in bootstrapped'[t],
             NEW b \in bootstrapIPs[t]
      PROVE  chain \in bootstrapped'[b]
  <2>1. chain \in bootstrapped[b]
    BY <1>4, <1>5, <1>6, <1>8 DEF ReadyInv
  <2> QED
    BY <1>3, <1>7, <1>8, <2>1
<1> QED
  BY <1>2, <1>3, <1>7, <1>8 DEF ReadyInv

LEMMA NextKeepsReady == TypeOK /\ ReadyInv /\ [Next]_vars => ReadyInv'
<1> SUFFICES ASSUME TypeOK, ReadyInv, [Next]_vars PROVE ReadyInv'
  OBVIOUS
<1>1. CASE \E s \in Services : \E c, deps : AddService(s, c, deps)
  BY <1>1, AddServiceKeepsReady
<1>2. CASE \/ \E s \in Services : WaitForStartup(s)
           \/ IsBootstrapped
           \/ NotYetUp
           \/ ServiceUp
  BY <1>2, CheckKeepsReady
<1>3. CASE Nodes
  BY <1>3, BootstrapKeepsReady
<1>4. CASE UNCHANGED <<bootstrapped, checking, asked, ready, bootstrapIPs>>
  BY <1>4, NoCheckKeepsReady
<1>5. ASSUME AddBootNode PROVE \E s \in Services : \E c, deps : AddService(s, c, deps)
  <2>1. BootService(bootNodes) \in Services
    BY <1>5 DEF AddBootNode, AddingBootNodes, Services, GetAllBootServiceIDs,
                BootNumbers, TypeOK
  <2> QED
    BY <1>5, <2>1 DEF AddBootNode
<1>6. ASSUME NEW s \in Services, AddDesired(s) \/ TestAddsService(s)
      PROVE  \E t \in Services : \E c, deps : AddService(t, c, deps)
  BY <1>6 DEF AddDesired, TestAddsService
<1>7. ASSUME \/ NewTestCaminoNetworkLoader \/ ConfigureNetwork
             \/ AddBootNodeFails \/ \E s \in Services : AddDesiredFails(s)
             \/ NetworkInitialized \/ StartupTimesOut \/ NetworkUp
             \/ \E s \in Services : \/ TestAddServiceFails(s)
                                   \/ RemoveService(s)
                                   \/ RemoveServiceFails(s)
             \/ UNCHANGED vars
      PROVE  UNCHANGED <<bootstrapped, checking, asked, ready, bootstrapIPs>>
  BY <1>7 DEF NewTestCaminoNetworkLoader, ConfigureNetwork, AddBootNodeFails,
       AddDesiredFails, NetworkInitialized, StartupTimesOut, NetworkUp,
       TestAddServiceFails, RemoveService, RemoveServiceFails,
       AddServiceFails, GoTo, serviceVars, checkVars, vars
<1> QED
  BY <1>1, <1>2, <1>3, <1>4, <1>5, <1>6, <1>7 DEF Next, Kurtosis, Test

\* In every network a service that was found up has all its chains and so
\* have the boot nodes it depends on, although these were not asked
\* (camino_service_availability_checker_core.go:39-66).
THEOREM NetworkReadyMeansBootstrapped == Spec => []ReadyMeansBootstrapped
<1>1. Init => ReadyInv
  BY DEF Init, ReadyInv
<1>2. TypeOK /\ ReadyInv => ReadyMeansBootstrapped
  <2> SUFFICES ASSUME TypeOK, ReadyInv, NEW s \in ready,
                      NEW t \in {s} \cup bootstrapIPs[s], NEW i \in DOMAIN Chains
               PROVE  Chains[i] \in bootstrapped[t]
    BY DEF ReadyMeansBootstrapped
  <2>1. s \in Services /\ Chains[i] \in bootstrapped[s]
    BY DEF TypeOK, ReadyInv, ChainIDs
  <2> QED
    BY <2>1 DEF ReadyInv
<1> QED
  BY <1>1, <1>2, NextKeepsReady, NetworkTypeOK, PTL DEF Spec

-----------------------------------------------------------------------------
(* Who is who.                                                             *)

RandomID(n, key) == <<"random", n, key>>

\* A service that is no boot node has a key of its own.
IdentityInv ==
  /\ \A s \in started \ GetAllBootServiceIDs :
       \E n \in Nat, key \in 1..generated : nodeID[s] = RandomID(n, key)
  /\ \A s, t \in started \ GetAllBootServiceIDs : nodeID[s] = nodeID[t] => s = t

LEMMA AddServiceIdentity ==
  ASSUME IInv, NEW s \in Services, NEW c, NEW deps, AddService(s, c, deps)
  PROVE  /\ s \notin started /\ started' = started \cup {s}
         /\ nodeID'[s] = NodeID(configs[c])
         /\ \A t \in started : nodeID'[t] = nodeID[t]
         /\ generated' = IF configs[c].provider = "random" THEN generated + 1
                                                           ELSE generated
  BY DEF AddService, CanStart, IInv, TypeOK, BootInv

LEMMA SameIdentities ==
  ASSUME IdentityInv, UNCHANGED <<started, generated, nodeID>>
  PROVE  IdentityInv'
  BY DEF IdentityInv

LEMMA BootNodeIdentity ==
  ASSUME IInv, IdentityInv, AddBootNode
  PROVE  IdentityInv'
<1>1. /\ bootNodes < N /\ stage \notin Early
      /\ AddService(BootService(bootNodes), BootConfig(bootNodes),
                    bootstrapperServiceIDs)
  BY BootServicesAdded, StakersType DEF AddBootNode, AddingBootNodes, Early, N
<1>2. BootService(bootNodes) \in GetAllBootServiceIDs
  BY <1>1, BootServicesAdded
<1>3. /\ started' = started \cup {BootService(bootNodes)}
      /\ \A t \in started : nodeID'[t] = nodeID[t]
      /\ generated' = generated
  BY <1>1, <1>2, AddServiceIdentity, NextBootConfigMatches DEF Services
<1>4. started' \ GetAllBootServiceIDs = started \ GetAllBootServiceIDs
  BY <1>2, <1>3
<1> QED
  BY <1>3, <1>4 DEF IdentityInv

LEMMA LaterServiceIdentity ==
  ASSUME IInv, IdentityInv, stage \notin Early, bootNodes = N,
         NEW s \in Services, NEW c, AddService(s, c, GetAllBootServiceIDs)
  PROVE  IdentityInv'
<1>1. configs[c].provider = "random"
  BY LaterConfigMatches DEF AddService, CanStart
<1>2. generated \in Nat
  BY DEF IInv, TypeOK
<1>3. PICK n \in Nat : NodeID(configs[c]) = RandomID(n, generated + 1)
  BY <1>1, <1>2 DEF NodeID, GetCertAndKey, getServiceCert, SerialNumber, RandomID
<1>4. /\ started' = started \cup {s}
      /\ nodeID'[s] = RandomID(n, generated + 1)
      /\ \A t \in started : nodeID'[t] = nodeID[t]
      /\ generated' = generated + 1
  BY <1>1, <1>3, AddServiceIdentity
<1>5. generated + 1 \in 1..generated' /\ \A key \in 1..generated : key \in 1..generated'
  BY <1>2, <1>4
<1>6. ASSUME NEW t \in started' \ GetAllBootServiceIDs
      PROVE  \E m \in Nat, key \in 1..generated' : nodeID'[t] = RandomID(m, key)
  <2>1. CASE t = s
    BY <1>4, <1>5, <2>1
  <2>2. CASE t \in started
    BY <1>4, <1>5, <2>2 DEF IdentityInv
  <2> QED
    BY <1>4, <2>1, <2>2
<1>7. ASSUME NEW t \in started \ GetAllBootServiceIDs PROVE nodeID[t] # nodeID'[s]
  <2>1. PICK m \in Nat, key \in 1..generated : nodeID[t] = RandomID(m, key)
    BY DEF IdentityInv
  <2>2. key # generated + 1
    BY <1>2
  <2> QED
    BY <1>4, <2>1, <2>2 DEF RandomID
<1>8. ASSUME NEW t \in started' \ GetAllBootServiceIDs,
             NEW u \in started' \ GetAllBootServiceIDs, nodeID'[t] = nodeID'[u]
      PROVE  t = u
  <2>1. CASE t \in started /\ u \in started
    BY <1>4, <1>8, <2>1 DEF IdentityInv
  <2>2. CASE t \notin started \/ u \notin started
    BY <1>4, <1>7, <1>8, <2>2
  <2> QED
    BY <2>1, <2>2
<1> QED
  BY <1>6, <1>8 DEF IdentityInv

LEMMA NextIdentity == IInv /\ IdentityInv /\ [Next]_vars => IdentityInv'
<1> SUFFICES ASSUME IInv, IdentityInv, [Next]_vars PROVE IdentityInv'
  OBVIOUS
<1>1. CASE AddBootNode
  BY <1>1, BootNodeIdentity
<1>2. ASSUME NEW s \in Services, AddDesired(s) PROVE IdentityInv'
  <2>1. stage \notin Early /\ bootNodes = N
    BY <1>2 DEF AddDesired, BootNodesAdded, Early, N
  <2> QED
    BY <1>2, <2>1, BootServicesAdded, LaterServiceIdentity DEF AddDesired
<1>3. ASSUME NEW s \in Services, TestAddsService(s) PROVE IdentityInv'
  <2>1. stage \notin Early /\ bootNodes = N
    BY <1>3 DEF TestAddsService, Early, IInv, BootInv
  <2> QED
    BY <1>3, <2>1, LaterServiceIdentity DEF TestAddsService
<1>4. ASSUME \/ NewTestCaminoNetworkLoader \/ ConfigureNetwork
             \/ AddBootNodeFails \/ \E s \in Services : AddDesiredFails(s)
             \/ \E s \in Services : WaitForStartup(s)
             \/ IsBootstrapped \/ NotYetUp \/ ServiceUp \/ Nodes
             \/ NetworkInitialized \/ StartupTimesOut \/ NetworkUp
             \/ \E s \in Services : \/ TestAddServiceFails(s)
                                   \/ RemoveService(s)
                                   \/ RemoveServiceFails(s)
             \/ UNCHANGED vars
      PROVE  UNCHANGED <<started, generated, nodeID>>
  BY <1>4 DEF NewTestCaminoNetworkLoader, ConfigureNetwork, AddBootNodeFails,
       AddDesiredFails, WaitForStartup, IsBootstrapped, NotYetUp, ServiceUp,
       Nodes, Bootstrap, NetworkInitialized, StartupTimesOut, NetworkUp,
       TestAddServiceFails, RemoveService, RemoveServiceFails,
       AddServiceFails, GoTo, serviceVars, vars
<1> QED
  BY <1>1, <1>2, <1>3, <1>4, SameIdentities DEF Next, Kurtosis, Test

\* No two boot nodes, and no boot node and another service, have one ID.
LEMMA IdentitiesDiffer ==
  ASSUME IInv, IdentityInv, NEW s \in started, NEW t \in started,
         nodeID[s] = nodeID[t]
  PROVE  s = t
<1>1. ASSUME NEW u \in started \cap GetAllBootServiceIDs
      PROVE  \E i \in BootNumbers : u = BootService(i) /\ nodeID[u] = Stakers[i + 1]
  <2>1. PICK i \in 0..bootNodes - 1 : u = BootService(i)
    BY DEF IInv, BootInv, bootstrapperServiceIDs
  <2>2. i \in BootNumbers
    BY BootServicesAdded, StakersType DEF BootNumbers, N
  <2> QED
    BY <2>1, <2>2 DEF IInv, BootInv
<1>2. \A i \in BootNumbers : i \in Nat /\ i + 1 \in 1..Len(Stakers)
  BY StakersType DEF BootNumbers, N
<1>3. ASSUME NEW u \in started \cap GetAllBootServiceIDs,
             NEW v \in started \ GetAllBootServiceIDs
      PROVE  nodeID[u] # nodeID[v]
  <2>1. nodeID[u][1] # "random"
    BY <1>1, <1>2, StakersAssumption
  <2>2. nodeID[v][1] = "random"
    BY DEF IdentityInv, RandomID
  <2> QED
    BY <2>1, <2>2
<1>4. CASE s \in GetAllBootServiceIDs /\ t \in GetAllBootServiceIDs
  <2>1. PICK i \in BootNumbers : s = BootService(i) /\ nodeID[s] = Stakers[i + 1]
    BY <1>1, <1>4
  <2>2. PICK j \in BootNumbers : t = BootService(j) /\ nodeID[t] = Stakers[j + 1]
    BY <1>1, <1>4
  <2>3. i + 1 = j + 1
    BY <1>2, <2>1, <2>2, StakersAssumption
  <2>4. i = j
    BY <1>2, <2>3
  <2> QED
    BY <2>1, <2>2, <2>4
<1>5. CASE s \notin GetAllBootServiceIDs /\ t \notin GetAllBootServiceIDs
  BY <1>5 DEF IdentityInv
<1>6. CASE (s \in GetAllBootServiceIDs) # (t \in GetAllBootServiceIDs)
  BY <1>3, <1>6
<1> QED
  BY <1>4, <1>5, <1>6

\* In every network no two services have one node ID, whether their certs
\* vary or not: no staker's identity is given to another service
\* (random_gecko_cert_provider.go:71-102).
THEOREM NetworkNodeIDsDistinct == Spec => []NodeIDsDistinct
<1>1. Init => IdentityInv
  BY DEF Init, IdentityInv
<1>2. IInv /\ IdentityInv => NodeIDsDistinct
  BY IdentitiesDiffer DEF NodeIDsDistinct
<1> QED
  BY <1>1, <1>2, NextIdentity, SpecIInv, PTL DEF Spec
=============================================================================
