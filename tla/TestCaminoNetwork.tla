------------------------- MODULE TestCaminoNetwork -------------------------
(***************************************************************************)
(* A test network from its loader to its removal of a service: what        *)
(* NewTestCaminoNetworkLoader accepts, the configurations ConfigureNetwork *)
(* makes of the genesis stakers, the services InitializeNetwork and the    *)
(* test add, and the availability checks that decide when to go on.  The   *)
(* nodes start while services are still being added; a node is up on a     *)
(* chain only after the nodes it bootstraps from are, and it trusts these  *)
(* only under the node IDs it was given.                                   *)
(*                                                                         *)
(* An ID is a pair of its prefix and the rest.                             *)
(***************************************************************************)
EXTENDS Integers, Sequences, FiniteSets

CONSTANTS
  Stakers,   \* the node IDs of DefaultLocalNetGenesisConfig.Stakers
  Tests,     \* what the tests ask for, see TestAssumption
  FaultSets  \* which of "start", "stop", "call" and "timeout" may happen

bootNodeConfigIDPrefix == "boot-node-config-"
bootNodeServiceIDPrefix == "boot-node-"

\* What begins with the longer prefix begins with the shorter one.
HasPrefix(id, prefix) ==
  \/ id[1] = prefix
  \/ id[1] = bootNodeConfigIDPrefix /\ prefix = bootNodeServiceIDPrefix

BootConfig(i) == <<bootNodeConfigIDPrefix, i>>
BootService(i) == <<bootNodeServiceIDPrefix, i>>

BootNumbers == 0..Len(Stakers) - 1
GetAllBootServiceIDs == {BootService(i) : i \in BootNumbers}

\* The stakers' node IDs are all different, and none is that of a cert which
\* is generated while the tests run.
ASSUME StakersAssumption ==
  /\ Stakers \in Seq({Stakers[i] : i \in DOMAIN Stakers})
  /\ \A i, j \in 1..Len(Stakers) : Stakers[i] = Stakers[j] => i = j
  /\ \A i \in 1..Len(Stakers) : Stakers[i][1] # "random"

\* serviceConfigs says of each configuration whether its certs vary; desired
\* and additional give each service its configuration.  A test adds services
\* under names of its own.
ASSUME TestAssumption ==
  \A t \in Tests :
    /\ t.isStaking \in BOOLEAN
    /\ \A c \in DOMAIN t.serviceConfigs : t.serviceConfigs[c] \in BOOLEAN
    /\ DOMAIN t.desired \cap DOMAIN t.additional = {}
    /\ \A s \in DOMAIN t.additional : ~HasPrefix(s, bootNodeServiceIDPrefix)

ASSUME FaultAssumption == FaultSets \subseteq SUBSET {"start", "stop", "call", "timeout"}

Services ==
  GetAllBootServiceIDs
    \cup UNION {DOMAIN t.desired \cup DOMAIN t.additional : t \in Tests}

Chains == <<"P", "C", "X">>  \* in the order IsServiceUp asks for them

VARIABLES
  test,         \* the test, one of Tests
  faults,       \* what may happen in this behaviour, one of FaultSets
  stage,        \* where the loader or the test is
  configs,      \* the configurations of the network
  bootNodes,    \* how many boot nodes have been added
  toAdd,        \* the desired services that have not been added
  started,      \* the services that have been started
  removed,      \* those of them that have been removed
  generated,    \* how many keys GetCertAndKey has generated
  nodeID,       \* the node ID of each service, which its cert decides
  bootstrapIDs, \* its --bootstrap-ids
  bootstrapIPs, \* its --bootstrap-ips, as the services they belong to
  bootstrapped, \* the chains it has bootstrapped
  unchecked,    \* services whose availability has not been waited for
  checking,     \* the service being waited for, if any
  asked,        \* how many chains this call of IsServiceUp found ready
  ready         \* the services found to be up

serviceVars ==
  <<started, removed, generated, nodeID, bootstrapIDs, bootstrapIPs>>
checkVars == <<unchecked, checking, asked, ready>>
constVars == <<test, faults>>
loaderVars == <<configs, bootNodes, toAdd>>
vars == <<constVars, stage, loaderVars, serviceVars, bootstrapped, checkVars>>

None == <<"none">>

Init ==
  /\ test \in Tests
  /\ faults \in FaultSets
  /\ stage = "new"
  /\ configs = << >>
  /\ bootNodes = 0
  /\ toAdd = DOMAIN test.desired
  /\ started = {}
  /\ removed = {}
  /\ generated = 0
  /\ nodeID = [s \in Services |-> None]
  /\ bootstrapIDs = [s \in Services |-> << >>]
  /\ bootstrapIPs = [s \in Services |-> {}]
  /\ bootstrapped = [s \in Services |-> {}]
  /\ unchecked = {}
  /\ checking = None
  /\ asked = 0
  /\ ready = {}

-----------------------------------------------------------------------------
(* Faulty variants of the definitions below.                               *)

\* Does not look at the service IDs.
ReservedConfigsOnly(t) ==
  \E c \in DOMAIN t.serviceConfigs : HasPrefix(c, bootNodeConfigIDPrefix)

\* The node IDs of the boot nodes after the first.
BootNodeIDsShifted(i) == SubSeq(Stakers, 2, i + 1)

\* One key for all the services of a provider.
GetCertAndKeyCached(vary, key) == <<"random", 0, 0>>

\* Passes over the node IDs of the last boot node.
BootNodeIDsShort(i) == SubSeq(Stakers, 1, i - 1)

\* Forgets that the X chain comes last.
ServiceUpTooSoon ==
  /\ stage \in {"startup", "test"}
  /\ checking # None
  /\ asked = 2
  /\ ready' = ready \cup {checking}
  /\ checking' = None
  /\ asked' = 0
  /\ UNCHANGED <<constVars, stage, loaderVars, serviceVars, bootstrapped,
                 unchecked>>

\* Forgets the checker of a service instead of waiting with it.
WaitForStartupForgotten(s) ==
  /\ stage \in {"startup", "test"}
  /\ checking = None
  /\ s \in unchecked
  /\ unchecked' = unchecked \ {s}
  /\ UNCHANGED <<constVars, stage, loaderVars, serviceVars, bootstrapped,
                 checking, asked, ready>>

\* Removes any service that is up.
RemoveServiceAny(s) ==
  /\ stage = "test"
  /\ checking = None
  /\ s \in ready \ removed
  /\ removed' = removed \cup {s}
  /\ UNCHANGED <<constVars, stage, loaderVars, started, generated, nodeID,
                 bootstrapIDs, bootstrapIPs, bootstrapped, checkVars>>

-----------------------------------------------------------------------------
(* The loader's arguments and configurations.                              *)

Reserved(t) ==
  \/ \E c \in DOMAIN t.serviceConfigs : HasPrefix(c, bootNodeConfigIDPrefix)
  \/ \E s \in DOMAIN t.desired : HasPrefix(s, bootNodeServiceIDPrefix)

GoTo(next) ==
  /\ stage' = next
  /\ UNCHANGED <<constVars, loaderVars, serviceVars, bootstrapped, checkVars>>

NewTestCaminoNetworkLoader ==
  /\ stage = "new"
  /\ GoTo(IF Reserved(test) THEN "refused" ELSE "configure")

\* The node IDs of the boot nodes before boot node i.
BootNodeIDs(i) == SubSeq(Stakers, 1, i)

\* A boot node has the cert and key of its staker; vary is not used then.
BootNodeConfig(i) ==
  [provider |-> "static", staker |-> i + 1, vary |-> FALSE,
   bootIDs |-> BootNodeIDs(i)]

UserConfig(vary) ==
  [provider |-> "random", staker |-> 0, vary |-> vary, bootIDs |-> Stakers]

ConfigureNetwork ==
  /\ stage = "configure"
  /\ configs' =
       [c \in {BootConfig(i) : i \in BootNumbers} \cup DOMAIN test.serviceConfigs |->
          IF HasPrefix(c, bootNodeConfigIDPrefix)
            THEN BootNodeConfig(c[2])
            ELSE UserConfig(test.serviceConfigs[c])]
  /\ stage' = "bootNodes"
  /\ UNCHANGED <<constVars, bootNodes, toAdd, serviceVars, bootstrapped,
                 checkVars>>

-----------------------------------------------------------------------------
(* Adding a service.                                                       *)

Running == started \ removed

\* NewRandomCaminoCertProvider draws the first serial number, a call the next
\* one if certs vary; the numbers are as good as those of the keys.
SerialNumber(vary, key) == IF vary THEN key ELSE 0

\* What distinguishes two certs, and the node IDs made of them.
getServiceCert(serialNumber, key) == <<"random", serialNumber, key>>

\* A new key on every call.
GetCertAndKey(vary, key) == getServiceCert(SerialNumber(vary, key), key)

\* The static provider's is the staker's, and so is the node ID.
StaticCertAndKey(staker) == Stakers[staker]

NodeID(config) ==
  IF config.provider = "static" THEN StaticCertAndKey(config.staker)
                                ELSE GetCertAndKey(config.vary, generated + 1)

\* InitializeMountedFiles writes the cert to a file that there is only when
\* staking is enabled; GetStartCommand counts the dependencies.
CanStart(serviceID, configID, dependencies) ==
  /\ serviceID \notin started
  /\ configID \in DOMAIN configs
  /\ dependencies \subseteq Running
  /\ test.isStaking
  /\ Cardinality(dependencies) <= Len(configs[configID].bootIDs)

AddService(serviceID, configID, dependencies) ==
  /\ CanStart(serviceID, configID, dependencies)
  /\ started' = started \cup {serviceID}
  /\ nodeID' = [nodeID EXCEPT ![serviceID] = NodeID(configs[configID])]
  /\ generated' = IF configs[configID].provider = "random" THEN generated + 1
                                                           ELSE generated
  /\ bootstrapIDs' = [bootstrapIDs EXCEPT ![serviceID] = configs[configID].bootIDs]
  /\ bootstrapIPs' = [bootstrapIPs EXCEPT ![serviceID] = dependencies]
  /\ unchecked' = unchecked \cup {serviceID}
  /\ UNCHANGED <<constVars, configs, removed, bootstrapped, checking, asked,
                 ready>>

AddServiceFails(serviceID, configID, dependencies) ==
  /\ "start" \in faults \/ ~CanStart(serviceID, configID, dependencies)
  /\ GoTo(IF CanStart(serviceID, configID, dependencies) THEN "startFailed"
                                                         ELSE "failed")

-----------------------------------------------------------------------------
(* InitializeNetwork.                                                      *)

AddingBootNodes == stage = "bootNodes" /\ bootNodes < Len(Stakers)

\* The boot nodes added before this one.
bootstrapperServiceIDs == {BootService(i) : i \in 0..bootNodes - 1}

AddBootNode ==
  /\ AddingBootNodes
  /\ AddService(BootService(bootNodes), BootConfig(bootNodes),
                bootstrapperServiceIDs)
  /\ bootNodes' = bootNodes + 1
  /\ UNCHANGED <<stage, toAdd>>

AddBootNodeFails ==
  /\ AddingBootNodes
  /\ AddServiceFails(BootService(bootNodes), BootConfig(bootNodes),
                     bootstrapperServiceIDs)

BootNodesAdded == stage = "bootNodes" /\ bootNodes = Len(Stakers)

\* The desired services are a map: they are added in any order.
AddDesired(s) ==
  /\ BootNodesAdded
  /\ s \in toAdd
  /\ AddService(s, test.desired[s], bootstrapperServiceIDs)
  /\ toAdd' = toAdd \ {s}
  /\ UNCHANGED <<stage, bootNodes>>

AddDesiredFails(s) ==
  /\ BootNodesAdded
  /\ s \in toAdd
  /\ AddServiceFails(s, test.desired[s], bootstrapperServiceIDs)

NetworkInitialized ==
  /\ BootNodesAdded
  /\ toAdd = {}
  /\ GoTo("startup")

-----------------------------------------------------------------------------
(* Waiting for a service, and the test.                                    *)

WaitForStartup(s) ==
  /\ stage \in {"startup", "test"}
  /\ checking = None
  /\ s \in unchecked
  /\ unchecked' = unchecked \ {s}
  /\ checking' = s
  /\ UNCHANGED <<constVars, stage, loaderVars, serviceVars,
                 bootstrapped, asked, ready>>

IsBootstrapped ==
  /\ stage \in {"startup", "test"}
  /\ checking # None
  /\ asked < 3
  /\ Chains[asked + 1] \in bootstrapped[checking]
  /\ asked' = asked + 1
  /\ UNCHANGED <<constVars, stage, loaderVars, serviceVars,
                 bootstrapped, unchecked, checking, ready>>

\* IsServiceUp returns false, also when it gets no answer; it will be called
\* again, and begin again.
NotYetUp ==
  /\ stage \in {"startup", "test"}
  /\ checking # None
  /\ asked < 3
  /\ "call" \in faults \/ Chains[asked + 1] \notin bootstrapped[checking]
  /\ asked' = 0
  /\ UNCHANGED <<constVars, stage, loaderVars, serviceVars,
                 bootstrapped, unchecked, checking, ready>>

ServiceUp ==
  /\ stage \in {"startup", "test"}
  /\ checking # None
  /\ asked = 3
  /\ ready' = ready \cup {checking}
  /\ checking' = None
  /\ asked' = 0
  /\ UNCHANGED <<constVars, stage, loaderVars, serviceVars,
                 bootstrapped, unchecked>>

StartupTimesOut ==
  /\ "timeout" \in faults
  /\ stage \in {"startup", "test"}
  /\ checking # None
  /\ GoTo("timedOut")

NetworkUp ==
  /\ stage = "startup"
  /\ unchecked = {}
  /\ checking = None
  /\ GoTo("test")

\* The test adds a service, and makes it depend on all the boot nodes.
TestAddsService(s) ==
  /\ stage = "test"
  /\ checking = None
  /\ s \in DOMAIN test.additional \ started
  /\ AddService(s, test.additional[s], GetAllBootServiceIDs)
  /\ UNCHANGED <<stage, bootNodes, toAdd>>

TestAddServiceFails(s) ==
  /\ stage = "test"
  /\ checking = None
  /\ s \in DOMAIN test.additional \ started
  /\ AddServiceFails(s, test.additional[s], GetAllBootServiceIDs)

\* The test removes a service it has added and waited for.
RemoveService(s) ==
  /\ stage = "test"
  /\ checking = None
  /\ s \in (DOMAIN test.additional \cap ready) \ removed
  /\ removed' = removed \cup {s}
  /\ UNCHANGED <<constVars, stage, loaderVars, started, generated, nodeID,
                 bootstrapIDs, bootstrapIPs, bootstrapped, checkVars>>

RemoveServiceFails(s) ==
  /\ "stop" \in faults
  /\ stage = "test"
  /\ checking = None
  /\ s \in (DOMAIN test.additional \cap ready) \ removed
  /\ GoTo("stopFailed")

-----------------------------------------------------------------------------
(* The nodes, which this repository only starts.                           *)

BootstrapperIDs(s) == {bootstrapIDs[s][i] : i \in DOMAIN bootstrapIDs[s]}

\* A node bootstraps a chain from the nodes it was told to, when these have
\* it and are who it was told they are.
Bootstrap(s, chain) ==
  /\ s \in Running
  /\ chain \notin bootstrapped[s]
  /\ \A b \in bootstrapIPs[s] :
       nodeID[b] \in BootstrapperIDs(s) /\ chain \in bootstrapped[b]
  /\ bootstrapped' = [bootstrapped EXCEPT ![s] = @ \cup {chain}]
  /\ UNCHANGED <<constVars, stage, loaderVars, serviceVars, checkVars>>

Nodes == \E s \in Services, i \in DOMAIN Chains : Bootstrap(s, Chains[i])

Kurtosis ==
  \/ NewTestCaminoNetworkLoader
  \/ ConfigureNetwork
  \/ AddBootNode
  \/ AddBootNodeFails
  \/ \E s \in Services : AddDesired(s) \/ AddDesiredFails(s) \/ WaitForStartup(s)
  \/ NetworkInitialized
  \/ IsBootstrapped
  \/ NotYetUp
  \/ ServiceUp
  \/ StartupTimesOut
  \/ NetworkUp

Test ==
  \E s \in Services :
    \/ TestAddsService(s)
    \/ TestAddServiceFails(s)
    \/ RemoveService(s)
    \/ RemoveServiceFails(s)

Next == Kurtosis \/ Test \/ Nodes

\* The loader and the waits go on by themselves, and so do the nodes; a test
\* adds and removes services as it likes.
Spec ==
  /\ Init
  /\ [][Next]_vars
  /\ WF_vars(Kurtosis)
  /\ WF_vars(Nodes)

-----------------------------------------------------------------------------
(* Properties.                                                             *)

Stages == {"new", "refused", "configure", "bootNodes", "startup", "test",
           "failed", "startFailed", "timedOut", "stopFailed"}

\* The network's records keep their shape: only a started service is
\* removed, bootstrapped, waited for or found up, and a service bootstraps
\* from boot nodes that run (camino_network.go:255-346).
TypeOK ==
  /\ test \in Tests
  /\ faults \in FaultSets
  /\ stage \in Stages
  /\ bootNodes \in 0..Len(Stakers)
  /\ toAdd \subseteq DOMAIN test.desired
  /\ started \subseteq Services
  /\ removed \subseteq started \ GetAllBootServiceIDs
  /\ generated \in Nat
  /\ bootstrapIPs \in [Services -> SUBSET (GetAllBootServiceIDs \cap started)]
  /\ bootstrapped \in [Services -> SUBSET {Chains[i] : i \in DOMAIN Chains}]
  /\ \A s \in Services \ started : bootstrapped[s] = {}
  /\ unchecked \subseteq started
  /\ checking \in started \cup {None}
  /\ asked \in 0..3
  /\ ready \subseteq started

\* The node IDs a service is told to trust are those of the nodes it is told
\* to contact, no more and no fewer: the configurations are cut from the
\* genesis before any node runs, the addresses are collected while the nodes
\* are added (camino_network.go:279 and 322-343, and 67-74 for later ones).
BootstrapIDsMatch ==
  \A s \in started : BootstrapperIDs(s) = {nodeID[b] : b \in bootstrapIPs[s]}

\* The configuration a service was started with.
ConfigID(s) ==
  IF s \in GetAllBootServiceIDs THEN BootConfig(s[2])
  ELSE IF s \in DOMAIN test.desired THEN test.desired[s]
  ELSE test.additional[s]

\* No two services have one node ID, unless they share a configuration whose
\* certs do not vary: no staker's identity is given to another service
\* (random_gecko_cert_provider.go:71-102).
NodeIDsDistinct ==
  \A s, t \in started :
    s # t /\ nodeID[s] = nodeID[t] =>
      ConfigID(s) = ConfigID(t) /\ ~configs[ConfigID(s)].vary

\* Adding a service is refused only because of what the test asked for: a
\* network without staking, or a configuration it did not register.  An ID is
\* never taken, a dependency never missing, and there are never more
\* dependencies than boot node IDs (camino_service_initializer_core.go:160).
OnlyArgumentsFail ==
  stage = "failed" =>
    \/ ~test.isStaking
    \/ \E s \in DOMAIN test.desired :
         test.desired[s] \notin DOMAIN test.serviceConfigs
    \/ \E s \in DOMAIN test.additional :
         test.additional[s] \notin DOMAIN test.serviceConfigs

\* A service that was found up has all its chains, and so have the nodes it
\* bootstrapped from: IsServiceUp does "intentionally" not check them
\* (camino_service_availability_checker_core.go:39-66).
ReadyMeansBootstrapped ==
  \A s \in ready : \A t \in {s} \cup bootstrapIPs[s] :
    \A i \in DOMAIN Chains : Chains[i] \in bootstrapped[t]

\* What a test asks for can be given to it.
Sound(t) ==
  /\ t.isStaking
  /\ ~Reserved(t)
  /\ \A s \in DOMAIN t.desired : t.desired[s] \in DOMAIN t.serviceConfigs

\* If no container fails to start and no wait times out, every sound network
\* comes up: nobody waits for a node that waits for him.
NetworkComesUp == faults = {} /\ Sound(test) => <>(stage = "test" /\ unchecked = {})

\* Services that are started later are found up too, unless the test ends: in
\* the end there is none that was started and is still waited for.
StartedGetsReady ==
  faults = {} => <>[](started \subseteq ready \/ stage = "failed")

\* "false to yield the same randomly-generated cert each time"
\* (random_gecko_cert_provider.go:58).
SameCertMeansSameID ==
  \A s, t \in started \cap DOMAIN test.additional :
    /\ test.additional[s] = test.additional[t]
    /\ test.serviceConfigs[test.additional[s]] = FALSE
    => nodeID[s] = nodeID[t]
=============================================================================
