---------------------------- MODULE MacAppProofs -----------------------------
(***************************************************************************)
(* The safety properties of MacApp for any devices, any number of          *)
(* discoveries on their way and any number of self tests.                  *)
(***************************************************************************)
EXTENDS MacApp, TLAPS

-----------------------------------------------------------------------------
(* The two queues.                                                         *)

LEMMA TypeInit == Init => TypeOK
<1> SUFFICES ASSUME Init PROVE TypeOK
  OBVIOUS
<1>1. MaxRuns \in Nat /\ 1 \in 1 .. MaxRuns
  BY MacAppAssumption
<1>2. /\ discoveredPeers \in Seq(DiscoveredPeer) /\ reports \subseteq DiscoveredPeer
      /\ posted \in Seq(1 .. started) /\ DOMAIN posted = {}
  BY DEF Init
<1>3. started \in 1 .. MaxRuns /\ running \subseteq 1 .. started /\ selfTestSteps \in 0 .. started
  BY <1>1 DEF Init
<1> QED
  BY <1>2, <1>3 DEF Init, TypeOK

LEMMA ListedType ==
    ASSUME discoveredPeers \in Seq(DiscoveredPeer), NEW peer \in DiscoveredPeer
    PROVE  Listed(peer) \in Seq(DiscoveredPeer)
<1> DEFINE places == {i \in DOMAIN discoveredPeers : discoveredPeers[i].id = peer.id}
           index  == CHOOSE i \in places : \A j \in places : i <= j
<1>1. CASE places = {}
  BY <1>1 DEF Listed
<1>2. CASE places # {}
  <2>1. Listed(peer) = [discoveredPeers EXCEPT ![index] = peer]
    BY <1>2 DEF Listed
  <2>2. PICK k : k = index
    OBVIOUS
  <2>3. Listed(peer) = [discoveredPeers EXCEPT ![k] = peer]
    BY <2>1, <2>2
  <2> HIDE DEF index, places
  <2>4. CASE k \in DOMAIN discoveredPeers
    BY <2>3, <2>4
  <2>5. CASE k \notin DOMAIN discoveredPeers
    <3>1. Listed(peer) = discoveredPeers
      BY <2>3, <2>5
    <3> QED
      BY <3>1
  <2> QED
    BY <2>4, <2>5
<1> QED
  BY <1>1, <1>2

LEMMA TypeNext == TypeOK /\ [Next]_vars => TypeOK'
<1> SUFFICES ASSUME TypeOK, [Next]_vars PROVE TypeOK'
  OBVIOUS
<1>1. CASE UNCHANGED vars
  BY <1>1 DEF vars, coreBluetooth, manager, selfTest, TypeOK
<1>2. CASE RadioChanges
  BY <1>2 DEF RadioChanges, manager, selfTest, TypeOK
<1>3. CASE Discover
  BY <1>3 DEF Discover, manager, selfTest, TypeOK
<1>4. CASE AdvertisingButton
  <2>1. advertising' \in BOOLEAN /\ isAdvertising' \in BOOLEAN
    BY <1>4 DEF AdvertisingButton, startAdvertising, stopAdvertising
  <2> QED
    BY <1>4, <2>1 DEF AdvertisingButton, selfTest, TypeOK
<1>5. CASE ScanningButton
  <2>1. scanning' \in BOOLEAN /\ isScanning' \in BOOLEAN
    BY <1>5 DEF ScanningButton, startScanning, stopScanning
  <2>2. discoveredPeers' \in Seq(DiscoveredPeer)
    <3>1. discoveredPeers' = <<>> \/ discoveredPeers' = discoveredPeers
      BY <1>5 DEF ScanningButton, startScanning, stopScanning
    <3>2. discoveredPeers \in Seq(DiscoveredPeer)
      BY DEF TypeOK
    <3>3. <<>> \in Seq(DiscoveredPeer)
      OBVIOUS
    <3> QED
      BY <3>1, <3>2, <3>3
  <2> QED
    BY <1>5, <2>1, <2>2 DEF ScanningButton, selfTest, TypeOK
<1>6. CASE peripheralManagerDidUpdateState
  BY <1>6 DEF peripheralManagerDidUpdateState, selfTest, TypeOK
<1>7. CASE centralManagerDidUpdateState
  BY <1>7 DEF centralManagerDidUpdateState, selfTest, TypeOK
<1>8. CASE didDiscover
  BY <1>8, ListedType DEF didDiscover, selfTest, TypeOK
<1>9. CASE runSelfTest
  <2>1. /\ started \in Nat /\ started' = started + 1 /\ started' \in 1 .. MaxRuns
        /\ running' = running \cup {started'} /\ running \subseteq 1 .. started
        /\ posted \in Seq(1 .. started) /\ posted' = posted
        /\ UNCHANGED <<coreBluetooth, manager, selfTestSteps>> /\ selfTestRan' = FALSE
    BY <1>9, MacAppAssumption DEF runSelfTest, TypeOK
  <2>2. running' \subseteq 1 .. started' /\ posted \in Seq(1 .. started')
    BY <2>1
  <2>3. \A i \in DOMAIN posted : posted[i] \notin running'
    <3>1. \A i \in DOMAIN posted : posted[i] \in 1 .. started
      BY <2>1
    <3>2. \A i \in DOMAIN posted : posted[i] \notin running
      BY DEF TypeOK
    <3> QED
      BY <2>1, <3>1, <3>2
  <2>4. selfTestSteps' \in 0 .. started'
    BY <2>1 DEF TypeOK
  <2> QED
    BY <2>1, <2>2, <2>3, <2>4 DEF TypeOK, coreBluetooth, manager
<1>10. ASSUME NEW n \in 1 .. MaxRuns, SelfTestEnds(n) PROVE TypeOK'
  BY <1>10, MacAppAssumption DEF SelfTestEnds, coreBluetooth, manager, TypeOK
<1>11. CASE ShowSteps
  BY <1>11, MacAppAssumption DEF ShowSteps, coreBluetooth, manager, TypeOK
<1> QED
  BY <1>1, <1>2, <1>3, <1>4, <1>5, <1>6, <1>7, <1>8, <1>9, <1>10, <1>11 DEF Next

\* Every variable keeps its type, and a self test whose result waits is over.
THEOREM TypeCorrect == Spec => []TypeOK
BY TypeInit, TypeNext, PTL DEF Spec

\* The spinner is never left without a self test that will take it away.
THEOREM SpinnerIsTrue == Spec => []SpinnerMeansRunning
<1>1. Init => SpinnerMeansRunning
  BY DEF Init, SpinnerMeansRunning
<1>2. ASSUME TypeOK, SpinnerMeansRunning, [Next]_vars PROVE SpinnerMeansRunning'
  <2>1. CASE UNCHANGED selfTest
    BY <1>2, <2>1 DEF selfTest, SpinnerMeansRunning
  <2>2. CASE runSelfTest
    BY <2>2 DEF runSelfTest, SpinnerMeansRunning
  <2>3. ASSUME NEW n \in 1 .. MaxRuns, SelfTestEnds(n) PROVE posted' # <<>>
    BY <1>2, <2>3 DEF SelfTestEnds, TypeOK
  <2>4. CASE ShowSteps
    BY <2>4 DEF ShowSteps, SpinnerMeansRunning
  <2> QED
    BY <1>2, <2>1, <2>2, <2>3, <2>4 DEF Next, vars, RadioChanges, Discover, AdvertisingButton,
       ScanningButton, peripheralManagerDidUpdateState, centralManagerDidUpdateState, didDiscover,
       SpinnerMeansRunning
<1> QED
  BY <1>1, <1>2, TypeCorrect, PTL DEF Spec
-----------------------------------------------------------------------------
(* The list of peers.                                                      *)

LEMMA ListedKeepsIds ==
    ASSUME discoveredPeers \in Seq(DiscoveredPeer), ListedOnce, NEW peer \in DiscoveredPeer,
           discoveredPeers' = Listed(peer)
    PROVE  ListedOnce'
<1> DEFINE places == {i \in DOMAIN discoveredPeers : discoveredPeers[i].id = peer.id}
           index  == CHOOSE i \in places : \A j \in places : i <= j
<1>1. CASE places = {}
  <2>1. discoveredPeers' = Append(discoveredPeers, peer)
    BY <1>1 DEF Listed
  <2> QED
    BY <1>1, <2>1 DEF ListedOnce
<1>2. CASE places # {}
  <2>1. discoveredPeers' = [discoveredPeers EXCEPT ![index] = peer]
    BY <1>2 DEF Listed
  <2>2. PICK k \in DOMAIN discoveredPeers : discoveredPeers[k].id = peer.id
    BY <1>2
  <2>3. places = {k}
    BY <2>2 DEF ListedOnce
  <2>4. k \in Nat
    BY <2>2
  <2>5. index = k
    BY <2>3, <2>4
  <2> HIDE DEF places, index
  <2> QED
    BY <2>1, <2>2, <2>5 DEF ListedOnce
<1> QED
  BY <1>1, <1>2

\* No device is listed twice.
THEOREM ListIsUnique == Spec => []ListedOnce
<1>1. Init => ListedOnce
  BY DEF Init, ListedOnce
<1>2. ASSUME TypeOK, ListedOnce, [Next]_vars PROVE ListedOnce'
  <2>1. CASE UNCHANGED discoveredPeers
    BY <1>2, <2>1 DEF ListedOnce
  <2>2. CASE discoveredPeers' = <<>>
    BY <2>2 DEF ListedOnce
  <2>3. CASE didDiscover
    BY <1>2, <2>3, ListedKeepsIds DEF didDiscover, TypeOK
  <2> QED
    BY <1>2, <2>1, <2>2, <2>3 DEF Next, vars, manager, RadioChanges, Discover, AdvertisingButton,
       ScanningButton, startScanning, stopScanning, peripheralManagerDidUpdateState,
       centralManagerDidUpdateState, runSelfTest, SelfTestEnds, ShowSteps
<1> QED
  BY <1>1, <1>2, TypeCorrect, PTL DEF Spec
-----------------------------------------------------------------------------
(* What is shown and what CoreBluetooth does.                              *)

\* What goes on needs the radio, and a manager that has reported knows it.
ManagerInv ==
    /\ advertising => radio = On
    /\ scanning => radio = On
    /\ "peripheral" \notin unseen => peripheral = radio
    /\ "central" \notin unseen => central = radio

LEMMA ManagerInvariance == Spec => []ManagerInv
<1>1. Init => ManagerInv
  BY DEF Init, ManagerInv
<1>2. ASSUME ManagerInv, [Next]_vars PROVE ManagerInv'
  <2>1. CASE UNCHANGED <<radio, scanning, advertising, unseen, central, peripheral>>
    BY <1>2, <2>1 DEF ManagerInv
  <2>2. CASE RadioChanges
    BY <2>2 DEF RadioChanges, ManagerInv
  <2>3. CASE AdvertisingButton
    BY <1>2, <2>3 DEF AdvertisingButton, startAdvertising, stopAdvertising, ManagerInv
  <2>4. CASE ScanningButton
    BY <1>2, <2>4 DEF ScanningButton, startScanning, stopScanning, ManagerInv
  <2>5. CASE peripheralManagerDidUpdateState
    BY <1>2, <2>5 DEF peripheralManagerDidUpdateState, ManagerInv
  <2>6. CASE centralManagerDidUpdateState
    BY <1>2, <2>6 DEF centralManagerDidUpdateState, ManagerInv
  <2> QED
    BY <1>2, <2>1, <2>2, <2>3, <2>4, <2>5, <2>6 DEF Next, vars, coreBluetooth, manager, Discover,
       didDiscover, runSelfTest, SelfTestEnds, ShowSteps
<1> QED
  BY <1>1, <1>2, PTL DEF Spec

\* Nothing goes on that is not shown, in any order of switch, buttons and
\* reports and for any states of the radio.
THEOREM NothingIsHidden == Spec => []NothingHidden
<1>1. Init => NothingHidden
  BY DEF Init, NothingHidden
<1>2. ASSUME ManagerInv, NothingHidden, [Next]_vars PROVE NothingHidden'
  <2>1. CASE UNCHANGED <<scanning, advertising, isScanning, isAdvertising>>
    BY <1>2, <2>1 DEF NothingHidden
  <2>2. CASE RadioChanges
    BY <2>2 DEF RadioChanges, NothingHidden
  <2>3. CASE AdvertisingButton
    BY <1>2, <2>3 DEF AdvertisingButton, startAdvertising, stopAdvertising, NothingHidden
  <2>4. CASE ScanningButton
    BY <1>2, <2>4 DEF ScanningButton, startScanning, stopScanning, NothingHidden
  <2>5. CASE peripheralManagerDidUpdateState
    BY <1>2, <2>5 DEF peripheralManagerDidUpdateState, NothingHidden, ManagerInv, On
  <2> QED
    BY <1>2, <2>1, <2>2, <2>3, <2>4, <2>5 DEF Next, vars, coreBluetooth, manager, Discover,
       centralManagerDidUpdateState, didDiscover, runSelfTest, SelfTestEnds, ShowSteps
<1> QED
  BY <1>1, <1>2, ManagerInvariance, PTL DEF Spec

\* Once the peripheral manager has told that Bluetooth is off, no advertisement
\* is shown, however fast it was switched before, whatever states the radio has
\* and whatever button was pressed between the reports of the two managers.
THEOREM OffShown == Spec => []OffIsShown
<1>1. Init => OffIsShown
  BY DEF Init, OffIsShown
<1>2. ASSUME ManagerInv, OffIsShown, [Next]_vars PROVE OffIsShown'
  <2>1. CASE UNCHANGED <<radio, unseen, isAdvertising>>
    BY <1>2, <2>1 DEF OffIsShown
  <2>2. CASE RadioChanges
    BY <2>2 DEF RadioChanges, OffIsShown
  <2>3. CASE AdvertisingButton
    BY <1>2, <2>3 DEF AdvertisingButton, startAdvertising, stopAdvertising, OffIsShown,
       ManagerInv, On
  <2>4. CASE peripheralManagerDidUpdateState
    BY <2>4 DEF peripheralManagerDidUpdateState, OffIsShown
  <2>5. CASE centralManagerDidUpdateState
    BY <1>2, <2>5 DEF centralManagerDidUpdateState, OffIsShown
  <2> QED
    BY <1>2, <2>1, <2>2, <2>3, <2>4, <2>5 DEF Next, vars, coreBluetooth, manager, Discover,
       ScanningButton, didDiscover, runSelfTest, SelfTestEnds, ShowSteps
<1> QED
  BY <1>1, <1>2, ManagerInvariance, PTL DEF Spec

\* A button, or a report, that changes what is shown shows what CoreBluetooth
\* does, as soon as the manager it concerns has told its state: a flag goes
\* wrong only by a change of the radio, never by a press.
THEOREM ChangesAreReal == Spec => ChangeIsReal
<1> DEFINE Real == /\ isAdvertising' # isAdvertising /\ "peripheral" \notin unseen' =>
                         (isAdvertising' <=> advertising')
                   /\ isScanning' # isScanning /\ "central" \notin unseen' =>
                         (isScanning' <=> scanning')
<1>1. ASSUME TypeOK, ManagerInv, [Next]_vars PROVE Real
  <2>1. CASE UNCHANGED <<isAdvertising, isScanning>>
    BY <2>1
  <2>2. CASE AdvertisingButton
    BY <1>1, <2>2 DEF AdvertisingButton, startAdvertising, stopAdvertising, ManagerInv
  <2>3. CASE ScanningButton
    BY <1>1, <2>3 DEF ScanningButton, startScanning, stopScanning, ManagerInv
  <2>4. CASE peripheralManagerDidUpdateState
    <3>1. isAdvertising' # isAdvertising => radio = "poweredOff"
      BY <1>1, <2>4 DEF peripheralManagerDidUpdateState, TypeOK
    <3>2. isScanning' = isScanning /\ advertising' = advertising
          /\ isAdvertising' = (isAdvertising /\ radio # "poweredOff")
      BY <2>4 DEF peripheralManagerDidUpdateState
    <3> QED
      BY <1>1, <3>1, <3>2 DEF ManagerInv, On, TypeOK
  <2>5. CASE RadioChanges \/ Discover \/ centralManagerDidUpdateState \/ didDiscover \/ runSelfTest
             \/ ShowSteps \/ (\E n \in 1 .. MaxRuns : SelfTestEnds(n)) \/ UNCHANGED vars
    <3>1. UNCHANGED <<isAdvertising, isScanning>>
      BY <2>5 DEF vars, manager, RadioChanges, Discover, centralManagerDidUpdateState, didDiscover,
         runSelfTest, SelfTestEnds, ShowSteps
    <3> QED
      BY <2>1, <3>1
  <2> HIDE DEF Real
  <2> QED
    BY <1>1, <2>2, <2>3, <2>4, <2>5 DEF Next
<1>2. TypeOK /\ ManagerInv /\ [Next]_vars => [Real]_vars
  BY <1>1
<1> QED
  BY <1>2, ManagerInvariance, TypeCorrect, PTL DEF Spec, ChangeIsReal
=============================================================================
