------------------------------- MODULE MacApp -------------------------------
(***************************************************************************)
(* The macOS application: BluetoothManager.swift with its flags and its    *)
(* list of peers, the buttons and the self test section of                 *)
(* ContentView.swift.  All of it runs on the main queue, one block at a    *)
(* time; CoreBluetooth and the background queue go on in between.  What    *)
(* CoreBluetooth does is taken from how the code uses it: its scan and its *)
(* advertisement end when Bluetooth is no longer on, and each manager      *)
(* tells its delegate of a change by itself, some time later, when the     *)
(* state may have changed again.                                           *)
(***************************************************************************)
EXTENDS Naturals, Sequences, FiniteSets

CONSTANTS
    Devices,      \* identifiers of other devices
    Rssis,        \* signal strengths
    RadioStates,  \* the states of Bluetooth, "poweredOn" among them
    MaxReports,   \* bound: discoveries on their way to the application
    MaxRuns       \* bound: how often the self test is started

ASSUME MacAppAssumption ==
    /\ "poweredOn" \in RadioStates
    /\ MaxReports \in Nat
    /\ MaxRuns \in Nat \ {0}

VARIABLES
    radio,        \* the state of Bluetooth
    scanning,     \* CoreBluetooth scans
    advertising,  \* CoreBluetooth advertises
    unseen,       \* the managers that have not yet reported the state
    reports,      \* discoveries on their way
    central,      \* centralManager.state
    peripheral,   \* peripheralManager.state
    isBluetoothPoweredOn, isAdvertising, isScanning, discoveredPeers,
    started,      \* number of the last self test
    running,      \* self tests on the background queue
    posted,       \* self tests whose result waits on the main queue
    selfTestSteps,  \* the self test whose steps are shown, or 0
    selfTestRan

coreBluetooth == <<radio, scanning, advertising, unseen, reports>>
manager       == <<central, peripheral, isBluetoothPoweredOn, isAdvertising, isScanning,
                   discoveredPeers>>
selfTest      == <<started, running, posted, selfTestSteps, selfTestRan>>
vars          == <<coreBluetooth, manager, selfTest>>

On == "poweredOn"
DiscoveredPeer == [id : Devices, rssi : Rssis]

\* The window has appeared and with it the first self test has begun.
Init ==
    /\ radio \in RadioStates /\ scanning = FALSE /\ advertising = FALSE
    /\ unseen = {"central", "peripheral"} /\ reports = {}
    /\ central = "unknown" /\ peripheral = "unknown"
    /\ isBluetoothPoweredOn = FALSE /\ isAdvertising = FALSE /\ isScanning = FALSE
    /\ discoveredPeers = <<>>
    /\ started = 1 /\ running = {1} /\ posted = <<>>
    /\ selfTestSteps = 0 /\ selfTestRan = FALSE
-----------------------------------------------------------------------------
(* CoreBluetooth.                                                          *)

\* Bluetooth is switched, reset or forbidden, perhaps faster than the managers
\* can tell: a report gives the state at its own time, not each one in between.
RadioChanges ==
    /\ radio' \in RadioStates \ {radio}
    /\ scanning' = FALSE /\ advertising' = FALSE
    /\ unseen' = {"central", "peripheral"}
    /\ UNCHANGED <<reports, manager, selfTest>>

Discover ==
    /\ scanning
    /\ Cardinality(reports) < MaxReports
    /\ \E r \in DiscoveredPeer : reports' = reports \cup {r}
    /\ UNCHANGED <<radio, scanning, advertising, unseen, manager, selfTest>>
-----------------------------------------------------------------------------
(* BluetoothManager: the methods that the buttons call.                    *)

\* Mutant of startAdvertising: the guard asks the other manager.
startAdvertisingOfCentral ==
    /\ central = On
    /\ advertising' = (radio = On)
    /\ isAdvertising' = TRUE

\* Without the guard's condition only statusMessage changes.
startAdvertising ==
    /\ peripheral = On
    /\ advertising' = (radio = On)
    /\ isAdvertising' = TRUE

stopAdvertising ==
    /\ advertising' = FALSE
    /\ isAdvertising' = FALSE

startScanning ==
    /\ central = On
    /\ discoveredPeers' = <<>>
    /\ scanning' = (radio = On)
    /\ isScanning' = TRUE

\* Mutant of stopScanning: only the flag is reset.
stopScanningFlag ==
    /\ isScanning' = FALSE
    /\ UNCHANGED <<scanning, discoveredPeers>>

stopScanning ==
    /\ scanning' = FALSE
    /\ isScanning' = FALSE
    /\ UNCHANGED discoveredPeers

AdvertisingButton ==
    /\ isBluetoothPoweredOn
    /\ IF isAdvertising THEN stopAdvertising ELSE startAdvertising
    /\ UNCHANGED <<radio, scanning, unseen, reports, central, peripheral,
                   isBluetoothPoweredOn, isScanning, discoveredPeers, selfTest>>

ScanningButton ==
    /\ isBluetoothPoweredOn
    /\ IF isScanning THEN stopScanning ELSE startScanning
    /\ UNCHANGED <<radio, advertising, unseen, reports, central, peripheral,
                   isBluetoothPoweredOn, isAdvertising, selfTest>>
-----------------------------------------------------------------------------
(* BluetoothManager: the methods that CoreBluetooth calls.                 *)

\* Mutant of peripheralManagerDidUpdateState: the flag stays.
peripheralManagerKeepsFlag ==
    /\ "peripheral" \in unseen
    /\ unseen' = unseen \ {"peripheral"}
    /\ peripheral' = radio
    /\ UNCHANGED <<radio, scanning, advertising, reports, central, isBluetoothPoweredOn,
                   isAdvertising, isScanning, discoveredPeers, selfTest>>

peripheralManagerDidUpdateState ==
    /\ "peripheral" \in unseen
    /\ unseen' = unseen \ {"peripheral"}
    /\ peripheral' = radio
    /\ isAdvertising' = (isAdvertising /\ radio # "poweredOff")
    /\ UNCHANGED <<radio, scanning, advertising, reports, central, isBluetoothPoweredOn,
                   isScanning, discoveredPeers, selfTest>>

centralManagerDidUpdateState ==
    /\ "central" \in unseen
    /\ unseen' = unseen \ {"central"}
    /\ central' = radio
    /\ isBluetoothPoweredOn' = (radio = On)
    /\ UNCHANGED <<radio, scanning, advertising, reports, peripheral, isAdvertising,
                   isScanning, discoveredPeers, selfTest>>

\* Mutant of Listed: the peer is always appended.
ListedAgain(peer) == Append(discoveredPeers, peer)

\* The first entry with this id is replaced, or one is appended.
Listed(peer) ==
    LET places == {i \in DOMAIN discoveredPeers : discoveredPeers[i].id = peer.id}
        index  == CHOOSE i \in places : \A j \in places : i <= j
    IN  IF places = {} THEN Append(discoveredPeers, peer)
        ELSE [discoveredPeers EXCEPT ![index] = peer]

\* A discovery may come when its scan has long been stopped.
didDiscover ==
    \E peer \in reports :
        /\ reports' = reports \ {peer}
        /\ discoveredPeers' = Listed(peer)
        /\ UNCHANGED <<radio, scanning, advertising, unseen, central, peripheral,
                       isBluetoothPoweredOn, isAdvertising, isScanning, selfTest>>
-----------------------------------------------------------------------------
(* ContentView.runSelfTest.  The button is never disabled.                 *)

runSelfTest ==
    /\ started < MaxRuns
    /\ started' = started + 1
    /\ selfTestRan' = FALSE
    /\ running' = running \cup {started'}
    /\ UNCHANGED <<coreBluetooth, manager, posted, selfTestSteps>>

\* Mutants of SelfTestEnds: the result is not posted to the main queue; it is
\* posted while the test still runs.
SelfTestEndsUnseen(n) ==
    /\ n \in running
    /\ running' = running \ {n}
    /\ UNCHANGED <<coreBluetooth, manager, started, posted, selfTestSteps, selfTestRan>>

SelfTestEndsEarly(n) ==
    /\ n \in running
    /\ posted' = Append(posted, n)
    /\ UNCHANGED <<coreBluetooth, manager, started, running, selfTestSteps, selfTestRan>>

\* CoreSelfTest.run has returned and posts its result to the main queue.
SelfTestEnds(n) ==
    /\ n \in running
    /\ running' = running \ {n}
    /\ posted' = Append(posted, n)
    /\ UNCHANGED <<coreBluetooth, manager, started, selfTestSteps, selfTestRan>>

ShowSteps ==
    /\ posted # <<>>
    /\ posted' = Tail(posted)
    /\ selfTestSteps' = Head(posted)
    /\ selfTestRan' = TRUE
    /\ UNCHANGED <<coreBluetooth, manager, started, running>>
-----------------------------------------------------------------------------
Next ==
    \/ RadioChanges \/ Discover
    \/ AdvertisingButton \/ ScanningButton
    \/ peripheralManagerDidUpdateState \/ centralManagerDidUpdateState \/ didDiscover
    \/ runSelfTest \/ ShowSteps
    \/ \E n \in 1 .. MaxRuns : SelfTestEnds(n)

\* The two queues go on, and CoreBluetooth tells its delegates.
Fairness ==
    /\ WF_vars(peripheralManagerDidUpdateState) /\ WF_vars(centralManagerDidUpdateState)
    /\ WF_vars(ShowSteps) /\ \A n \in 1 .. MaxRuns : WF_vars(SelfTestEnds(n))

Spec == Init /\ [][Next]_vars /\ Fairness
-----------------------------------------------------------------------------
\* Types of the variables; a self test whose result waits is over.
TypeOK ==
    /\ radio \in RadioStates /\ scanning \in BOOLEAN /\ advertising \in BOOLEAN
    /\ unseen \subseteq {"central", "peripheral"}
    /\ reports \subseteq DiscoveredPeer
    /\ central \in RadioStates \cup {"unknown"} /\ peripheral \in RadioStates \cup {"unknown"}
    /\ isBluetoothPoweredOn \in BOOLEAN /\ isAdvertising \in BOOLEAN /\ isScanning \in BOOLEAN
    /\ discoveredPeers \in Seq(DiscoveredPeer)
    /\ started \in 1 .. MaxRuns /\ running \subseteq 1 .. started
    /\ posted \in Seq(1 .. started) /\ \A i \in DOMAIN posted : posted[i] \notin running
    /\ selfTestSteps \in 0 .. started /\ selfTestRan \in BOOLEAN

\* The application never scans or advertises without showing it, however fast
\* Bluetooth is switched and in whatever order buttons and the reports of the
\* two managers come (BluetoothManager.swift:48, 65, 83).
NothingHidden == (scanning => isScanning) /\ (advertising => isAdvertising)

\* Once the peripheral manager has told that Bluetooth is off, no advertisement
\* is shown (BluetoothManager.swift:83), although the button stays enabled until
\* the other manager tells it, too.
OffIsShown == radio = "poweredOff" /\ "peripheral" \notin unseen => ~isAdvertising

\* A flag that changes says what CoreBluetooth does, if the manager behind it has
\* told its state: the button is enabled by the central manager alone
\* (BluetoothManager.swift:95), and only the guards of lines 38 and 59 know
\* whether the advertisement and the scan can begin.
ChangeIsReal ==
    [][/\ isAdvertising' # isAdvertising /\ "peripheral" \notin unseen' =>
             (isAdvertising' <=> advertising')
       /\ isScanning' # isScanning /\ "central" \notin unseen' =>
             (isScanning' <=> scanning')]_vars

\* The list names a device once, also when discoveries of a stopped scan come
\* late (BluetoothManager.swift:105-109).
ListedOnce ==
    \A i, j \in DOMAIN discoveredPeers : discoveredPeers[i].id = discoveredPeers[j].id => i = j

\* "The self test is running" is shown only while one is, or while its result
\* waits on the main queue (ContentView.swift:41, 118-123).
SpinnerMeansRunning == ~selfTestRan => running # {} \/ posted # <<>>

\* The result of every self test is shown in the end, however many overlap.
EveryRunIsShown == \A n \in 1 .. MaxRuns : (n \in running) ~> (selfTestSteps = n)

\* ContentView.swift:2: both sections show the real state.  Once both managers
\* have told the new state, a scan that is shown is real.
ShownScanIsReal == unseen = {} /\ isScanning => scanning
=============================================================================
