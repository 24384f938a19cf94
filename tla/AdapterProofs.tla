---------------------------- MODULE AdapterProofs ----------------------------
(***************************************************************************)
(* The properties of BluetoothAdapter for any number of peers and of calls *)
(* of Connect.                                                             *)
(***************************************************************************)
EXTENDS BluetoothAdapter, TLAPS

\* An entry of the registry has not returned; the entry of the peer whose
\* callback runs is that callback, or was put there by it.
RegistryInv ==
    /\ \A p \in Peers : pending_connect_callbacks[p] # None =>
          requests[pending_connect_callbacks[p]].state # "returned"
    /\ calling # None =>
          LET r == pending_connect_callbacks[requests[calling].peer]
          IN  r = calling \/ (r # None /\ requests[r].inside)

AInv == TypeOK /\ RegistryInv /\ NoneForgotten

LEMMA AInvInit == Init => AInv
BY AdapterAssumption DEF Init, AInv, TypeOK, RegistryInv, NoneForgotten, None

\* What TypeOK says of one request.
LEMMA RequestType ==
    ASSUME TypeOK, NEW r \in DOMAIN requests
    PROVE  /\ r \in 1 .. Len(requests) /\ requests[r] \in Request
           /\ requests[r].peer \in Peers /\ requests[r].inside \in BOOLEAN
<1>1. requests \in Seq(Request)
  BY DEF TypeOK
<1>2. r \in 1 .. Len(requests) /\ requests[r] \in Request
  BY <1>1
<1> QED
  BY <1>2 DEF Request

LEMMA ConnectInv == ASSUME AInv, NEW p \in Peers, Connect(p) PROVE AInv'
<1>1. PICK new \in Request :
          /\ requests' = Append(requests, new)
          /\ new.peer = p /\ new.state = "waiting"
          /\ new.inside <=> calling # None /\ requests[calling].peer = p
  <2> DEFINE new == [peer |-> p, state |-> "waiting",
                     inside |-> calling # None /\ requests[calling].peer = p]
  <2>1. new \in Request
    BY DEF Request
  <2> QED
    BY <2>1 DEF Connect
<1>2. /\ requests \in Seq(Request) /\ Len(requests) \in Nat
      /\ Len(requests') = Len(requests) + 1 /\ Len(requests') <= MaxRequests
      /\ requests' \in Seq(Request)
      /\ \A r \in 1 .. Len(requests) : requests'[r] = requests[r]
      /\ requests'[Len(requests')] = new
      /\ DOMAIN requests = 1 .. Len(requests) /\ DOMAIN requests' = 1 .. Len(requests')
  BY <1>1, AdapterAssumption DEF Connect, AInv, TypeOK
<1>3. /\ pending_connect_callbacks \in [Peers -> 0 .. Len(requests)]
      /\ pending_connect_callbacks' =
            [pending_connect_callbacks EXCEPT ![p] = Len(requests')]
      /\ calling' = calling /\ calling \in 0 .. Len(requests)
  BY DEF Connect, AInv, TypeOK
<1>4. TypeOK'
  BY <1>1, <1>2, <1>3 DEF AInv, TypeOK, None
<1>5. RegistryInv'
  <2>1. ASSUME NEW q \in Peers, pending_connect_callbacks'[q] # None
        PROVE  requests'[pending_connect_callbacks'[q]].state # "returned"
    <3>1. CASE q = p
      BY <1>1, <1>2, <1>3, <3>1
    <3>2. CASE q # p
      <4>1. /\ pending_connect_callbacks'[q] = pending_connect_callbacks[q]
            /\ pending_connect_callbacks[q] \in 1 .. Len(requests)
        BY <1>2, <1>3, <2>1, <3>2 DEF None
      <4> QED
        BY <1>2, <4>1 DEF AInv, RegistryInv, None
    <3> QED
      BY <3>1, <3>2
  <2>2. ASSUME calling # None
        PROVE  LET r == pending_connect_callbacks'[requests'[calling].peer]
               IN  r = calling \/ (r # None /\ requests'[r].inside)
    <3>1. /\ calling \in 1 .. Len(requests) /\ requests'[calling].peer = requests[calling].peer
          /\ requests[calling].peer \in Peers
      BY <1>2, <1>3, <2>2, RequestType DEF AInv, None
    <3>2. CASE requests[calling].peer = p
      BY <1>1, <1>2, <1>3, <2>2, <3>1, <3>2 DEF None
    <3>3. CASE requests[calling].peer # p
      <4>1. pending_connect_callbacks[requests[calling].peer] \in 0 .. Len(requests)
        BY <1>3, <3>1
      <4> QED
        BY <1>2, <1>3, <2>2, <3>1, <3>3, <4>1 DEF AInv, RegistryInv, None
    <3> QED
      BY <3>2, <3>3
  <2> QED
    BY <1>3, <2>1, <2>2 DEF RegistryInv
<1>6. NoneForgotten'
  <2> SUFFICES ASSUME NEW r \in 1 .. Len(requests'), requests'[r].state = "waiting"
               PROVE  \/ pending_connect_callbacks'[requests'[r].peer] = r
                      \/ \E q \in 1 .. Len(requests') : q > r /\ requests'[q].peer = requests'[r].peer
                      \/ requests'[r].inside
    BY <1>2 DEF NoneForgotten, Superseded
  <2>1. CASE r = Len(requests')
    BY <1>1, <1>2, <1>3, <2>1
  <2>2. CASE r \in 1 .. Len(requests) /\ requests[r].peer = p
    <3>1. Len(requests') > r /\ requests'[Len(requests')].peer = requests'[r].peer
      BY <1>1, <1>2, <2>2
    <3> QED
      BY <1>2, <3>1
  <2>3. CASE r \in 1 .. Len(requests) /\ requests[r].peer # p
    <3>1. requests'[r] = requests[r] /\ requests[r].peer \in Peers
      BY <1>2, <2>3, RequestType DEF AInv
    <3>2. pending_connect_callbacks'[requests[r].peer] = pending_connect_callbacks[requests[r].peer]
      BY <1>3, <2>3, <3>1
    <3>3. \/ pending_connect_callbacks[requests[r].peer] = r
          \/ \E q \in 1 .. Len(requests) : q > r /\ requests[q].peer = requests[r].peer
          \/ requests[r].inside
      BY <1>2, <2>3, <3>1 DEF AInv, NoneForgotten, Superseded
    <3> QED
      BY <1>2, <3>1, <3>2, <3>3
  <2> QED
    BY <1>2, <2>1, <2>2, <2>3
<1> QED
  BY <1>4, <1>5, <1>6 DEF AInv

\* A step that changes only the state of one request.
LEMMA StateChange ==
    ASSUME TypeOK, NEW r \in 1 .. Len(requests),
           NEW s \in {"waiting", "running", "returned", "threw"},
           requests' = [requests EXCEPT ![r].state = s]
    PROVE  /\ requests' \in Seq(Request) /\ Len(requests') = Len(requests)
           /\ Len(requests) \in Nat
           /\ DOMAIN requests = 1 .. Len(requests) /\ DOMAIN requests' = 1 .. Len(requests)
           /\ requests'[r].state = s
           /\ \A q \in 1 .. Len(requests) :
                 /\ requests'[q].peer = requests[q].peer
                 /\ requests'[q].inside = requests[q].inside
                 /\ q # r => requests'[q].state = requests[q].state
<1>1. requests \in Seq(Request)
  BY DEF TypeOK
<1>2. [requests[r] EXCEPT !.state = s] \in Request
  <2>1. requests[r] \in Request
    BY <1>1
  <2> QED
    BY <2>1 DEF Request
<1>3. requests' = [requests EXCEPT ![r] = [requests[r] EXCEPT !.state = s]]
  OBVIOUS
<1>4. requests' \in Seq(Request) /\ Len(requests') = Len(requests)
  BY <1>1, <1>2, <1>3
<1> QED
  BY <1>1, <1>2, <1>3, <1>4 DEF Request

LEMMA StateChangeType ==
    ASSUME TypeOK, NEW r \in 1 .. Len(requests), NEW s \in {"running", "returned", "threw"},
           requests' = [requests EXCEPT ![r].state = s],
           calling = None \/ calling = r,
           calling' = IF s = "running" THEN r ELSE None,
           pending_connect_callbacks' \in [Peers -> 0 .. Len(requests)],
           \A p \in Peers : pending_connect_callbacks'[p] \in {pending_connect_callbacks[p], None}
    PROVE  TypeOK'
<1>1. /\ requests' \in Seq(Request) /\ Len(requests') = Len(requests)
      /\ Len(requests) \in Nat /\ Len(requests) <= MaxRequests
  BY StateChange DEF TypeOK
<1>2. calling' \in 0 .. Len(requests')
  BY <1>1 DEF None
<1>3. ASSUME NEW q \in 1 .. Len(requests)
      PROVE  requests'[q].state = "running" <=> q = calling'
  <2>1. CASE q = r
    BY <2>1, StateChange DEF None
  <2>2. CASE q # r
    <3>1. requests'[q].state = requests[q].state
      BY <2>2, StateChange
    <3>2. requests[q].state # "running"
      BY <2>2, StateChange DEF TypeOK, None
    <3> QED
      BY <2>2, <3>1, <3>2 DEF None
  <2> QED
    BY <2>1, <2>2
<1>4. ASSUME NEW p \in Peers, pending_connect_callbacks'[p] # None
      PROVE  requests'[pending_connect_callbacks'[p]].peer = p
  <2>1. /\ pending_connect_callbacks'[p] = pending_connect_callbacks[p]
        /\ pending_connect_callbacks[p] \in 1 .. Len(requests)
        /\ requests[pending_connect_callbacks[p]].peer = p
    BY <1>1, <1>4 DEF TypeOK, None
  <2> QED
    BY <2>1, StateChange
<1>5. DOMAIN requests' = 1 .. Len(requests)
  BY StateChange
<1> QED
  BY <1>1, <1>2, <1>3, <1>4, <1>5 DEF TypeOK

LEMMA NotifyInv == ASSUME AInv, NEW p \in Peers, NotifyConnectResult(p) PROVE AInv'
<1>1. /\ calling = None /\ calling' = pending_connect_callbacks[p]
      /\ calling' \in 1 .. Len(requests) /\ requests[calling'].peer = p
      /\ requests' = [requests EXCEPT ![calling'].state = "running"]
      /\ pending_connect_callbacks' = pending_connect_callbacks
  BY DEF NotifyConnectResult, AInv, TypeOK, None
<1>2. TypeOK
  BY DEF AInv
<1>3. TypeOK'
  BY <1>1, <1>2, StateChangeType DEF TypeOK, None
<1>4. RegistryInv'
  BY <1>1, <1>2, StateChange DEF TypeOK, None, AInv, RegistryInv
<1>5. NoneForgotten'
  BY <1>1, <1>2, StateChange DEF AInv, NoneForgotten, Superseded
<1> QED
  BY <1>3, <1>4, <1>5 DEF AInv

LEMMA ReturnInv == ASSUME AInv, CallbackReturns PROVE AInv'
<1>1. /\ calling \in 1 .. Len(requests) /\ calling' = None
      /\ requests[calling].peer \in Peers
      /\ requests' = [requests EXCEPT ![calling].state = "returned"]
      /\ pending_connect_callbacks' =
            [pending_connect_callbacks EXCEPT ![requests[calling].peer] = None]
  BY RequestType DEF CallbackReturns, Erase, AInv, TypeOK, None
<1>2. TypeOK
  BY DEF AInv
<1>3. TypeOK'
  <2>1. /\ pending_connect_callbacks' \in [Peers -> 0 .. Len(requests)]
        /\ \A p \in Peers : pending_connect_callbacks'[p] \in {pending_connect_callbacks[p], None}
    BY <1>1, <1>2 DEF TypeOK, None
  <2>2. None # calling
    BY <1>1, <1>2 DEF None, TypeOK
  <2> QED
    BY <1>1, <1>2, <2>1, <2>2, StateChangeType
<1>4. RegistryInv'
  BY <1>1, <1>2, StateChange DEF TypeOK, None, AInv, RegistryInv
<1>5. NoneForgotten'
  <2> SUFFICES ASSUME NEW r \in 1 .. Len(requests), requests'[r].state = "waiting"
               PROVE  \/ pending_connect_callbacks'[requests'[r].peer] = r
                      \/ \E q \in 1 .. Len(requests) : q > r /\ requests'[q].peer = requests'[r].peer
                      \/ requests'[r].inside
    BY <1>1, <1>2, StateChange DEF NoneForgotten, Superseded
  <2>1. r # calling /\ requests[r].state = "waiting"
    BY <1>1, <1>2, StateChange
  <2>2. CASE pending_connect_callbacks[requests[r].peer] = r
    <3>1. CASE requests[r].peer = requests[calling].peer
      BY <1>1, <1>2, <2>1, <2>2, <3>1, StateChange DEF AInv, RegistryInv, None
    <3>2. CASE requests[r].peer # requests[calling].peer
      BY <1>1, <1>2, <2>2, <3>2, StateChange, RequestType DEF TypeOK
    <3> QED
      BY <3>1, <3>2
  <2>3. CASE requests[r].inside \/ Superseded(r)
    BY <1>1, <1>2, <2>3, StateChange DEF Superseded
  <2> QED
    BY <1>1, <1>2, <2>1, <2>2, <2>3, StateChange DEF AInv, NoneForgotten
<1> QED
  BY <1>3, <1>4, <1>5 DEF AInv

LEMMA ThrowInv == ASSUME AInv, CallbackThrows PROVE AInv'
<1>1. /\ calling \in 1 .. Len(requests) /\ calling' = None
      /\ requests' = [requests EXCEPT ![calling].state = "threw"]
      /\ pending_connect_callbacks' = pending_connect_callbacks
  BY DEF CallbackThrows, AInv, TypeOK, None
<1>2. TypeOK
  BY DEF AInv
<1>3. TypeOK'
  BY <1>1, <1>2, StateChangeType DEF TypeOK, None
<1>4. RegistryInv'
  BY <1>1, <1>2, StateChange DEF TypeOK, None, AInv, RegistryInv
<1>5. NoneForgotten'
  BY <1>1, <1>2, StateChange DEF AInv, NoneForgotten, Superseded
<1> QED
  BY <1>3, <1>4, <1>5 DEF AInv

LEMMA AInvNext == AInv /\ [Next]_vars => AInv'
<1> SUFFICES ASSUME AInv, [Next]_vars PROVE AInv'
  OBVIOUS
<1>1. CASE UNCHANGED vars
  BY <1>1 DEF vars, AInv, TypeOK, RegistryInv, NoneForgotten, Superseded
<1>2. ASSUME NEW p \in Peers, Connect(p) \/ NotifyConnectResult(p) PROVE AInv'
  BY <1>2, ConnectInv, NotifyInv
<1>3. CASE CallbackReturns \/ CallbackThrows
  BY <1>3, ReturnInv, ThrowInv
<1> QED
  BY <1>1, <1>2, <1>3 DEF Next

LEMMA RegistryInvariance == Spec => []AInv
BY AInvInit, AInvNext, PTL DEF Spec

\* An entry belongs to its peer and at most one callback runs at a time.
THEOREM RegistryTypes == Spec => []TypeOK
<1>1. AInv => TypeOK
  BY DEF AInv
<1> QED
  BY <1>1, RegistryInvariance, PTL

\* Only a callback that was overtaken by a later request for its peer, or that
\* was registered inside a callback of that peer, is never called.
THEOREM NoneIsForgotten == Spec => []NoneForgotten
<1>1. AInv => NoneForgotten
  BY DEF AInv
<1> QED
  BY <1>1, RegistryInvariance, PTL

\* A callback that has returned is never called again.
THEOREM ReturnsOnce == Spec => ReturnedOnce
<1> DEFINE Step == \A r \in DOMAIN requests :
                      requests[r].state = "returned" => requests'[r].state = "returned"
<1>1. ASSUME AInv, [Next]_vars PROVE [Step]_vars
  <2> SUFFICES ASSUME Next, NEW r \in 1 .. Len(requests), requests[r].state = "returned"
               PROVE  requests'[r].state = "returned"
    BY <1>1 DEF AInv, TypeOK
  <2>1. TypeOK
    BY <1>1 DEF AInv
  <2>2. ASSUME NEW p \in Peers, Connect(p) PROVE requests'[r] = requests[r]
    BY <2>1, <2>2 DEF Connect, TypeOK
  <2>3. ASSUME NEW p \in Peers, NotifyConnectResult(p) PROVE requests'[r].state = "returned"
    <3>1. /\ calling' = pending_connect_callbacks[p] /\ calling' # r
          /\ calling' \in 1 .. Len(requests)
          /\ requests' = [requests EXCEPT ![calling'].state = "running"]
      BY <1>1, <2>1, <2>3 DEF NotifyConnectResult, AInv, TypeOK, RegistryInv, None
    <3> QED
      BY <2>1, <3>1, StateChange
  <2>4. CASE CallbackReturns \/ CallbackThrows
    <3>1. calling \in 1 .. Len(requests) /\ calling # r
      BY <2>1, <2>4 DEF CallbackReturns, CallbackThrows, TypeOK, None
    <3> QED
      BY <2>1, <2>4, <3>1, StateChange DEF CallbackReturns, CallbackThrows
  <2> QED
    BY <2>2, <2>3, <2>4 DEF Next
<1> QED
  BY <1>1, RegistryInvariance, PTL DEF Spec, ReturnedOnce
=============================================================================
