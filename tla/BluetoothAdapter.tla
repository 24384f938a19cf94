-------------------------- MODULE BluetoothAdapter --------------------------
(***************************************************************************)
(* The registry of connect callbacks of BluetoothTransportAdapter in       *)
(* platform/macos/BluetoothBridge.mm.  Everything happens on the main      *)
(* queue, but a callback may call Connect from inside, for the same peer   *)
(* too.  The results come from the delegate methods of CoreBluetooth, in   *)
(* any order and number.  That Connect may replace a function object that  *)
(* is being executed, or make the map rehash under the iterator that is    *)
(* going to be erased, is left aside: the model goes on as if the object   *)
(* survived and the iterator still named the entry of its peer.            *)
(***************************************************************************)
EXTENDS Naturals, Sequences

CONSTANTS
    Peers,        \* peer ids
    MaxRequests   \* bound: how often Connect is called

ASSUME AdapterAssumption == MaxRequests \in Nat

VARIABLES
    requests,                   \* the calls of Connect, in order
    pending_connect_callbacks,  \* peer -> number of a request, or None
    calling                     \* the request whose callback is running, or None

vars == <<requests, pending_connect_callbacks, calling>>

None == 0

Request == [peer : Peers, inside : BOOLEAN, state : {"waiting", "running", "returned", "threw"}]

Init ==
    /\ requests = <<>>
    /\ pending_connect_callbacks = [p \in Peers |-> None]
    /\ calling = None

\* The callback of an earlier request for the peer is overwritten.  "inside":
\* the call is made by the running callback of a request for the same peer.
Connect(p) ==
    /\ Len(requests) < MaxRequests
    /\ requests' = Append(requests,
          [peer |-> p, state |-> "waiting",
           inside |-> calling # None /\ requests[calling].peer = p])
    /\ pending_connect_callbacks' = [pending_connect_callbacks EXCEPT ![p] = Len(requests')]
    /\ UNCHANGED calling

\* Mutant of NotifyConnectResult: a result comes in while a callback runs.
NotifyNested(p) ==
    /\ pending_connect_callbacks[p] # None
    /\ calling' = pending_connect_callbacks[p]
    /\ requests' = [requests EXCEPT ![calling'].state = "running"]
    /\ UNCHANGED pending_connect_callbacks

\* NotifyConnectResult up to the call of the callback.  A result for a peer
\* without an entry changes nothing.
NotifyConnectResult(p) ==
    /\ calling = None
    /\ pending_connect_callbacks[p] # None
    /\ calling' = pending_connect_callbacks[p]
    /\ requests' = [requests EXCEPT ![calling'].state = "running"]
    /\ UNCHANGED pending_connect_callbacks

\* Mutants of Erase: the entry stays; the whole registry is cleared.
EraseNothing(p) == pending_connect_callbacks' = pending_connect_callbacks
EraseAll(p) == pending_connect_callbacks' = [q \in Peers |-> None]

\* erase(it): the entry of the peer goes, whatever callback is in it by now.
Erase(p) == pending_connect_callbacks' = [pending_connect_callbacks EXCEPT ![p] = None]

CallbackReturns ==
    /\ calling # None
    /\ Erase(requests[calling].peer)
    /\ requests' = [requests EXCEPT ![calling].state = "returned"]
    /\ calling' = None

\* It throws, or was given as an empty function, which throws when called:
\* the entry is not erased.
CallbackThrows ==
    /\ calling # None
    /\ requests' = [requests EXCEPT ![calling].state = "threw"]
    /\ calling' = None
    /\ UNCHANGED pending_connect_callbacks

Next ==
    \/ \E p \in Peers : Connect(p) \/ NotifyConnectResult(p)
    \/ CallbackReturns \/ CallbackThrows

Spec == Init /\ [][Next]_vars
-----------------------------------------------------------------------------
\* An entry belongs to its peer and is the latest request for it; at most one
\* callback runs.
TypeOK ==
    /\ requests \in Seq(Request)
    /\ Len(requests) <= MaxRequests
    /\ calling \in 0 .. Len(requests)
    /\ \A r \in DOMAIN requests : requests[r].state = "running" <=> r = calling
    /\ pending_connect_callbacks \in [Peers -> 0 .. Len(requests)]
    /\ \A p \in Peers : pending_connect_callbacks[p] # None =>
          requests[pending_connect_callbacks[p]].peer = p

Superseded(r) == \E q \in DOMAIN requests : q > r /\ requests[q].peer = requests[r].peer

\* A request without an answer is still registered, or a later one for the
\* same peer has taken its place, or it was made inside the callback of one:
\* these are the only callbacks that are never called (BluetoothBridge.mm:43, 81).
NoneForgotten ==
    \A r \in DOMAIN requests : requests[r].state = "waiting" =>
        \/ pending_connect_callbacks[requests[r].peer] = r
        \/ Superseded(r)
        \/ requests[r].inside

\* A callback that has returned is never called again, however many results
\* come for its peer (BluetoothBridge.mm:79-82).
ReturnedOnce ==
    [][\A r \in DOMAIN requests :
          requests[r].state = "returned" => requests'[r].state = "returned"]_vars
=============================================================================
