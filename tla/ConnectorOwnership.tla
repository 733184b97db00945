------------------------- MODULE ConnectorOwnership -------------------------
(***************************************************************************)
(* What a table of provider connections promises, apart from how it is     *)
(* kept.  A connector is an authenticated client of an enterprise system.  *)
(* It is built for one connection id, it serves that id until it is        *)
(* retired (its disconnect() has been called), and an id has at most one   *)
(* connector in service.  In particular a connector in service is never    *)
(* forgotten: the only way out of service is Retire.                       *)
(*                                                                         *)
(* IntegrationManager and ConnectionRuntime are both held to this.         *)
(***************************************************************************)
CONSTANTS
    Ids,            \* connection ids
    Connectors,     \* connector objects
    Unused,         \* holder of a connector that was not created yet
    Retired         \* holder of a connector that has been disconnected

VARIABLE
    holder          \* the id a connector serves, Unused or Retired

Init == holder = [c \in Connectors |-> Unused]

(* A connector enters service for an id that has none. *)
Acquire(c, i) ==
    /\ holder[c] = Unused
    /\ \A d \in Connectors : holder[d] # i
    /\ holder' = [holder EXCEPT ![c] = i]

(* A connector that turns out unusable is retired before it serves an id. *)
Discard(c) ==
    /\ holder[c] = Unused
    /\ holder' = [holder EXCEPT ![c] = Retired]

(* Connectors leave service; shutdown retires several at once. *)
Retire(S) ==
    /\ \A c \in S : holder[c] \in Ids
    /\ holder' = [c \in Connectors |-> IF c \in S THEN Retired ELSE holder[c]]

Next ==
    \/ \E c \in Connectors, i \in Ids : Acquire(c, i)
    \/ \E c \in Connectors : Discard(c)
    \/ \E S \in SUBSET Connectors : Retire(S)

Spec == Init /\ [][Next]_holder
=============================================================================
