------------------------- MODULE GatewayConnections -------------------------
(***************************************************************************)
(* BorrowRequestsGateway: the sockets of users and the map                 *)
(* connectedClients that the process keeps of them.                        *)
(*                                                                         *)
(* handleConnection awaits the user's row and goes on in a later turn of   *)
(* the event loop, whatever happened to the account or the socket since;   *)
(* every other operation here is one turn.  There is one process; when it  *)
(* ends, so do its sockets, its map and its requests.  Socket ids are not  *)
(* used twice.                                                             *)
(***************************************************************************)
EXTENDS AuthSessions

CONSTANT Sockets

ASSUME GatewayAssumption == Tokens # {}

VARIABLES
  socket,    \* per socket, how far handleConnection is, and whether it is connected
  clients    \* connectedClients; a user without an entry has no sockets in it

gatewayVars == <<authVars, socket, clients>>

\* passed and refused: the row was read and the handler has to go on;
\* registered: data.userId is set and the socket has joined its user's room
SocketRows ==
  [phase : {"none", "connecting", "passed", "refused", "registered", "ended"},
   alive : BOOLEAN, token : Tokens, of : Users]

GatewayTypeOK ==
  /\ AuthTypeOK
  /\ socket \in [Sockets -> SocketRows]
  /\ clients \in [Users -> SUBSET Sockets]

GatewayInit ==
  /\ AuthInit
  /\ socket = [s \in Sockets |->
       [phase |-> "none", alive |-> FALSE, token |-> CHOOSE t \in Tokens : TRUE,
        of |-> CHOOSE u \in Users : TRUE]]
  /\ clients = [u \in Users |-> {}]

-----------------------------------------------------------------------------
\* A socket that is in the room of its user.
OpenFor(u) == {s \in Sockets : socket[s].phase = "registered" /\ socket[s].alive
                               /\ socket[s].of = u}

(* handleConnection *)
Connect(s, t) ==
  /\ socket[s].phase = "none" /\ token[t].state # "none"
  /\ socket' = [socket EXCEPT ![s] =
       [phase |-> "connecting", alive |-> TRUE, token |-> t, of |-> token[t].of]]
  /\ UNCHANGED <<authVars, clients>>

\* user.findUnique, and the comparison with its result
CheckConnection(s) ==
  /\ socket[s].phase = "connecting"
  /\ socket' = [socket EXCEPT ![s].phase =
       IF Accepted(socket[s].token) THEN "passed" ELSE "refused"]
  /\ UNCHANGED <<authVars, clients>>

\* Mutant: a new set of sockets replaces the user's.
RegisterAnew(s) ==
  /\ socket[s].phase = "passed"
  /\ socket' = [socket EXCEPT ![s].phase = "registered"]
  /\ clients' = [clients EXCEPT ![socket[s].of] = {s}]
  /\ UNCHANGED authVars

\* The rest of handleConnection, for a socket that may be closed by now.
Register(s) ==
  /\ socket[s].phase = "passed"
  /\ socket' = [socket EXCEPT ![s].phase = "registered"]
  /\ clients' = [clients EXCEPT ![socket[s].of] = @ \cup {s}]
  /\ UNCHANGED authVars

Refuse(s) ==
  /\ socket[s].phase = "refused"
  /\ socket' = [socket EXCEPT ![s].phase = "ended", ![s].alive = FALSE]
  /\ UNCHANGED <<authVars, clients>>

\* The client or the network closes the socket: handleDisconnect, which does
\* nothing for one whose handleConnection is not done.
Drop(s) ==
  /\ socket[s].alive
  /\ IF socket[s].phase = "registered"
       THEN /\ socket' = [socket EXCEPT ![s].phase = "ended", ![s].alive = FALSE]
            /\ clients' = [clients EXCEPT ![socket[s].of] = @ \ {s}]
       ELSE /\ socket' = [socket EXCEPT ![s].alive = FALSE]
            /\ UNCHANGED clients
  /\ UNCHANGED authVars

-----------------------------------------------------------------------------
(* disconnectUser, which the handlers that end the sessions of an account  *)
(* call once they have written: it has nothing to do for a user without an *)
(* entry, and throws for one with an entry before it closes a socket or    *)
(* deletes the entry, because the gateway has a namespace, so its server   *)
(* is that Namespace, whose sockets is the map of sockets already and has  *)
(* no member sockets.  The handler has committed; only its answer differs. *)
DisconnectUser == UNCHANGED <<socket, clients>>

\* The handlers of AuthSessions, with the failures of requests.
AccountStep == AuthNext /\ DisconnectUser

\* The process ends and another starts.
Restart ==
  /\ socket' = [s \in Sockets |->
       IF socket[s].phase = "none" THEN socket[s]
                                   ELSE [socket[s] EXCEPT !.phase = "ended", !.alive = FALSE]]
  /\ clients' = [u \in Users |-> {}]
  /\ request' = [q \in Requests |-> Idle]
  /\ UNCHANGED <<user, token, reset, retired>>

GatewayStep ==
  \/ \E s \in Sockets :
       \/ \E t \in Tokens : Connect(s, t)
       \/ CheckConnection(s)
       \/ Register(s)
       \/ Refuse(s)
       \/ Drop(s)
  \/ AccountStep

GatewaySpec == GatewayInit /\ [][GatewayStep \/ Restart]_gatewayVars

-----------------------------------------------------------------------------
(* connectedClients has every socket that is in the room of a user, under  *)
(* that user: neither overlapping connections nor the loss of another      *)
(* socket take it out, so notifyUser finds the user connected.             *)
OpenIsRegistered == \A u \in Users : OpenFor(u) \subseteq clients[u]
=============================================================================
