------------------------ MODULE NotificationsProofs ------------------------
(***************************************************************************)
(* Proofs about GatewayConnections and Notifications, for any number of    *)
(* users, requests, sockets and workers.  The steps of AuthSessions keep   *)
(* its invariant (AuthStep); a socket keeps its user once it has one, and  *)
(* is in the map of that user as long as it is in its room.                *)
(***************************************************************************)
EXTENDS Notifications, AuthSessionsProofs

SocketsOK ==
  /\ socket \in [Sockets -> SocketRows]
  /\ clients \in [Users -> SUBSET Sockets]
  /\ OpenIsRegistered

GatewayInv == AuthInv /\ SocketsOK

(* What a step may do to a socket: it is given a user when it connects,    *)
(* keeps it, and enters its user's room from handleConnection only.        *)
SocketsStep ==
  /\ SocketsOK'
  /\ \A s \in Sockets : socket[s].phase # "none" =>
       socket'[s].phase # "none" /\ socket'[s].of = socket[s].of

-----------------------------------------------------------------------------
LEMMA GatewayStart == GatewayInit => GatewayInv
  <1> SUFFICES ASSUME GatewayInit PROVE GatewayInv
    OBVIOUS
  <1>1. AuthInv
    BY AuthStart DEF GatewayInit
  <1>2. \A s \in Sockets : socket[s].phase = "none"
    BY DEF GatewayInit
  <1>3. \A u \in Users : OpenFor(u) = {}
    BY <1>2 DEF OpenFor
  <1>4. clients \in [Users -> SUBSET Sockets]
    BY DEF GatewayInit
  <1>5. (CHOOSE t \in Tokens : TRUE) \in Tokens
    BY GatewayAssumption
  <1>6. (CHOOSE u \in Users : TRUE) \in Users
    BY AuthAssumption
  <1>7. socket \in [Sockets -> SocketRows]
    BY <1>5, <1>6 DEF GatewayInit, SocketRows
  <1> QED
    BY <1>1, <1>3, <1>4, <1>7 DEF GatewayInv, SocketsOK, OpenIsRegistered

LEMMA SocketsUnchanged ==
  ASSUME GatewayInv, UNCHANGED <<socket, clients>> PROVE SocketsStep
  BY DEF GatewayInv, SocketsOK, SocketsStep, OpenIsRegistered, OpenFor

(* One socket changes, in itself and in the map, and keeps its user.       *)
LEMMA OneSocket ==
  ASSUME GatewayInv, NEW s \in Sockets, NEW row \in SocketRows,
         socket' = [socket EXCEPT ![s] = row],
         socket[s].phase # "none" => row.phase # "none" /\ row.of = socket[s].of,
         clients' \in [Users -> SUBSET Sockets],
         \A u \in Users : clients[u] \ {s} \subseteq clients'[u],
         row.phase = "registered" /\ row.alive => s \in clients'[row.of]
  PROVE  SocketsStep
  <1>1. socket \in [Sockets -> SocketRows] /\ OpenIsRegistered
    BY DEF GatewayInv, SocketsOK
  <1>2. socket' \in [Sockets -> SocketRows]
        /\ \A x \in Sockets : socket'[x] = IF x = s THEN row ELSE socket[x]
    BY <1>1
  <1>3. ASSUME NEW u \in Users, NEW x \in OpenFor(u)' PROVE x \in clients'[u]
    <2>1. CASE x = s
      BY <1>2, <1>3, <2>1 DEF OpenFor
    <2>2. CASE x # s
      BY <1>1, <1>2, <1>3, <2>2 DEF OpenFor, OpenIsRegistered
    <2> QED BY <2>1, <2>2
  <1> QED
    BY <1>2, <1>3 DEF SocketsStep, SocketsOK, OpenIsRegistered

LEMMA SocketFields ==
  ASSUME GatewayInv, NEW s \in Sockets
  PROVE  /\ socket[s] \in SocketRows /\ socket[s].of \in Users /\ socket[s].token \in Tokens
         /\ socket[s].alive \in BOOLEAN
  <1>1. socket[s] \in SocketRows
    BY DEF GatewayInv, SocketsOK
  <1> QED
    BY <1>1 DEF SocketRows

(* handleConnection and handleDisconnect. *)
LEMMA ConnectionSteps ==
  ASSUME GatewayInv, NEW s \in Sockets,
         (\E t \in Tokens : Connect(s, t)) \/ CheckConnection(s) \/ Register(s) \/ Refuse(s) \/ Drop(s)
  PROVE  SocketsStep
  <1>1. socket[s] \in SocketRows /\ socket[s].of \in Users /\ clients \in [Users -> SUBSET Sockets]
    BY SocketFields DEF GatewayInv, SocketsOK
  <1>2. ASSUME NEW t \in Tokens, Connect(s, t) PROVE SocketsStep
    <2> DEFINE row == [phase |-> "connecting", alive |-> TRUE, token |-> t, of |-> token[t].of]
    <2>1. token[t].of \in Users
      BY DEF GatewayInv, AuthInv, AuthTypeOK, TokenRows
    <2>2. row \in SocketRows /\ row.phase = "connecting"
      BY <2>1 DEF SocketRows
    <2>3. socket' = [socket EXCEPT ![s] = row] /\ socket[s].phase = "none" /\ UNCHANGED clients
      BY <1>2 DEF Connect
    <2> HIDE DEF row
    <2> QED BY <1>1, <2>2, <2>3, OneSocket
  <1>3. ASSUME NEW phase \in {"passed", "refused"}, socket[s].phase = "connecting",
               socket' = [socket EXCEPT ![s].phase = phase], UNCHANGED clients
        PROVE  SocketsStep
    <2> DEFINE row == [socket[s] EXCEPT !.phase = phase]
    <2>1. row \in SocketRows /\ row.phase = phase /\ row.of = socket[s].of
      BY <1>1 DEF SocketRows
    <2>2. socket' = [socket EXCEPT ![s] = row]
      BY <1>3
    <2> HIDE DEF row
    <2> QED BY <1>1, <1>3, <2>1, <2>2, OneSocket
  <1>4. CASE CheckConnection(s)
    <2> DEFINE phase == IF Accepted(socket[s].token) THEN "passed" ELSE "refused"
    <2>1. phase \in {"passed", "refused"}
      OBVIOUS
    <2>2. socket[s].phase = "connecting" /\ UNCHANGED clients
          /\ socket' = [socket EXCEPT ![s].phase = phase]
      BY <1>4 DEF CheckConnection
    <2> HIDE DEF phase
    <2> QED BY <1>3, <2>1, <2>2
  <1>5. CASE Register(s)
    <2> DEFINE row == [socket[s] EXCEPT !.phase = "registered"]
    <2>1. row \in SocketRows /\ row.phase = "registered" /\ row.of = socket[s].of
      BY <1>1 DEF SocketRows
    <2>2. socket' = [socket EXCEPT ![s] = row]
      BY <1>5 DEF Register
    <2>3. clients' = [clients EXCEPT ![socket[s].of] = clients[socket[s].of] \cup {s}]
      BY <1>5 DEF Register
    <2>4. clients' \in [Users -> SUBSET Sockets] /\ s \in clients'[socket[s].of]
          /\ \A u \in Users : clients[u] \ {s} \subseteq clients'[u]
      BY <1>1, <2>3
    <2> HIDE DEF row
    <2> QED BY <2>1, <2>2, <2>4, OneSocket
  <1>6. CASE Refuse(s)
    <2> DEFINE row == [socket[s] EXCEPT !.phase = "ended", !.alive = FALSE]
    <2>1. row \in SocketRows /\ row.phase = "ended" /\ row.of = socket[s].of
      BY <1>1 DEF SocketRows
    <2>2. socket' = [socket EXCEPT ![s] = row] /\ UNCHANGED clients
      BY <1>6 DEF Refuse
    <2> HIDE DEF row
    <2> QED BY <1>1, <2>1, <2>2, OneSocket
  <1>7. CASE Drop(s) /\ socket[s].phase = "registered"
    <2> DEFINE row == [socket[s] EXCEPT !.phase = "ended", !.alive = FALSE]
    <2>1. row \in SocketRows /\ row.phase = "ended" /\ row.of = socket[s].of
      BY <1>1 DEF SocketRows
    <2>2. socket' = [socket EXCEPT ![s] = row]
          /\ clients' = [clients EXCEPT ![socket[s].of] = clients[socket[s].of] \ {s}]
      BY <1>7 DEF Drop
    <2>3. clients' \in [Users -> SUBSET Sockets]
          /\ \A u \in Users : clients[u] \ {s} \subseteq clients'[u]
      BY <1>1, <2>2
    <2> HIDE DEF row
    <2> QED BY <2>1, <2>2, <2>3, OneSocket
  <1>8. CASE Drop(s) /\ socket[s].phase # "registered"
    <2> DEFINE row == [socket[s] EXCEPT !.alive = FALSE]
    <2>1. row \in SocketRows /\ row.phase = socket[s].phase /\ row.of = socket[s].of
      BY <1>1 DEF SocketRows
    <2>2. socket' = [socket EXCEPT ![s] = row] /\ UNCHANGED clients
      BY <1>8 DEF Drop
    <2>3. row.phase # "registered"
      BY <1>8, <2>1
    <2> HIDE DEF row
    <2> QED BY <1>1, <2>1, <2>2, <2>3, OneSocket
  <1> QED
    BY <1>2, <1>4, <1>5, <1>6, <1>7, <1>8

(* The process ends: no socket is open, and the requests are gone. *)
LEMMA RestartStep == GatewayInv /\ Restart => SocketsStep /\ AuthInv'
  <1> SUFFICES ASSUME GatewayInv, Restart PROVE SocketsStep /\ AuthInv'
    OBVIOUS
  <1>1. \A s \in Sockets : socket[s] \in SocketRows
    BY SocketFields
  <1>2. \A s \in Sockets : socket'[s] =
          IF socket[s].phase = "none" THEN socket[s]
                                      ELSE [socket[s] EXCEPT !.phase = "ended", !.alive = FALSE]
    BY DEF Restart
  <1>3. \A s \in Sockets :
          /\ socket'[s] \in SocketRows /\ socket'[s].phase \in {"none", "ended"}
          /\ socket[s].phase # "none" => socket'[s].phase # "none" /\ socket'[s].of = socket[s].of
    BY <1>1, <1>2 DEF SocketRows
  <1>4. socket' \in [Sockets -> SocketRows] /\ clients' \in [Users -> SUBSET Sockets]
    BY <1>3 DEF Restart
  <1>5. \A u \in Users : OpenFor(u)' = {}
    BY <1>3 DEF OpenFor
  <1>6. SocketsStep
    BY <1>3, <1>4, <1>5 DEF SocketsStep, SocketsOK, OpenIsRegistered
  <1>7. AuthInv'
    <2>1. /\ UNCHANGED <<user, token, reset, retired>>
          /\ request' \in [Requests -> RequestsInFlight]
          /\ \A q \in Requests : request'[q].op = "idle"
      BY DEF Restart, RequestsInFlight, Idle
    <2> QED
      BY <2>1 DEF GatewayInv, AuthInv, AuthTypeOK, SessionsSound, RequestsSound, JobSound, Sound,
                  Exists, Active, LockedWhenExhausted
  <1> QED BY <1>6, <1>7

(* Every step of the gateway keeps both invariants. *)
LEMMA GatewaySteps ==
  ASSUME GatewayInv, GatewayStep \/ Restart \/ UNCHANGED gatewayVars
  PROVE  AuthInv' /\ SocketsStep
  <1>1. ASSUME [AuthNext]_authVars PROVE AuthInv'
    BY <1>1, AuthStep DEF GatewayInv
  <1>2. ASSUME UNCHANGED authVars PROVE AuthInv'
    BY <1>1, <1>2
  <1>3. ASSUME NEW s \in Sockets,
               (\E t \in Tokens : Connect(s, t)) \/ CheckConnection(s) \/ Register(s)
                 \/ Refuse(s) \/ Drop(s)
        PROVE  AuthInv' /\ SocketsStep
    <2>1. UNCHANGED authVars
      BY <1>3 DEF Connect, CheckConnection, Register, Refuse, Drop
    <2> QED BY <1>2, <1>3, <2>1, ConnectionSteps
  <1>4. CASE AccountStep
    BY <1>1, <1>4, SocketsUnchanged DEF AccountStep, DisconnectUser
  <1>5. CASE Restart
    BY <1>5, RestartStep
  <1>6. CASE UNCHANGED gatewayVars
    BY <1>2, <1>6, SocketsUnchanged DEF gatewayVars
  <1> QED
    BY <1>3, <1>4, <1>5, <1>6 DEF GatewayStep

-----------------------------------------------------------------------------
(* What was pushed, or is about to be, is in the table; a socket that has  *)
(* received something has a user.                                          *)
NotesOK ==
  /\ note \in [Notes -> [state : {"none", "unread", "read"}, of : Users]]
  /\ emitting \in [Workers -> Notes \cup {NoNote}]
  /\ received \in [Sockets -> SUBSET Notes]
  /\ \A w \in Workers : emitting[w] # NoNote => note[emitting[w]].state # "none"
  /\ \A s \in Sockets : received[s] # {} => socket[s].phase # "none"
  /\ ReceivedIsStored

NotificationsInv == GatewayInv /\ NotesOK

LEMMA NotificationsStart == NotificationsInit => NotificationsInv
  <1> SUFFICES ASSUME NotificationsInit PROVE NotificationsInv
    OBVIOUS
  <1>1. GatewayInv
    BY GatewayStart DEF NotificationsInit
  <1>2. \E u \in Users : TRUE
    BY AuthAssumption
  <1>3. note \in [Notes -> [state : {"none", "unread", "read"}, of : Users]]
    BY <1>2 DEF NotificationsInit
  <1>4. /\ received \in [Sockets -> SUBSET Notes] /\ \A s \in Sockets : received[s] = {}
        /\ emitting \in [Workers -> Notes \cup {NoNote}] /\ \A w \in Workers : emitting[w] = NoNote
    BY DEF NotificationsInit
  <1> QED
    BY <1>1, <1>3, <1>4 DEF NotificationsInv, NotesOK, ReceivedIsStored

(* Steps of the gateway do not touch notifications. *)
LEMMA NotesKept ==
  ASSUME NotificationsInv, SocketsStep, UNCHANGED <<note, received>>,
         emitting' \in [Workers -> Notes \cup {NoNote}],
         \A w \in Workers : emitting'[w] \in {emitting[w], NoNote}
  PROVE  NotesOK'
  <1>1. \A s \in Sockets : received'[s] # {} =>
          socket[s].phase # "none" /\ socket'[s].phase # "none" /\ socket'[s].of = socket[s].of
    BY DEF NotificationsInv, NotesOK, SocketsStep
  <1>2. ReceivedIsStored'
    BY <1>1 DEF NotificationsInv, NotesOK, ReceivedIsStored
  <1> QED
    BY <1>1, <1>2 DEF NotificationsInv, NotesOK

(* Rows of notifications appear and are read, and keep their user. *)
LEMMA NotesWritten ==
  ASSUME NotificationsInv, UNCHANGED gatewayVars, UNCHANGED received,
         note' \in [Notes -> [state : {"none", "unread", "read"}, of : Users]],
         \A n \in Notes : note[n].state # "none" =>
           note'[n].state # "none" /\ note'[n].of = note[n].of,
         emitting' \in [Workers -> Notes \cup {NoNote}],
         \A w \in Workers : emitting'[w] # NoNote => note'[emitting'[w]].state # "none"
  PROVE  NotesOK'
  <1>1. UNCHANGED socket /\ \A s \in Sockets : received[s] \subseteq Notes
    BY DEF gatewayVars, NotificationsInv, NotesOK
  <1>2. ReceivedIsStored'
    BY <1>1 DEF NotificationsInv, NotesOK, ReceivedIsStored
  <1> QED
    BY <1>1, <1>2 DEF NotificationsInv, NotesOK

(* Sockets that are open receive a row of their user. *)
LEMMA Pushed ==
  ASSUME NotificationsInv, NEW w \in Workers, PushNotification(w)
  PROVE  NotesOK'
  <1> DEFINE n == emitting[w]
  <1>1. n \in Notes /\ note[n].state # "none" /\ note[n].of \in Users
    BY DEF PushNotification, NotificationsInv, NotesOK
  <1>2. received' = Delivered(n, note[n].of) /\ UNCHANGED <<note, socket>>
        /\ emitting' = [emitting EXCEPT ![w] = NoNote]
    BY DEF PushNotification, gatewayVars
  <1> HIDE DEF n
  <1>3. OpenFor(note[n].of) \subseteq clients[note[n].of]
    BY <1>1 DEF NotificationsInv, GatewayInv, SocketsOK, OpenIsRegistered
  <1>4. received \in [Sockets -> SUBSET Notes]
    BY DEF NotificationsInv, NotesOK
  <1>5. \A s \in Sockets : received'[s] =
          IF s \in OpenFor(note[n].of) THEN received[s] \cup {n} ELSE received[s]
    BY <1>2, <1>3, <1>4 DEF Delivered
  <1>6. received' \in [Sockets -> SUBSET Notes]
    BY <1>1, <1>2, <1>4 DEF Delivered
  <1>7. \A s \in OpenFor(note[n].of) :
          s \in Sockets /\ socket[s].phase = "registered" /\ socket[s].of = note[n].of
    BY DEF OpenFor
  <1>8. ASSUME NEW s \in Sockets
        PROVE  /\ received'[s] # {} => socket[s].phase # "none"
               /\ \A m \in received'[s] : note[m].state # "none" /\ note[m].of = socket[s].of
    <2>1. /\ received[s] # {} => socket[s].phase # "none"
          /\ \A m \in received[s] : note[m].state # "none" /\ note[m].of = socket[s].of
      BY DEF NotificationsInv, NotesOK, ReceivedIsStored
    <2>2. CASE s \in OpenFor(note[n].of)
      BY <1>1, <1>5, <1>7, <2>1, <2>2
    <2>3. CASE s \notin OpenFor(note[n].of)
      BY <1>5, <2>1, <2>3
    <2> QED BY <2>2, <2>3
  <1>9. emitting' \in [Workers -> Notes \cup {NoNote}]
        /\ \A v \in Workers : emitting'[v] # NoNote => emitting'[v] = emitting[v]
    BY <1>2 DEF NotificationsInv, NotesOK
  <1> QED
    BY <1>2, <1>6, <1>8, <1>9 DEF NotificationsInv, NotesOK, ReceivedIsStored

LEMMA NotificationsStep == NotificationsInv /\ [NotificationsNext]_notificationVars => NotificationsInv'
  <1> SUFFICES ASSUME NotificationsInv, [NotificationsNext]_notificationVars
               PROVE  NotificationsInv'
    OBVIOUS
  <1>1. GatewayInv /\ note \in [Notes -> [state : {"none", "unread", "read"}, of : Users]]
        /\ emitting \in [Workers -> Notes \cup {NoNote}]
        /\ \A w \in Workers : emitting[w] # NoNote => note[emitting[w]].state # "none"
    BY DEF NotificationsInv, NotesOK
  <1>2. ASSUME GatewayStep \/ Restart \/ UNCHANGED gatewayVars PROVE GatewayInv' /\ SocketsStep
    BY <1>1, <1>2, GatewaySteps DEF GatewayInv, SocketsStep
  <1>3. ASSUME NEW w \in Workers, NEW n \in Notes, NEW u \in Users, CreateNotification(w, n, u)
        PROVE  NotificationsInv'
    <2>1. /\ note' = [note EXCEPT ![n] = [state |-> "unread", of |-> u]] /\ note[n].state = "none"
          /\ emitting' = [emitting EXCEPT ![w] = n] /\ UNCHANGED gatewayVars /\ UNCHANGED received
      BY <1>3 DEF CreateNotification
    <2>2. note' \in [Notes -> [state : {"none", "unread", "read"}, of : Users]]
          /\ \A m \in Notes : note[m].state # "none" =>
               note'[m].state # "none" /\ note'[m].of = note[m].of
          /\ note'[n].state # "none"
      BY <1>1, <2>1
    <2>3. emitting' \in [Workers -> Notes \cup {NoNote}]
          /\ \A v \in Workers : emitting'[v] # NoNote => note'[emitting'[v]].state # "none"
      BY <1>1, <2>1, <2>2
    <2>4. NotesOK'
      BY <2>1, <2>2, <2>3, NotesWritten
    <2> QED BY <1>2, <2>1, <2>4 DEF NotificationsInv
  <1>4. ASSUME NEW w \in Workers, PushNotification(w) PROVE NotificationsInv'
    <2>1. UNCHANGED gatewayVars
      BY <1>4 DEF PushNotification
    <2> QED BY <1>2, <1>4, <2>1, Pushed DEF NotificationsInv
  <1>5. ASSUME UNCHANGED gatewayVars, UNCHANGED <<emitting, received>>,
               note' \in [Notes -> [state : {"none", "unread", "read"}, of : Users]],
               \A n \in Notes : note[n].state # "none" =>
                 note'[n].state # "none" /\ note'[n].of = note[n].of
        PROVE  NotificationsInv'
    <2>1. \A w \in Workers : emitting[w] # NoNote => emitting[w] \in Notes
      BY <1>1
    <2>2. NotesOK'
      BY <1>1, <1>5, <2>1, NotesWritten
    <2> QED BY <1>2, <1>5, <2>2 DEF NotificationsInv
  <1>6. ASSUME NEW n \in Notes, MarkAsRead(n) PROVE NotificationsInv'
    <2>1. note' = [note EXCEPT ![n].state = "read"]
          /\ UNCHANGED gatewayVars /\ UNCHANGED <<emitting, received>>
      BY <1>6 DEF MarkAsRead
    <2>2. note' \in [Notes -> [state : {"none", "unread", "read"}, of : Users]]
          /\ \A m \in Notes : note[m].state # "none" =>
               note'[m].state # "none" /\ note'[m].of = note[m].of
      BY <1>1, <2>1
    <2> QED BY <1>5, <2>1, <2>2
  <1>7. ASSUME NEW u \in Users, MarkAllAsRead(u) PROVE NotificationsInv'
    <2>1. note' = [n \in Notes |->
            IF note[n].of = u /\ note[n].state = "unread" THEN [note[n] EXCEPT !.state = "read"]
                                                          ELSE note[n]]
          /\ UNCHANGED gatewayVars /\ UNCHANGED <<emitting, received>>
      BY <1>7 DEF MarkAllAsRead
    <2>2. note' \in [Notes -> [state : {"none", "unread", "read"}, of : Users]]
          /\ \A m \in Notes : note[m].state # "none" =>
               note'[m].state # "none" /\ note'[m].of = note[m].of
      BY <1>1, <2>1
    <2> QED BY <1>5, <2>1, <2>2
  <1>8. CASE GatewayStep /\ UNCHANGED <<note, emitting, received>>
    <2>1. GatewayInv' /\ SocketsStep
      BY <1>2, <1>8
    <2>2. NotesOK'
      BY <1>1, <1>8, <2>1, NotesKept
    <2> QED BY <2>1, <2>2 DEF NotificationsInv
  <1>9. CASE Restart /\ emitting' = [w \in Workers |-> NoNote] /\ UNCHANGED <<note, received>>
    <2>1. GatewayInv' /\ SocketsStep
      BY <1>2, <1>9
    <2>2. NotesOK'
      BY <1>9, <2>1, NotesKept
    <2> QED BY <2>1, <2>2 DEF NotificationsInv
  <1>10. CASE UNCHANGED notificationVars
    <2>1. UNCHANGED gatewayVars /\ UNCHANGED <<emitting, received, note>>
      BY <1>10 DEF notificationVars
    <2> QED BY <1>1, <1>5, <2>1
  <1> QED
    BY <1>3, <1>4, <1>6, <1>7, <1>8, <1>9, <1>10 DEF NotificationsNext

-----------------------------------------------------------------------------
(* The invariant holds in every state: from it follow the theorems below. *)
THEOREM NotificationsInvariant == NotificationsSpec => []NotificationsInv
  BY NotificationsStart, NotificationsStep, PTL DEF NotificationsSpec

(* connectedClients never misses an open socket. *)
THEOREM OpenAlwaysRegistered == NotificationsSpec => []OpenIsRegistered
  <1>1. NotificationsInv => OpenIsRegistered
    BY DEF NotificationsInv, GatewayInv, SocketsOK
  <1> QED BY <1>1, NotificationsInvariant, PTL

(* Sockets receive what is stored, and only what is their user's. *)
THEOREM PushesAreStored == NotificationsSpec => []ReceivedIsStored
  <1>1. NotificationsInv => ReceivedIsStored
    BY DEF NotificationsInv, NotesOK
  <1> QED BY <1>1, NotificationsInvariant, PTL

(* Notifications, sockets, accounts and requests in flight have their types. *)
THEOREM NotificationsTypes == NotificationsSpec => []NotificationsTypeOK
  <1>1. NotificationsInv => NotificationsTypeOK
    BY DEF NotificationsInv, NotesOK, GatewayInv, SocketsOK, AuthInv,
           NotificationsTypeOK, GatewayTypeOK
  <1> QED BY <1>1, NotificationsInvariant, PTL
=============================================================================
