--------------------------- MODULE Notifications ---------------------------
(***************************************************************************)
(* NotificationsService on top of the gateway: a notification is a row of  *)
(* its user, written alone (create) or in the transaction of the change it *)
(* is about (createInTransaction), and is pushed to the user's sockets in  *)
(* a later turn.  A worker is a handler between the two.  Titles, messages *)
(* and the pages of findMine are left out.                                 *)
(***************************************************************************)
EXTENDS GatewayConnections

CONSTANTS
  Notes,
  Workers,   \* concurrent handlers that notify somebody
  NoNote

ASSUME NotificationAssumption == NoNote \notin Notes

VARIABLES
  note,      \* the Notification table
  emitting,  \* per worker, the notification it has committed and will push
  received   \* per socket, the notifications pushed to it

notificationVars == <<gatewayVars, note, emitting, received>>

NotificationsTypeOK ==
  /\ GatewayTypeOK
  /\ note \in [Notes -> [state : {"none", "unread", "read"}, of : Users]]
  /\ emitting \in [Workers -> Notes \cup {NoNote}]
  /\ received \in [Sockets -> SUBSET Notes]

NotificationsInit ==
  /\ GatewayInit
  /\ note = [n \in Notes |-> [state |-> "none", of |-> CHOOSE u \in Users : TRUE]]
  /\ emitting = [w \in Workers |-> NoNote]
  /\ received = [s \in Sockets |-> {}]

-----------------------------------------------------------------------------
\* notifyNewNotification, to the room of the user
Delivered(n, u) ==
  IF clients[u] = {} THEN received
  ELSE [s \in Sockets |-> IF s \in OpenFor(u) THEN received[s] \cup {n} ELSE received[s]]

\* Mutant: pushed inside the transaction, which may still roll back.
CreateNotificationEarly(w, n, u) ==
  /\ note[n].state = "none" /\ Exists(u) /\ emitting[w] = NoNote
  /\ \/ note' = [note EXCEPT ![n] = [state |-> "unread", of |-> u]]
     \/ UNCHANGED note
  /\ received' = Delivered(n, u)
  /\ UNCHANGED <<gatewayVars, emitting>>

\* create and createInTransaction, on commit
CreateNotification(w, n, u) ==
  /\ note[n].state = "none" /\ Exists(u) /\ emitting[w] = NoNote
  /\ note' = [note EXCEPT ![n] = [state |-> "unread", of |-> u]]
  /\ emitting' = [emitting EXCEPT ![w] = n]
  /\ UNCHANGED <<gatewayVars, received>>

PushNotification(w) ==
  LET n == emitting[w] IN
  /\ n # NoNote
  /\ received' = Delivered(n, note[n].of)
  /\ emitting' = [emitting EXCEPT ![w] = NoNote]
  /\ UNCHANGED <<gatewayVars, note>>

\* markAsRead, by its user, and markAllAsRead
MarkAsRead(n) ==
  /\ note[n].state # "none"
  /\ note' = [note EXCEPT ![n].state = "read"]
  /\ UNCHANGED <<gatewayVars, emitting, received>>

MarkAllAsRead(u) ==
  /\ note' = [n \in Notes |->
       IF note[n].of = u /\ note[n].state = "unread" THEN [note[n] EXCEPT !.state = "read"]
                                                     ELSE note[n]]
  /\ UNCHANGED <<gatewayVars, emitting, received>>

NotificationsNext ==
  \/ \E w \in Workers, n \in Notes, u \in Users : CreateNotification(w, n, u)
  \/ \E w \in Workers : PushNotification(w)
  \/ \E n \in Notes : MarkAsRead(n)
  \/ \E u \in Users : MarkAllAsRead(u)
  \/ GatewayStep /\ UNCHANGED <<note, emitting, received>>
  \/ /\ Restart
     /\ emitting' = [w \in Workers |-> NoNote]
     /\ UNCHANGED <<note, received>>

NotificationsSpec == NotificationsInit /\ [][NotificationsNext]_notificationVars

-----------------------------------------------------------------------------
(* "Persist with the caller's domain transaction; realtime delivery        *)
(* belongs after that transaction commits": what was pushed to a socket is *)
(* in the table and belongs to the user of the socket.                     *)
ReceivedIsStored ==
  \A s \in Sockets : \A n \in received[s] :
    note[n].state # "none" /\ note[n].of = socket[s].of
=============================================================================
