----------------------- MODULE MCNotificationDelivery -----------------------
(* The notification outbox on a small instance. *)
EXTENDS NotificationDelivery
=============================================================================
