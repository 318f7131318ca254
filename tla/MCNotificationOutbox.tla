------------------------ MODULE MCNotificationOutbox ------------------------
(* Bounded instances of NotificationOutbox for TLC.                        *)
EXTENDS NotificationOutbox
=============================================================================
