--------------------------- MODULE MCMailDelivery ---------------------------
(* A small instance of MailDelivery.  Submissions share nothing but the    *)
(* presence of the mail service, which may change at any moment.           *)
EXTENDS MailDelivery

CONSTANT r1
=============================================================================
