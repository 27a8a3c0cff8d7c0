--------------------------- MODULE MCSmtpRecipients ---------------------------
(***************************************************************************)
(* SmtpSession with the number of recipients that the session was granted, *)
(* over all its transactions.                                              *)
(***************************************************************************)
EXTENDS MCSmtpSession

VARIABLE granted  \* the RCPT commands answered 250

MCInit == Init /\ granted = 0

MCNext == Next /\ granted' = IF Rcpt THEN granted + 1 ELSE granted

MCSpec == MCInit /\ [][MCNext]_<<vars, granted>>

(* config.go:82: max_recipients_per_session is the cap on RCPT commands per  *)
(* session.  handleRCPT compares it with the present transaction's list.     *)
RecipientsPerSession ==
  cfg.MaxRecipientsPerSession > 0 => granted <= cfg.MaxRecipientsPerSession
=============================================================================
