---------------------------- MODULE MCSmtpSession ----------------------------
(***************************************************************************)
(* SmtpSession over sets of listener configurations.                       *)
(***************************************************************************)
EXTENDS SmtpSession

CONSTANTS s1, t1  \* the addresses on the allowlists

ConfigsWith(lists, caps) ==
  [RequireTLS : BOOLEAN,
   AuthRequired : {"smtp-auth", "client-cert", "either"},
   AllowedSenders : {{s1}},
   AllowedRecipients : lists,
   MaxRecipientsPerSession : caps]

AllConfigs == ConfigsWith({{}, {t1}}, {0, 1})
CappedConfigs == ConfigsWith({{}}, {1})
=============================================================================
