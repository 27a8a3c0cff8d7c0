---------------------------- MODULE Configuration ----------------------------
(***************************************************************************)
(* One [[endpoints]] block, as the operator wrote it: what config.Load     *)
(* (core/config/config.go) accepts of it and what gateway.New              *)
(* (core/gateway/handler.go) makes of it.                                  *)
(*                                                                         *)
(* An address, a secret or a template is known by the checks that tell it  *)
(* apart; wellFormed stands for the checks of a value's own syntax (path,  *)
(* to, from, subject, body, transport, trusted_proxies, max_body_size).    *)
(***************************************************************************)
EXTENDS Integers, FiniteSets

CONSTANTS
  Fields,       \* the names of form fields
  NoField,      \* a field name left empty in the configuration
  Addresses,    \* IP addresses
  DefaultTTL    \* defaultCSRFTokenTTL

TokenField == "_csrf_token"
OverrideField == "to_override"
DefaultEmailField == "email"

ASSUME ConfigurationAssumption ==
  /\ {TokenField, OverrideField, DefaultEmailField} \subseteq Fields
  /\ NoField \notin Fields
  /\ DefaultTTL \in Nat \ {0}

(* EndpointConfig.  mentions: the fields its templates name; maxBody and    *)
(* csrf_token_ttl 0: unset; trustedProxies {}: unset.                       *)
Endpoint ==
  [wellFormed : BOOLEAN,
   path : {"own", "reserved"},   \* reserved: /healthz or /metrics
   auth : {"", "form", "api-key", "other"},
   apiKeys : {"none", "blank", "some"},
   idempotencyCacheSize : Int,
   honeypot : Fields \cup {NoField},
   allowedOrigins : {"absent", "empty", "listed"},
   csrfSecret : {"absent", "short", "long"},
   csrfTokenTTL : Int,
   rateLimit : {"absent", "valid", "invalid"},
   trustedProxies : SUBSET Addresses,
   maxBody : Nat,
   required : SUBSET Fields,
   emailField : Fields \cup {NoField},
   replyToEmailField : Fields \cup {NoField},
   mentions : SUBSET Fields,
   redirectSuccess : BOOLEAN,
   redirectError : BOOLEAN,
   logFailedSubmissions : BOOLEAN,
   dryRun : BOOLEAN]
-----------------------------------------------------------------------------
ApiMode(e) == e.auth = "api-key"

(* Mutant of FormDefencesUnset: as FR32 was before csrf_secret existed. *)
FormDefencesUnsetButToken(e) ==
  /\ e.honeypot = NoField
  /\ e.allowedOrigins = "absent"
  /\ ~e.redirectSuccess /\ ~e.redirectError

(* Api mode refuses the defences of a form, rather than ignore them. *)
FormDefencesUnset(e) ==
  /\ e.honeypot = NoField
  /\ e.allowedOrigins = "absent"
  /\ ~e.redirectSuccess /\ ~e.redirectError
  /\ e.csrfSecret = "absent"

(* EndpointConfig.Validate.  Api mode does not look at csrf_token_ttl. *)
Accepted(e) ==
  /\ e.wellFormed
  /\ e.auth # "other"
  /\ \/ /\ ApiMode(e)
        /\ e.apiKeys = "some" /\ e.idempotencyCacheSize >= 0
        /\ FormDefencesUnset(e)
     \/ /\ ~ApiMode(e)
        /\ e.apiKeys = "none" /\ e.idempotencyCacheSize = 0
        /\ e.csrfSecret # "short" /\ e.csrfTokenTTL >= 0
  /\ e.allowedOrigins # "empty"
  /\ e.rateLimit # "invalid"
(* serve: Load and New succeed, and buildMux does not panic at a path that   *)
(* it registers itself; validate stops before the latter.                    *)
Starts(e) == Accepted(e) /\ e.path = "own"
-----------------------------------------------------------------------------
(* What New resolves. *)

Or(field, default) == IF field = NoField THEN default ELSE field

EmailField(e) == Or(e.emailField, DefaultEmailField)
ReplyToField(e) == Or(e.replyToEmailField, EmailField(e))
TokenTTL(e) == IF e.csrfTokenTTL = 0 THEN DefaultTTL ELSE e.csrfTokenTTL

(* Mutant of NamedFields: the fields that are structure are not reserved. *)
NamedFieldsOfForm(e) ==
  ((e.required \cup {EmailField(e), e.honeypot} \cup e.mentions) \ {NoField})

(* The names NewRenderer is given, and those it finds in the templates. *)
NamedFields(e) ==
  ((e.required \cup {EmailField(e), e.honeypot} \cup e.mentions) \ {NoField})
    \cup (IF ApiMode(e) THEN {OverrideField} ELSE {})
    \cup (IF e.csrfSecret # "absent" THEN {TokenField} ELSE {})
=============================================================================
