---------------------------- MODULE MCSubmission -----------------------------
(***************************************************************************)
(* Submission over slices of its inputs: a full form endpoint and a full   *)
(* api endpoint, varied in the settings that interact, against a visitor's *)
(* and an api caller's request, varied in what one group of checks reads.  *)
(***************************************************************************)
EXTENDS Submission

FormEndpoint ==
  [wellFormed |-> TRUE, path |-> "own", auth |-> "form", apiKeys |-> "none", idempotencyCacheSize |-> 0,
   honeypot |-> "trap", allowedOrigins |-> "listed", csrfSecret |-> "long", csrfTokenTTL |-> 1,
   rateLimit |-> "absent", trustedProxies |-> {}, maxBody |-> 1,
   required |-> {"email"}, emailField |-> NoField, replyToEmailField |-> NoField,
   mentions |-> {"email"}, redirectSuccess |-> TRUE, redirectError |-> TRUE,
   logFailedSubmissions |-> TRUE, dryRun |-> FALSE]

ApiEndpoint ==
  [FormEndpoint EXCEPT !.auth = "api-key", !.apiKeys = "some", !.idempotencyCacheSize = 1,
     !.honeypot = NoField, !.allowedOrigins = "absent", !.csrfSecret = "absent",
     !.redirectSuccess = FALSE, !.redirectError = FALSE]

(* Each mode with the settings of the other, and with settings out of range. *)
Mixed ==
  {[b EXCEPT !.auth = a] : b \in {FormEndpoint, ApiEndpoint}, a \in {"", "form", "api-key", "other"}}
  \cup {[ApiEndpoint EXCEPT !.honeypot = h, !.csrfSecret = c] :
          h \in {NoField, "trap"}, c \in {"absent", "short", "long"}}
  \cup {[ApiEndpoint EXCEPT !.allowedOrigins = o, !.redirectSuccess = s, !.redirectError = x] :
          o \in {"absent", "empty", "listed"}, s \in BOOLEAN, x \in BOOLEAN}
  \cup {[b EXCEPT !.apiKeys = k, !.idempotencyCacheSize = n] :
          b \in {FormEndpoint, ApiEndpoint}, k \in {"none", "blank", "some"}, n \in -1..1}
  \cup {[FormEndpoint EXCEPT !.wellFormed = FALSE], [FormEndpoint EXCEPT !.path = "reserved"],
         [FormEndpoint EXCEPT !.rateLimit = "invalid"]}

Varied ==
  {[FormEndpoint EXCEPT !.honeypot = h, !.allowedOrigins = o, !.csrfSecret = c, !.csrfTokenTTL = t] :
     h \in {NoField, "trap"}, o \in {"absent", "empty", "listed"},
     c \in {"absent", "short", "long"}, t \in {-1, 0, 1}}
  \cup {[b EXCEPT !.dryRun = d, !.logFailedSubmissions = l, !.maxBody = m] :
          b \in {FormEndpoint, ApiEndpoint}, d \in BOOLEAN, l \in BOOLEAN, m \in {0, 1}}
  \cup {[b EXCEPT !.emailField = e, !.replyToEmailField = y, !.required = q] :
          b \in {FormEndpoint, ApiEndpoint}, e \in {NoField, "extra"}, y \in {NoField, "extra"},
          q \in {{}, {"email"}, {"trap"}}}
  \cup {[FormEndpoint EXCEPT !.redirectSuccess = s, !.redirectError = x] : s \in BOOLEAN, x \in BOOLEAN}

(* Endpoints with a limiter, behind no proxy and behind one or two. *)
Proxied ==
  {[FormEndpoint EXCEPT !.rateLimit = "valid", !.trustedProxies = ps] :
     ps \in {{}, {"p"}, {"p", "q"}}}

AllEndpoints == Mixed \cup Varied \cup Proxied
-----------------------------------------------------------------------------
(* A form with these fields, one without any value being absent. *)
Body(email, trap, token, extra) ==
  [x \in Fields |->
     LET values == CASE x = "email" -> email [] x = "trap" -> trap [] x = "extra" -> extra
                     [] x = "_csrf_token" -> token [] OTHER -> <<>>
     IN  IF values = <<>> THEN Absent ELSE values]

Visitor ==
  [post |-> TRUE, bearer |-> "none", type |-> "urlencoded", origin |-> "listed",
   referer |-> "none", accept |-> {"html"}, wellFormed |-> TRUE, size |-> 1,
   body |-> Body(<<"address">>, <<"blank">>, <<"token">>, <<"text">>), query |-> NoForm, tokenAge |-> 1]

Lists == {<<>>, <<"blank">>, <<"text">>, <<"address">>, <<"blank", "text">>, <<"blank", "blank">>}

Visitors ==
  {[Visitor EXCEPT !.type = t, !.wellFormed = w, !.size = n, !.post = p] :
     t \in {"urlencoded", "multipart", "json", "other"}, w \in BOOLEAN, n \in 1..2, p \in BOOLEAN}
  \cup {[Visitor EXCEPT !.origin = o, !.referer = f, !.accept = a] :
          o \in {"none", "listed", "other"}, f \in {"none", "listed", "other"},
          a \in SUBSET {"json", "html"}}
  \cup {[Visitor EXCEPT !.body = Body(<<"address">>, b, k, <<>>), !.tokenAge = g] :
          b \in Lists, k \in {<<>>, <<"text">>, <<"token">>}, g \in -1..3}
  \cup {[Visitor EXCEPT !.body = Body(m, <<>>, <<"token">>, x)] : m \in Lists, x \in Lists}
  \cup {[Visitor EXCEPT !.type = t, !.query = [NoForm EXCEPT ![f] = <<"text">>]] :
          t \in {"urlencoded", "multipart"}, f \in {"extra", "trap", "email", "to_override"}}

Caller ==
  [Visitor EXCEPT !.bearer = "key", !.type = "json", !.origin = "none", !.accept = {"json"}]

Callers ==
  {[Caller EXCEPT !.bearer = b, !.type = t, !.wellFormed = w, !.size = n] :
     b \in {"none", "key", "other"}, t \in {"urlencoded", "json"}, w \in BOOLEAN, n \in 1..2}
  \cup {[Caller EXCEPT !.body = [Body(m, <<>>, <<>>, <<"text">>) EXCEPT !["to_override"] = o]] :
          o \in Lists \cup {<<"address", "address">>, <<"address", "text">>}, m \in Lists}

AllRequests == Visitors \cup Callers

SomeHeaders == {<<>>, <<"b">>, <<"p">>, <<Blank>>, <<"b", "p">>}
NoHeaders == {<<>>}
=============================================================================
