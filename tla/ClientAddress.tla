---------------------------- MODULE ClientAddress ----------------------------
(***************************************************************************)
(* How a request reaches the endpoint, and which address its rate-limit    *)
(* bucket has: ClientIP of core/ratelimit/ratelimit.go.                    *)
(*                                                                         *)
(* The proxies are external.  One of trusted_proxies appends the address   *)
(* of its peer to X-Forwarded-For, in one header line; any other may send  *)
(* whatever header it likes, and so may the visitor.  trusted is the       *)
(* endpoint's trusted_proxies, networks and presets resolved.              *)
(***************************************************************************)
EXTENDS Configuration, Sequences, FiniteSetsExt

CONSTANTS
  Blank,       \* an empty entry of X-Forwarded-For, between two commas
  Headers,     \* the X-Forwarded-For values that the untrusted send
  MaxHops      \* bound on the proxies of a path

ASSUME AddressAssumption ==
  /\ Blank \notin Addresses
  /\ Headers \subseteq Seq(Addresses \cup {Blank})
  /\ MaxHops \in Nat

VARIABLES
  remote,      \* RemoteAddr: the peer of the last connection
  xff,         \* the entries of X-Forwarded-For, <<>>: no header
  outsider,    \* the last address on the path that is not trusted
  hops         \* the proxies passed so far

pathVars == <<remote, xff, outsider, hops>>

PathTypeOK ==
  /\ remote \in Addresses
  /\ xff \in Seq(Addresses \cup {Blank})
  /\ outsider \in Addresses
  /\ hops \in 0..MaxHops
-----------------------------------------------------------------------------
(* The entries that ipInPrefixes does not find; blank ones are passed over. *)
Outside(header, trusted) ==
  {i \in DOMAIN header : header[i] \notin trusted \cup {Blank}}

(* Mutant of ClientIP: the address the header begins with. *)
ClientIPLeftmost(peer, header, trusted) ==
  IF peer \notin trusted \/ header = <<>> THEN peer ELSE header[1]

(* ClientIP: the rightmost entry that is not trusted; else the leftmost. *)
ClientIP(peer, header, trusted) ==
  LET outside == Outside(header, trusted)
  IN  IF peer \notin trusted \/ header = <<>> THEN peer
      ELSE IF outside # {} THEN header[Max(outside)]
      ELSE IF header[1] = Blank THEN peer ELSE header[1]
-----------------------------------------------------------------------------
(* A visitor outside the trusted networks connects, to Posthorn or a proxy. *)
PathInit(trusted) ==
  /\ remote \in Addresses \ trusted
  /\ xff \in Headers
  /\ outsider = remote
  /\ hops = 0

(* The peer that has the request is a proxy at p, and connects further on. *)
Forward(p, trusted) ==
  /\ hops < MaxHops
  /\ hops' = hops + 1
  /\ remote' = p
  /\ \/ p \in trusted /\ xff' = Append(xff, remote) /\ UNCHANGED outsider
     \/ p \notin trusted /\ xff' \in Headers /\ outsider' = p
=============================================================================
