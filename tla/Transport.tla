----------------------------- MODULE Transport -----------------------------
(***************************************************************************)
(* The two ends of a channel: internal/tlsconfig/loader.go in the router,  *)
(* sdk/go/client.go in the application.  Building an end either fails or   *)
(* gives credentials; whether two ends understand each other is decided by *)
(* the first handshake, since grpc.NewClient does not connect.             *)
(* A certificate is named by who issued it; a file by its path.            *)
(***************************************************************************)

CONSTANT Readable  \* the paths under which a usable certificate, key or CA lies

Failed == [kind |-> "error"]
PlainText == [kind |-> "insecure"]

\* Mutant of parseClientAuth: only "require" asks for a certificate.
parseClientAuthLenient(s) == IF s = "require" THEN "require" ELSE s

\* Everything but "none" and "request" requires and verifies a certificate.
parseClientAuth(s) == IF s \in {"none", "request"} THEN s ELSE "require"

\* Loader.Build: the router's end.  main ends the process when it fails.
Build(c) ==
  IF ~c.tls THEN PlainText
  ELSE IF c.cert \notin Readable \/ c.ca \notin Readable \union {""} THEN Failed
  ELSE [kind |-> "tls",
        clients |-> IF c.ca = "" THEN "none" ELSE parseClientAuth(c.auth)]

\* The certificate an application's options name: bytes before files, each only
\* together with its key.
ChosenCert(o) == IF o.certData # "" THEN o.certData ELSE o.certFile

\* The CA to check the router's certificate with, chosen likewise; without one the
\* system's are used.
Roots(o) ==
  IF o.caData # "" THEN o.caData ELSE IF o.caFile # "" THEN o.caFile ELSE "system"

\* Connect with buildTLSConfig: the application's end.
Connect(o) ==
  IF o.insecure THEN PlainText
  ELSE IF ChosenCert(o) \in {"", "garbage"} \/ Roots(o) = "garbage" THEN Failed
  ELSE [kind |-> "tls", cert |-> ChosenCert(o), roots |-> Roots(o)]

\* crypto/tls: both ends plain, or each satisfied with the other's certificate.  A
\* requested one is not verified.  The router's own is issued by "ours".
Handshake(server, client) ==
  \/ server.kind = "insecure" /\ client.kind = "insecure"
  \/ /\ server.kind = "tls" /\ client.kind = "tls"
     /\ client.roots = "ours"
     /\ server.clients = "require" => client.cert = "ours"
=============================================================================
