---------------------------- MODULE MCWorkspace ----------------------------
(* A small instance of Workspace for TLC. *)
EXTENDS Workspace, TLC

\* A file that asks for verified clients, with a misspelt client_auth, and one
\* without client_auth, that switches TLS and PostgreSQL off.
Strict == [enabled |-> "true", port |-> 5433, tls |-> TRUE,
           cert |-> "server.crt", ca |-> "ca.crt", auth |-> "Required"]
TwoContents == {Strict, [Strict EXCEPT !.tls = FALSE, !.enabled = "false", !.auth = ""]}

\* Nothing set; a port that is no number; TLS forced on without a policy; off by a
\* word that is neither "true" nor "1"; a CA that is not there.
Unset == [x \in Fields |-> ""]
FiveEnvs == {Unset,
             [Unset EXCEPT !.port = "x", !.enabled = "true"],
             [Unset EXCEPT !.tls = "1", !.cert = "server.crt", !.ca = "ca.crt"],
             [Unset EXCEPT !.tls = "yes", !.port = "5433"],
             [Unset EXCEPT !.ca = "absent.crt"]}

\* No TLS; a certificate from Vault, with files that are not looked at; somebody
\* else's; none at all; a CA that is none.
Option(i, cert, certFile, ca, caFile) ==
  [insecure |-> i, certData |-> cert, certFile |-> certFile, caData |-> ca, caFile |-> caFile]
FiveOptions == {Option(TRUE, "", "", "", ""), Option(FALSE, "ours", "theirs", "ours", "garbage"),
                Option(FALSE, "", "theirs", "", "ours"), Option(FALSE, "", "", "", "ours"),
                Option(FALSE, "ours", "", "garbage", "")}

\* With doubles of three bits, 9 is the first number that does not fit.
ThreeInputs == {<<"int", 7>>, <<"int64", 9>>, <<"nil", 0>>}
=============================================================================
