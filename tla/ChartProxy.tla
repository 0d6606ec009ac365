----------------------------- MODULE ChartProxy -----------------------------
(***************************************************************************)
(* Forwarding of chart requests between servers, of which few have the     *)
(* chart database (render/proxy.go, orUpstream in render/handlers.go).     *)
(***************************************************************************)
EXTENDS Naturals

CONSTANTS Servers, NoServer

ASSUME ProxyAssumption == NoServer \notin Servers

VARIABLES
  upstream,  \* each server's configured upstream
  holders,   \* servers with charts attached
  older,     \* servers whose build lacks the endpoint
  at,        \* where the request is; NoServer: not sent, or answered
  hop,       \* proxyHopHeader is set
  hops,      \* history: how often the request was forwarded
  reply      \* what the client gets

proxyVars == <<upstream, holders, older, at, hop, hops, reply>>

ProxyInit ==
  /\ upstream = [s \in Servers |-> NoServer]
  /\ holders = {} /\ older = {}
  /\ at = NoServer /\ hop = FALSE /\ hops = 0 /\ reply = "none"

(* Deployments configure their upstreams as they like, and a client sends  *)
(* a request to one of them.                                               *)
Configure ==
  /\ at = NoServer /\ reply = "none"
  /\ upstream' \in [Servers -> Servers \cup {NoServer}]
  /\ holders' \in SUBSET Servers /\ older' \in SUBSET Servers
  /\ at' \in Servers
  /\ UNCHANGED <<hop, hops, reply>>

(* Mutant: the outbound request is not marked.                             *)
RewriteUnmarked == UNCHANGED hop

(* rewrite marks the outbound request.                                     *)
Rewrite == hop' = TRUE

(* orUpstream: forward when charts are missing here, unless forwarded.     *)
Forwards(s) == upstream[s] # NoServer /\ s \notin holders /\ ~hop

Forward ==
  /\ at # NoServer /\ at \notin older /\ Forwards(at)
  /\ at' = upstream[at] /\ hops' = hops + 1
  /\ Rewrite
  /\ UNCHANGED <<upstream, holders, older, reply>>

(* ErrorHandler: the upstream does not answer.                             *)
Unreachable ==
  /\ at # NoServer /\ at \notin older /\ Forwards(at)
  /\ at' = NoServer /\ reply' = "unreachable"
  /\ UNCHANGED <<upstream, holders, older, hop, hops>>

(* The endpoint answers itself, with charts or without; a server that      *)
(* lacks it has its plain 404 explained by the server that forwarded.      *)
Answer ==
  /\ at # NoServer
  /\ at \in older \/ ~Forwards(at)
  /\ at' = NoServer
  /\ reply' = IF at \in older THEN (IF hops > 0 THEN "needs redeploying" ELSE "not found")
             ELSE IF at \in holders THEN "charts" ELSE "no charts"
  /\ UNCHANGED <<upstream, holders, older, hop, hops>>

ProxyNext == Configure \/ Forward \/ Unreachable \/ Answer

ProxySpec == ProxyInit /\ [][ProxyNext]_proxyVars

(* Whatever upstreams are configured, a request is forwarded at most once: *)
(* "a chain of chart servers can never form a loop" (proxy.go:38).         *)
ForwardedOnce == hops <= 1
=============================================================================
