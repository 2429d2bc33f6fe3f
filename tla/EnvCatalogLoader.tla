-------------------------- MODULE EnvCatalogLoader --------------------------
(***************************************************************************)
(* The catalog loader of @openpipeline/mcp for one run                     *)
(* (mcp/src/env-catalog-loader.ts): load() connects to the configured MCP  *)
(* servers one after the other and lists their tools; what it answers has  *)
(* a cleanup() that closes the clients. An action is the code between two  *)
(* awaits.                                                                 *)
(***************************************************************************)
EXTENDS Naturals

CONSTANTS
    Servers,    \* options.servers
    PagesOf,    \* the pages each of them lists its tools in
    HasPolicy,  \* options.policy is there, with all its methods
    NoServer

ASSUME ServersAssumption ==
    /\ PagesOf \in [Servers -> Nat \ {0}]
    /\ HasPolicy \in BOOLEAN
    /\ NoServer \notin Servers

VARIABLES
    loader,     \* what load() awaits
    left,       \* the servers the loop has yet to come to
    server,     \* the one it is at
    client,     \* the client made for each server
    clients,    \* the servers whose client cleanup() knows of
    providers,  \* the servers whose tools the catalog offers
    page        \* the page of raw schemas read last

loaderVars == <<loader, left, server, client, clients, providers, page>>

LoaderState == {"idle", "filterProviders", "resolveToken", "getTools", "filterTools",
                "listTools", "nextCursor", "resolved", "rejected"}

LoaderTypeOK ==
    /\ loader \in LoaderState
    /\ left \subseteq Servers
    /\ server \in Servers \cup {NoServer}
    /\ client \in [Servers -> {"none", "open", "closed", "unclosed"}]
    /\ clients \subseteq Servers
    /\ providers \subseteq Servers
    /\ page \in Nat

LoaderInit ==
    /\ loader = "idle"
    /\ left = {}
    /\ server = NoServer
    /\ client = [s \in Servers |-> "none"]
    /\ clients = {}
    /\ providers = {}
    /\ page = 0

-----------------------------------------------------------------------------
CallLoad ==
    /\ loader = "idle"
    /\ loader' = "filterProviders"
    /\ UNCHANGED <<left, server, client, clients, providers, page>>

(* The head of the loop; without a policy there is no token to wait for.    *)
NextServer(rest) ==
    /\ page' = 0
    /\ \/ /\ rest = {}
          /\ loader' = "resolved" /\ server' = NoServer /\ left' = {}
       \/ \E s \in rest :
             loader' = "resolveToken" /\ server' = s /\ left' = rest \ {s}

FilterProviders ==
    /\ loader = "filterProviders"
    /\ \E chosen \in IF HasPolicy THEN SUBSET Servers ELSE {Servers} : NextServer(chosen)
    /\ UNCHANGED <<client, clients, providers>>

(* clients.push(client). The variant forgets it.                            *)
PushNothing == clients
PushClient == clients \cup {server}

CreateClient ==
    /\ loader = "resolveToken"
    /\ client' = [client EXCEPT ![server] = "open"]
    /\ clients' = PushClient
    /\ loader' = "getTools"
    /\ UNCHANGED <<left, server, providers, page>>

(* createClient throws, there is no url or no command: on to the next one.  *)
CreateClientThrows ==
    /\ loader = "resolveToken"
    /\ NextServer(left)
    /\ UNCHANGED <<client, clients, providers>>

(* getTools, which connects.                                                *)
GetTools ==
    /\ loader = "getTools"
    /\ loader' = "filterTools"
    /\ UNCHANGED <<left, server, client, clients, providers, page>>

GetToolsFails ==
    /\ loader = "getTools"
    /\ NextServer(left)
    /\ UNCHANGED <<client, clients, providers>>

FilterTools ==
    /\ loader = "filterTools"
    /\ loader' = "listTools"
    /\ UNCHANGED <<left, server, client, clients, providers, page>>

(* getRawSchemas asks for the tools and asks again while the answer has a   *)
(* cursor. The request has none, so every answer is the first page; in the  *)
(* variant the cursor is passed on.                                         *)
PageAtCursor == page + 1
PageAnswered == 1

ListTools ==
    /\ loader = "listTools"
    /\ PageAnswered < PagesOf[server]
    /\ page' = PageAnswered
    /\ loader' = "nextCursor"
    /\ UNCHANGED <<left, server, client, clients, providers>>

AskAgain ==
    /\ loader = "nextCursor"
    /\ loader' = "listTools"
    /\ UNCHANGED <<left, server, client, clients, providers, page>>

(* The last page, or an error, which getRawSchemas swallows.                *)
Provide ==
    /\ loader = "listTools"
    /\ PageAnswered = PagesOf[server]
    /\ providers' = providers \cup {server}
    /\ NextServer(left)
    /\ UNCHANGED <<client, clients>>

ProvideWithoutSchemas ==
    /\ loader = "listTools"
    /\ providers' = providers \cup {server}
    /\ NextServer(left)
    /\ UNCHANGED <<client, clients>>

(* A method of the policy rejects, and load() with it.                      *)
PolicyRejects ==
    /\ HasPolicy
    /\ loader \in {"filterProviders", "resolveToken", "filterTools"}
    /\ loader' = "rejected"
    /\ left' = {} /\ server' = NoServer
    /\ UNCHANGED <<client, clients, providers, page>>

-----------------------------------------------------------------------------
(* cleanup() closes the clients at once; one that cannot be closed is       *)
(* logged. It resolves when all have answered. The variant does not wait.   *)
CloseClient(s) ==
    /\ s \in clients
    /\ client[s] = "open"
    /\ \E answer \in {"closed", "unclosed"} : client' = [client EXCEPT ![s] = answer]
    /\ UNCHANGED <<loader, left, server, clients, providers, page>>

ResolveAtOnce == TRUE
CloseSettled == \A s \in clients : client[s] # "open"

LoaderStep ==
    \/ FilterProviders
    \/ CreateClient \/ CreateClientThrows
    \/ GetTools \/ GetToolsFails
    \/ FilterTools
    \/ ListTools \/ AskAgain
    \/ Provide \/ ProvideWithoutSchemas
    \/ PolicyRejects

=============================================================================
