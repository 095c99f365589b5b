---------------------------- MODULE McpRegistry ----------------------------
(***************************************************************************)
(* McpServerRegistry of src/app/services/mcp_registry.py: what each MCP    *)
(* server offers, asked once, shared by all requests of the process.       *)
(*                                                                         *)
(* A server is a process started for one listing or one call, so its tools *)
(* are its code: Offers is fixed, and what varies is whether it answers.   *)
(* Who failed to answer is remembered in trouble, for the properties only. *)
(***************************************************************************)
EXTENDS Naturals, Sequences, FiniteSets

CONSTANTS
    Turns,          \* requests in flight that use tools
    Servers,        \* REGISTERED_SERVERS, in order
    Offers,         \* server -> its tools
    MaxFailures     \* bound: calls that get no answer

ASSUME RegistryAssumption ==
    /\ MaxFailures \in Nat
    /\ Servers \in Seq(DOMAIN Offers)
    /\ \A i, j \in DOMAIN Servers : Servers[i] = Servers[j] => i = j

VARIABLES
    known,          \* _discovered: the servers that have been listed
    asking,         \* request -> the server its discovery waits for, as an index, or 0
    table,          \* request -> what its last discovery returned
    failures,       \* how often a call got no answer
    trouble         \* request -> servers that failed anyone since it began
registryVars == <<known, asking, table, failures, trouble>>

Names == {Servers[i] : i \in DOMAIN Servers}
Tools == UNION {Offers[s] : s \in Names}

RegistryInit ==
    /\ known = {}
    /\ asking = [r \in Turns |-> 0]
    /\ table = [r \in Turns |-> {}]
    /\ failures = 0
    /\ trouble = [r \in Turns |-> {}]

\* The loop of discover goes on to the next server that is not known by then.
NextToAsk(offered, from) ==
    LET left == {i \in DOMAIN Servers : i >= from /\ Servers[i] \notin offered}
    IN  IF left = {} THEN 0 ELSE CHOOSE i \in left : \A j \in left : i <= j

\* discover of request r goes on at from, or returns a copy of what is known.
Discover(r, offered, from) ==
    LET next == NextToAsk(offered, from)
    IN  /\ asking' = [asking EXCEPT ![r] = next]
        /\ table' = IF next = 0 THEN [table EXCEPT ![r] = offered] ELSE table

Failing(server) == trouble' = [r \in Turns |-> trouble[r] \cup {server}]

Listed(r) ==
    /\ asking[r] # 0
    /\ known' = known \cup {Servers[asking[r]]}
    /\ Discover(r, known', asking[r] + 1)
    /\ UNCHANGED <<failures, trouble>>

\* McpConnectionError or the timeout: the loop goes on without this server.
NotListed(r) ==
    /\ asking[r] # 0
    /\ Failing(Servers[asking[r]])
    /\ Discover(r, known, asking[r] + 1)
    /\ UNCHANGED <<known, failures>>

\* Mutant: a call that fails forgets every server.
ForgetsAll(server) == {}

\* A call that got no answer forgets its server, so that it is listed again.
Forgets(server) == known \ {server}

\* server_of, for a discovery that returned offered: the first that has it.
ServerOf(tool, offered) ==
    LET having == {i \in DOMAIN Servers : Servers[i] \in offered /\ tool \in Offers[Servers[i]]}
    IN  IF having = {} THEN 0 ELSE CHOOSE i \in having : \A j \in having : i <= j

RegistryTypeOK ==
    /\ known \subseteq Names
    /\ asking \in [Turns -> DOMAIN Servers \cup {0}]
    /\ table \in [Turns -> SUBSET Names]
    /\ failures \in 0..MaxFailures
    /\ trouble \in [Turns -> SUBSET Names]

=============================================================================
